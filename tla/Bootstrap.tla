----------------------------- MODULE Bootstrap ------------------------------
(***************************************************************************)
(* The client half of core/bootstrap.c: asking a bootstrap server for the  *)
(* accounts, obeying its commands, finishing or giving up.                 *)
(*                                                                         *)
(* Definitions are functions of the context `c' of module Accounts.  The   *)
(* entries of bootstrapServerList (c.bs) have the statuses below; their    *)
(* field registration is the time until which they wait.                   *)
(***************************************************************************)
EXTENDS Registration

CONSTANTS ExchangeLifetime,     \* COAP_EXCHANGE_LIFETIME
          All                   \* no instance in the URI of a command

ASSUME ExchangeAssumption == ExchangeLifetime \in Nat

BsStatuses == {"DEREGISTERED", "BS_HOLD_OFF", "BS_INITIATED", "BS_PENDING",
               "BS_FINISHING", "BS_FINISHED", "BS_FAILING", "BS_FAILED"}

SetBs(c, i, s) == [c EXCEPT !.bs = [@ EXCEPT ![i] = s]]

-----------------------------------------------------------------------------
(* The request *)

\* The callback of the request; "none" stands for a reset and for no answer.
prv_handleBootstrapReply(c, i, code, now) ==
    LET s == c.bs[i]
    IN  CASE s.status # "BS_INITIATED" -> c
          [] s.status = "BS_INITIATED" /\ code = "2.04" ->
               SetBs(c, i, [s EXCEPT !.status = "BS_PENDING",
                                     !.registration = now + ExchangeLifetime])
          [] OTHER -> SetBs(c, i, [s EXCEPT !.status = "BS_FAILING"])

prv_requestBootstrap(c, i, fate) ==
    LET s    == c.bs[i]
        open == IF s.session # 0 THEN s ELSE [s EXCEPT !.session = NewSession(c, i)]
    IN  CASE s.session = 0 /\ fate = "unconnected" ->
               [server |-> [s EXCEPT !.status = "BS_FAILED"], trans |-> {}]
          [] fate = "unsent"  -> [server |-> [open EXCEPT !.status = "BS_FAILING"], trans |-> {}]
          [] fate = "refused" -> [server |-> open, trans |-> {}]
          [] OTHER -> [server |-> [open EXCEPT !.status = "BS_INITIATED"],
                       trans  |-> {"bootstrap"}]

\* bootstrap_start: every bootstrap server begins again, its session is opened.
Restarted(c, i, fate) ==
    [c.bs[i] EXCEPT !.status  = "DEREGISTERED",
                    !.session = IF @ = 0 /\ fate # "unconnected" THEN NewSession(c, i) ELSE @]

bootstrap_start(c, fate) ==
    [c EXCEPT !.bs = [i \in DOMAIN c.bs |-> Restarted(c, i, fate)]]

\* What bootstrap_step does for one server.
StepBs(c, i, fate, now) ==
    LET s     == c.bs[i]
        To(st) == [server |-> [s EXCEPT !.status = st], trans |-> {}]
        due   == s.registration <= now
    IN  CASE s.status = "DEREGISTERED" ->
               [server |-> [s EXCEPT !.status = "BS_HOLD_OFF", !.registration = now + s.lifetime],
                trans |-> {}]
          [] s.status = "BS_HOLD_OFF" /\ due -> prv_requestBootstrap(c, i, fate)
          [] s.status = "BS_PENDING" /\ due  -> To("BS_FAILING")
          [] s.status = "BS_FINISHING" ->
               [server |-> [s EXCEPT !.status = "BS_FINISHED", !.session = 0], trans |-> {}]
          [] s.status = "BS_FAILING" ->
               [server |-> [s EXCEPT !.status = "BS_FAILED", !.session = 0], trans |-> {}]
          [] OTHER -> To(s.status)

AfterBsSteps(c, steps, now) ==
    [c EXCEPT !.bs    = [i \in DOMAIN steps |-> steps[i].server],
              !.trans = @ \cup NewTransactions(c, steps, now)]

bootstrap_step(c, fate, now) ==
    AfterBsSteps(c, [i \in DOMAIN c.bs |-> StepBs(c, i, fate, now)], now)

\* What it makes of *timeoutP, relative to the time of the call.
BootstrapWakes(c, now) ==
    UNION {LET s == c.bs[i]
           IN  CASE s.status = "DEREGISTERED" -> {s.lifetime}
                 [] s.status \in {"BS_HOLD_OFF", "BS_PENDING"} /\ s.registration > now ->
                      {s.registration - now}
                 [] s.status = "BS_HOLD_OFF" /\ s.registration <= now -> {}
                 [] s.status \in {"BS_PENDING", "BS_FINISHING", "BS_FAILING"} -> {0}
                 [] OTHER -> {}
           : i \in DOMAIN c.bs}

\* A server that has failed counts as under way.
M_getStatus(c) ==
    LET st == {c.bs[i].status : i \in DOMAIN c.bs}
    IN  IF st \ {"DEREGISTERED", "BS_FINISHED"} # {} THEN "BS_PENDING"
        ELSE IF "BS_FINISHED" \in st THEN "BS_FINISHED" ELSE "BS_FAILED"

\* Pending while one is, finished if one is, else failed.
bootstrap_getStatus(c) ==
    LET st == {c.bs[i].status : i \in DOMAIN c.bs}
    IN  IF st \cap {"BS_HOLD_OFF", "BS_INITIATED", "BS_PENDING", "BS_FINISHING",
                    "BS_FAILING"} # {} THEN "BS_PENDING"
        ELSE IF "BS_FINISHED" \in st THEN "BS_FINISHED" ELSE "BS_FAILED"

-----------------------------------------------------------------------------
(* Commands.  q.op is "put", "delete", "get" (read and discover) or "post". *)
(* q.items holds what the decoder made of the payload of a "put": records   *)
(* of an instance ID, its payload and whether it is an object instance at   *)
(* all; exactly one instance when the URI names one.                        *)

\* A command is heard in these statuses only.
prv_checkServerStatus(s, now) ==
    CASE s.status \in {"BS_HOLD_OFF", "BS_INITIATED"} ->
           [ok |-> TRUE, server |-> [s EXCEPT !.status = "BS_PENDING"]]
      [] s.status \in {"DEREGISTERED", "BS_PENDING"} ->
           [ok |-> TRUE, server |-> [s EXCEPT !.registration = now + ExchangeLifetime]]
      [] OTHER -> [ok |-> FALSE, server |-> s]

Tagged(list, S) == [i \in DOMAIN list |->
                       IF i \in S THEN [list[i] EXCEPT !.dirty = TRUE] ELSE list[i]]

\* The server list is forgotten.
M_tagServer(c, k) == [c EXCEPT !.bs = Tagged(@, DOMAIN @ \cap {k})]

\* The instance of a bootstrap server hides that of a server with the same ID.
prv_tagServer(c, k) ==
    IF k \in DOMAIN c.bs THEN [c EXCEPT !.bs = Tagged(@, {k})]
    ELSE [c EXCEPT !.servers = Tagged(@, {k})]

prv_tagAllServer(c, i) ==
    [c EXCEPT !.bs = Tagged(@, DOMAIN @ \ {i}), !.servers = Tagged(@, DOMAIN @)]

\* One instance of a PUT: created or replaced, and the server of it tagged.
PutInstance(c, obj, k, d, single) ==
    IF object_isInstanceNew(c, obj, k)
    THEN LET r == IF single THEN object_create(c, obj, k, d) ELSE object_createInstance(c, obj, d)
         IN  [r EXCEPT !.code = IF @ = "2.01" THEN "2.04" ELSE @]
    ELSE LET r == IF single THEN object_write(c, obj, k, d, FALSE)
                  ELSE object_writeInstance(c, obj, k, d)
         IN  [r EXCEPT !.ctx = IF obj = 0 /\ r.code = "2.04" THEN prv_tagServer(@, k) ELSE @]

\* The refusal that does not end the loop: the last item was no instance (4.00),
\* or the payload held no item (4.00, or 5.00 if it could not be decoded).
NoInstance == "no instance"

\* The next item after result r: none is put once an instance has failed.
PutNext(r, obj, it, single) ==
    CASE r.code \notin {"2.04", NoInstance} -> r
      [] r.code \in {"2.04", NoInstance} /\ ~it.instance -> [ctx |-> r.ctx, code |-> NoInstance]
      [] OTHER -> PutInstance(r.ctx, obj, it.inst, it.data, single)

\* The items of a PUT in turn; after[n] is the result of the first n.
PutInstances(c, obj, items, single) ==
    LET after[n \in 0 .. Len(items)] ==
          IF n = 0 THEN [ctx |-> c, code |-> NoInstance]
          ELSE PutNext(after[n - 1], obj, items[n], single)
    IN  after[Len(items)]

\* All Security instances but that of the bootstrap server.
DeleteSecurity(c, i) ==
    prv_tagAllServer([c EXCEPT !.sec = Restrict(@, DOMAIN @ \cap {i}), !.torn = @ \cap {i}], i)

DeleteInstances(c, i, obj, k) ==
    CASE obj = 0 /\ k = All -> [ctx |-> DeleteSecurity(c, i), code |-> "2.02"]
      [] obj # 0 /\ k = All -> [ctx |-> [c EXCEPT !.serverObj = <<>>], code |-> "2.02"]
      [] OTHER -> LET r == object_delete(c, obj, k)
                  IN  [r EXCEPT !.ctx = IF obj = 0 /\ r.code = "2.02"
                                        THEN prv_tagServer(@, k) ELSE @]

\* A command that changes something makes a bootstrap of a silent client.
Settled(r, i) ==
    IF r.code \in {"2.02", "2.04"} /\ r.ctx.bs[i].status # "BS_PENDING"
    THEN [SetBs(r.ctx, i, [r.ctx.bs[i] EXCEPT !.status = "BS_PENDING"])
            EXCEPT !.state = "BOOTSTRAPPING"]
    ELSE r.ctx

bootstrap_handleCommand(c, i, q, now) ==
    LET heard == prv_checkServerStatus(c.bs[i], now)
        d     == SetBs(c, i, heard.server)
        r     == CASE q.op = "put"    -> PutInstances(d, q.obj, q.items, q.inst # All)
                   [] q.op = "delete" -> DeleteInstances(d, i, q.obj, q.inst)
                   [] q.op = "get"    -> [ctx |-> d, code |-> "2.05"]
                   [] q.op = "post"   -> [ctx |-> d, code |-> "4.00"]
    IN  IF heard.ok THEN Settled(r, i) ELSE c

\* DELETE /: unlike a command it does not change the state of the context.
bootstrap_handleDeleteAll(c, i, now) ==
    LET heard == prv_checkServerStatus(c.bs[i], now)
    IN  IF heard.ok
        THEN [DeleteSecurity(SetBs(c, i, heard.server), i) EXCEPT !.serverObj = <<>>]
        ELSE c

\* A status of the other list.
M_handleFinish(c, i) ==
    IF c.bs[i].status = "BS_PENDING" THEN SetBs(c, i, [c.bs[i] EXCEPT !.status = "REGISTERED"])
    ELSE c

bootstrap_handleFinish(c, i) ==
    IF c.bs[i].status = "BS_PENDING" /\ object_getServers(c, TRUE).ok
    THEN SetBs(c, i, [c.bs[i] EXCEPT !.status = "BS_FINISHING"])
    ELSE c
=============================================================================

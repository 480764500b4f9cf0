-------------------------- MODULE DeviceManagement --------------------------
(***************************************************************************)
(* Device management on the client: dm_handleRequest of core/management.c  *)
(* with what it leads to in objects.c and observe.c, the changes the       *)
(* application reports, resets of notifications, and observe_step in the   *)
(* main loop.  Times are relative to the present, as in module Client.     *)
(***************************************************************************)
EXTENDS Observe

CONSTANTS
    Servers,
    Requests,       \* requests of the servers
    Preludes,       \* sequences of <<server, request>> handled before the first step
    Changes,        \* changes the application makes: URI and value
    ServerMids,     \* message IDs the servers use
    MaxWait,        \* seconds the main loop waits at most
    Horizon,        \* older time stamps are not told apart
    MaxCalls        \* bound on requests, resets and changes

ASSUME BoundAssumption ==
    /\ MidSpan \in Nat \ {0} /\ MaxWait \in Nat /\ Horizon \in Nat /\ MaxCalls \in Nat
    /\ ServerMids \subseteq 0 .. MidSpan - 1

\* What prv_readAttributes returns: flags, and periods that are not negative.
ASSUME AttributeAssumption ==
    \A q \in Requests : q.query /\ q.attr # Bad =>
        /\ q.attr.set \subseteq {"pmin", "pmax"} \cup Thresholds
        /\ q.attr.pmin \in Nat /\ q.attr.pmax \in Nat

\* What coap_packet_t and uri_decode give for a request: a path of one to four IDs,
\* and a list of items.
ASSUME RequestAssumption ==
    /\ \A q \in Requests :
         /\ q.uri \in Seq(Nat) /\ Len(q.uri) \in 1 .. 4
         /\ q.items \in Seq(Range(q.items))
         /\ q.id \in {None, Bad} \/ q.id \in Nat
         /\ q.accept \in {"fits", "other", "fails"}
    /\ \A p \in Preludes : p \in Seq(Servers \X Requests)
    /\ \A ch \in Changes : ch.uri \in Seq(Nat) /\ Len(ch.uri) \in 1 .. 4

VARIABLES
    prelude,        \* requests still to be handled before the first step
    ctx,            \* store, observed, nextMID
    wake,           \* seconds until observe_step
    calls           \* requests, resets and changes so far

vars == <<prelude, ctx, wake, calls>>

-----------------------------------------------------------------------------
(* Requests *)

\* A delete of an instance ends its observations.
object_delete(c, u) ==
    IF u[1] \notin ObjectIds THEN [code |-> "4.04", ctx |-> c]
    ELSE IF u[1] \notin Creates THEN [code |-> "4.05", ctx |-> c]
    ELSE IF ~HasInstance(c, u) THEN [code |-> "4.04", ctx |-> c]
    ELSE [code |-> "2.02", ctx |-> observe_clear(Removed(c, u[1], u[2]), u)]

\* The code for what was read: q.accept says whether the client has a format the
\* server accepts, and whether lwm2m_data_serialize fails.
utils_getResponseFormat(code, q) == IF code = "2.05" /\ q.accept = "other" THEN "4.06" ELSE code
Serialized(code, q) == IF code = "2.05" /\ q.accept = "fails" THEN "5.00" ELSE code

Reads(c, q) ==
    [code |-> Serialized(utils_getResponseFormat(object_readData(c, q.uri).code, q), q), ctx |-> c]

\* An observation begins or ends only if the URI can be read; it has begun or ended
\* when the value cannot be serialised.
Observes(c, s, q, mid, read) ==
    LET code == utils_getResponseFormat(read.code, q)
        r    == observe_handleRequest(c, q.uri, s, q.observe, q.token, mid, read.data,
                                      q.accept # "fails")
    IN  IF code # "2.05" THEN [code |-> code, ctx |-> c]
        ELSE [code |-> Serialized(r.code, q), ctx |-> r.ctx]

Posts(c, q) ==
    CASE Len(q.uri) = 1 -> object_create(c, q.uri, q.id, q.items)
      [] Len(q.uri) > 1 /\ q.plain ->
           IF Len(q.uri) = 3 THEN object_execute(c, q.uri, q.args)
           ELSE [code |-> "4.00", ctx |-> c]
      [] OTHER -> object_write(c, q.uri, q.items, TRUE)

\* q.attr is what prv_readAttributes makes of the query, or Bad.
Puts(c, s, q) ==
    CASE q.query /\ q.attr = Bad -> [code |-> "4.00", ctx |-> c]
      [] q.query /\ q.attr # Bad -> observe_setParameters(c, q.uri, s, q.attr)
      [] OTHER -> IF Len(q.uri) >= 2 THEN object_write(c, q.uri, q.items, FALSE)
                  ELSE [code |-> "4.00", ctx |-> c]

Deletes(c, q) ==
    IF Len(q.uri) = 2 THEN object_delete(c, q.uri) ELSE [code |-> "4.00", ctx |-> c]

\* The update of the registration after a create and a delete is in Client.
dm_handleRequest(c, s, q, mid) ==
    IF q.uri[1] = 0 THEN [code |-> "4.01", ctx |-> c]
    ELSE
    CASE q.op = "get"      -> Reads(c, q)
      [] q.op = "observe"  -> Observes(c, s, q, mid, object_readData(c, q.uri))
      [] q.op = "discover" -> [code |-> object_discover(c, q.uri).code, ctx |-> c]
      [] q.op = "post"     -> Posts(c, q)
      [] q.op = "put"      -> Puts(c, s, q)
      [] q.op = "delete"   -> Deletes(c, q)
      [] OTHER             -> [code |-> "4.00", ctx |-> c]

\* What is now different from what a watcher was told goes unreported.
Silently(c, d) ==
    LET Mark(u, w) == [w EXCEPT !.silent =
                         @ \/ object_readData(c, u).data # object_readData(d, u).data]
    IN  MapWatchers(d, Mark)

\* A call that changes nothing but the timer is not counted.
Counted == calls < MaxCalls /\ calls' = IF ctx' = ctx THEN calls ELSE calls + 1

Init ==
    /\ prelude \in Preludes
    /\ ctx = [store |-> InitialStore, observed |-> <<>>, nextMID |-> 0]
    /\ wake = 0
    /\ calls = 0

\* A server is heard while its status lets it manage the client (see Client), which
\* may be at any time; the notifications go on when it is not.
Handle(s, q, mid) ==
    /\ \E r \in {dm_handleRequest(ctx, s, q, mid)} :
         ctx' = IF r.ctx.store = ctx.store THEN r.ctx ELSE Silently(ctx, r.ctx)
    /\ wake' = 0

Prelude ==
    /\ prelude # <<>>
    /\ \E mid \in ServerMids : Handle(Head(prelude)[1], Head(prelude)[2], mid)
    /\ prelude' = Tail(prelude)
    /\ UNCHANGED calls

Request ==
    /\ prelude = <<>>
    /\ \E s \in Servers : \E q \in Requests : \E mid \in ServerMids : Handle(s, q, mid)
    /\ Counted
    /\ UNCHANGED prelude

\* handle_reset: a server may reset any message, an old notification too.
Reset ==
    /\ prelude = <<>>
    /\ \E s \in Servers : \E mid \in 0 .. MidSpan - 1 : ctx' = observe_cancel(ctx, mid, s)
    /\ Counted
    /\ wake' = 0
    /\ UNCHANGED prelude

-----------------------------------------------------------------------------
(* The application and time *)

\* The change command writes like a server, or with device_change, and reports it.
\* Without a resource in the URI there is nothing to write.
handle_value_changed(c, u, v) ==
    LET it == [id |-> u[3], multi |-> Len(u) = 4, val |-> IF Len(u) = 4 THEN Only(u[4], v) ELSE v]
        w  == writeFunc(c, u[1], u[2], <<it>>, "partial")
        e  == device_change(Instance(c, u), u[3], v)
        r  == IF w.code = "4.05" /\ u[1] = Device
              THEN [code |-> e.code, ctx |-> Changed(c, u[1], u[2], e.st)] ELSE w
    IN  IF Len(u) < 3 \/ u[1] \notin Writes THEN c
        ELSE IF r.code = "2.04" THEN lwm2m_resource_value_changed(r.ctx, u)
        ELSE IF r.ctx.store = c.store THEN r.ctx ELSE Silently(c, r.ctx)

\* Without a value the command only reports.
prv_change(c, u, v) ==
    IF v = None THEN lwm2m_resource_value_changed(c, u) ELSE handle_value_changed(c, u, v)

ValueChanged ==
    /\ prelude = <<>>
    /\ \E ch \in Changes : ctx' = prv_change(ctx, ch.uri, ch.val)
    /\ Counted
    /\ wake' = 0
    /\ UNCHANGED prelude

Step ==
    /\ prelude = <<>> /\ wake = 0
    /\ ctx' = observe_step(ctx)
    /\ wake' = Min(ObserveWakes(ctx, ctx') \cup {MaxWait})
    /\ UNCHANGED <<calls, prelude>>

Aged(w) == [w EXCEPT !.lastTime = Max({@ - 1, -Horizon})]

Tick ==
    /\ wake > 0
    /\ wake' = wake - 1
    /\ LET Older(u, w) == Aged(w) IN ctx' = MapWatchers(ctx, Older)
    /\ UNCHANGED <<calls, prelude>>

Next == Prelude \/ Request \/ Reset \/ ValueChanged \/ Step \/ Tick

Spec == Init /\ [][Next]_vars

\* The main loop goes on (weak fairness, with ENABLED spelled out: a step changes
\* wake, or sends a notification), and time passes whatever arrives.
FairSpec ==
    /\ Spec
    /\ <>(prelude = <<>>)
    /\ <>[](wake = 0) => []<><<Step>>_vars
    /\ []<>(wake > 0) => []<><<Tick>>_vars

-----------------------------------------------------------------------------
(* Properties *)

Watchers == UNION {Range(ctx.observed[k].watchers) : k \in DOMAIN ctx.observed}

Entries == Range(ctx.observed)

\* Types of the lists.
TypeOK ==
    /\ DOMAIN ctx.store = ObjectIds
    /\ \A e \in Entries : e.uri[1] \in ObjectIds /\ Len(e.uri) \in 1 .. 4
    /\ \A w \in Watchers :
         /\ w.server \in Servers
         /\ {w.active, w.update, w.silent} \subseteq BOOLEAN
         /\ w.lastTime \in -Horizon .. 0 /\ w.lastMid \in 0 .. MidSpan - 1
         /\ w.params # None => w.params.set \subseteq {"pmin", "pmax"} \cup Thresholds
    /\ ctx.nextMID \in 0 .. MidSpan - 1
    /\ wake \in 0 .. MaxWait

\* observe_cancel reads the first watcher of every entry without looking whether
\* there is one, and a server has one token per URI: no entry is empty, none has
\* two watchers of a server, and no two are for the same URI.
EntriesSound ==
    /\ \A e \in Entries : e.watchers # <<>>
    /\ \A e \in Entries : \A m, n \in DOMAIN e.watchers :
         e.watchers[m].server = e.watchers[n].server => m = n
    /\ \A j, k \in DOMAIN ctx.observed : ctx.observed[j].uri = ctx.observed[k].uri => j = k

\* No change the application reports is lost: what differs from what a server was
\* last told is marked for notification, whatever else was asked meanwhile.  Not
\* so for what a server changed itself, and for a watcher that prv_findObserved
\* has put on a longer URI than it asked for.
NoChangeLost ==
    \A e \in Entries : \A n \in DOMAIN e.watchers :
        LET w == e.watchers[n]
        IN  w.active /\ w.asked = e.uri /\ ~w.silent
            => w.update \/ w.told = <<Len(e.uri), object_readData(ctx, e.uri).data>>

\* Whenever the main loop waits, no server waits for longer than its maximal
\* period: observe_step has let the loop wake up in time.
PmaxKept ==
    \A e \in Entries : \A n \in DOMAIN e.watchers :
        LET w == e.watchers[n]
        IN  wake > 0 /\ w.active /\ "pmax" \in Params(w).set
            /\ object_readData(ctx, e.uri).code = "2.05"
            => w.lastTime + Params(w).pmax > now

\* A request that is refused changes nothing: the rights of access control are
\* put back, a created instance is removed.  A payload of several resources may
\* be written up to the one refused, and an instance that was to be replaced is
\* gone.  One trace is left: a text that is no number makes the float of a test
\* instance 0.
RefusedChangesNothing ==
    \A q \in {p \in Requests : p.op \in {"post", "put", "delete"} /\ ~p.query} :
        LET r == dm_handleRequest(ctx, CHOOSE s \in Servers : TRUE, q, 0)
        IN  /\ r.code \notin {"2.01", "2.02", "2.04", "2.05"}
            /\ Len(q.items) <= 1 /\ ~(q.op = "put" /\ Len(q.uri) = 2)
            => \/ r.ctx.store = ctx.store
               \/ /\ q.items # <<>> /\ q.items[1].id = 3 /\ q.items[1].val = Bad
                  /\ \E i \in DOMAIN ctx.store[Test] :
                       r.ctx.store = [ctx.store EXCEPT ![Test][i] = FloatLost(@)]

\* A reported change reaches the server, unless its observation ends or has
\* thresholds only: the minimal period delays a notification, and does not lose it.
Due(s, u) ==
    \E e \in Entries : \E n \in DOMAIN e.watchers :
        LET w == e.watchers[n]
        IN  /\ e.uri = u /\ w.server = s /\ w.active /\ w.update
            /\ Params(w).set = {} \/ Params(w).set \cap {"pmin", "pmax"} # {}
            /\ object_readData(ctx, u).code = "2.05"

Observable == {q.uri : q \in {r \in Requests : r.op = "observe"}}

ToldInTime == \A s \in Servers : \A u \in Observable : Due(s, u) ~> ~Due(s, u)
=============================================================================

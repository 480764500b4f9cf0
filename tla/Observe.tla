------------------------------ MODULE Observe -------------------------------
(***************************************************************************)
(* The client half of core/observe.c: who observes what, with which        *)
(* attributes, and when a notification goes out.                           *)
(*                                                                         *)
(* c.observed is observedList: entries with a URI and a list of watchers,  *)
(* one per server.  A watcher's lastTime is relative to the present.  For  *)
(* the properties a watcher also has                                       *)
(*   asked    the URI of the request (the entry's may be a longer one)     *)
(*   told     the depth of the URI and what the last notification showed   *)
(*   silent   a server's request changed it since, or the answer with the  *)
(*            value could not be made: nobody reports that                 *)
(***************************************************************************)
EXTENDS Objects

CONSTANTS MidSpan        \* message IDs are counted modulo this (2^16)

Thresholds == {"gt", "lt", "st"}

NoAttributes == [set |-> {}, pmin |-> 0, pmax |-> 0, gt |-> 0, lt |-> 0, st |-> 0]

now == 0

NewWatcher(s, u) ==
    [server |-> s, active |-> FALSE, update |-> FALSE, lastTime |-> 0, lastMid |-> 0,
     value |-> 0, params |-> None, asked |-> u, told |-> None, silent |-> FALSE]

\* The first entry whose URI begins with u: it need not be u.
prv_findObserved(c, u) ==
    LET S == {k \in DOMAIN c.observed : IsPrefix(u, c.observed[k].uri)}
    IN  IF S = {} THEN 0 ELSE Min(S)

prv_findWatcher(watchers, s) ==
    LET S == {k \in DOMAIN watchers : watchers[k].server = s}
    IN  IF S = {} THEN 0 ELSE Min(S)

\* A new entry, and a new watcher, come first in their lists.
WithObserved(c, u) ==
    IF prv_findObserved(c, u) # 0 THEN c
    ELSE [c EXCEPT !.observed = <<[uri |-> u, watchers |-> <<>>]>> \o @]

prv_getWatcher(c, u, s) ==
    LET d == WithObserved(c, u)
        k == prv_findObserved(d, u)
    IN  IF prv_findWatcher(d.observed[k].watchers, s) # 0 THEN d
        ELSE [d EXCEPT !.observed[k].watchers = <<NewWatcher(s, u)>> \o @]

\* The context c that prv_getWatcher returns, with F applied to the watcher.
UpdateWatcher(c, u, s, F(_)) ==
    LET k == prv_findObserved(c, u)
    IN  [c EXCEPT !.observed[k].watchers[prv_findWatcher(c.observed[k].watchers, s)] = F(@)]

TheWatcher(c, u, s) ==
    LET k == prv_findObserved(c, u)
    IN  c.observed[k].watchers[prv_findWatcher(c.observed[k].watchers, s)]

-----------------------------------------------------------------------------
(* Cancelling *)

prv_unlinkObserved(c, k) == [c EXCEPT !.observed = RemoveAt(@, k)]

\* Mutant: an entry without watchers stays in the list.
M_observe_cancel(c, mid, s) ==
    [c EXCEPT !.observed = [k \in DOMAIN @ |-> [@[k] EXCEPT !.watchers =
        SelectSeq(@, LAMBDA w : ~(w.lastMid = mid /\ w.server = s))]]]

\* The first watcher of this server whose last message had this ID goes.
observe_cancel(c, mid, s) ==
    LET Match(k) == {n \in DOMAIN c.observed[k].watchers :
                        /\ c.observed[k].watchers[n].lastMid = mid
                        /\ c.observed[k].watchers[n].server = s}
        S == {k \in DOMAIN c.observed : Match(k) # {}}
        k == Min(S)
        d == [c EXCEPT !.observed[k].watchers = RemoveAt(@, Min(Match(k)))]
    IN  IF S = {} THEN c
        ELSE IF d.observed[k].watchers = <<>> THEN prv_unlinkObserved(d, k) ELSE d

\* The elements of list s at places K, in their order.
Sublist(s, K) ==
    [n \in 1 .. Cardinality(K) |-> s[CHOOSE k \in K : Cardinality({j \in K : j <= k}) = n]]

\* What was observed of a deleted instance, or object.
observe_clear(c, u) ==
    LET Cleared(e) == e.uri[1] = u[1] /\ (Len(u) = 1 \/ (Len(e.uri) > 1 /\ e.uri[2] = u[2]))
    IN  [c EXCEPT !.observed = Sublist(@, {k \in DOMAIN @ : ~Cleared(@[k])})]

-----------------------------------------------------------------------------
(* Requests *)

\* The Observe option is 0 (begin) or 1 (end); data is what was read of u, shown
\* whether the answer will have it.
observe_handleRequest(c, u, s, count, token, mid, data, shown) ==
    LET Begin(w) == [w EXCEPT !.active = TRUE, !.lastTime = now, !.lastMid = mid,
                              !.value = IF IsNumeric(u) THEN data ELSE @,
                              !.asked = u, !.told = <<Len(u), data>>, !.silent = ~shown]
        k == prv_findObserved(c, u)
        n == prv_findWatcher(c.observed[k].watchers, s)
    IN  CASE count = 0 /\ ~token -> [code |-> "4.00", ctx |-> c]
          [] count = 0 /\ token  -> [code |-> "2.05",
                                     ctx  |-> UpdateWatcher(prv_getWatcher(c, u, s), u, s, Begin)]
          [] count = 1 -> [code |-> "2.05",
                           ctx  |-> IF k = 0 \/ n = 0 THEN c
                                    ELSE observe_cancel(c, c.observed[k].watchers[n].lastMid, s)]
          [] OTHER -> [code |-> "4.00", ctx |-> c]

Params(w) == IF w.params = None THEN NoAttributes ELSE w.params

\* What a threshold is to be: as the request says, else as it was.
Merged(w, attr, f) == IF f \in attr.set THEN attr[f] ELSE Params(w)[f]

BreaksRule(w, attr) ==
    /\ Thresholds \subseteq (attr.set \cup Params(w).set) \ attr.clear
    /\ Merged(w, attr, "lt") + 2 * Merged(w, attr, "st") >= Merged(w, attr, "gt")

\* Attributes that were not set before get a value and are not switched on.
SetParams(w, attr) ==
    IF w.params = None
    THEN [w EXCEPT !.params = IF attr.set = {} THEN None
                              ELSE [f \in DOMAIN NoAttributes |-> attr[f]]]
    ELSE [w EXCEPT !.params = [f \in DOMAIN NoAttributes |->
            IF f = "set" THEN @.set \ attr.clear
            ELSE IF f \in attr.set THEN attr[f] ELSE @[f]]]

\* The watcher is made before the rule is checked, and stays when it is broken.
ParametersSet(c, u, s, attr) ==
    LET Changed1(w) == SetParams(w, attr)
    IN  IF BreaksRule(TheWatcher(c, u, s), attr) THEN [code |-> "4.00", ctx |-> c]
        ELSE [code |-> "2.04", ctx |-> UpdateWatcher(c, u, s, Changed1)]

observe_setParameters(c, u, s, attr) ==
    LET code == object_checkReadable(c, u, attr.set \cap Thresholds # {})
    IN  IF code # "2.05" THEN [code |-> code, ctx |-> c]
        ELSE ParametersSet(prv_getWatcher(c, u, s), u, s, attr)

-----------------------------------------------------------------------------
(* Notifications *)

Overlap(u, v) == IsPrefix(u, v) \/ IsPrefix(v, u)

MapWatchers(c, F(_, _)) ==
    LET Mapped(e) == [e EXCEPT !.watchers = [n \in DOMAIN e.watchers |-> F(e.uri, e.watchers[n])]]
    IN  [c EXCEPT !.observed = [k \in DOMAIN c.observed |-> Mapped(c.observed[k])]]

\* Mutant: only observations of the very URI are tagged.
M_resource_value_changed(c, u) ==
    LET Tag(uri, w) == IF uri = u /\ w.active THEN [w EXCEPT !.update = TRUE] ELSE w
    IN  MapWatchers(c, Tag)

lwm2m_resource_value_changed(c, u) ==
    LET Tag(uri, w) == IF Overlap(uri, u) /\ w.active THEN [w EXCEPT !.update = TRUE] ELSE w
    IN  MapWatchers(c, Tag)

\* A value on the threshold is on neither side of it.
Crosses(x, v, last) == (v < x /\ last > x) \/ (v > x /\ last < x)

Abs(x) == IF x < 0 THEN -x ELSE x

ThresholdMet(w, u, v) ==
    /\ IsNumeric(u)
    /\ \/ "lt" \in Params(w).set /\ Crosses(Params(w).lt, v, w.value)
       \/ "gt" \in Params(w).set /\ Crosses(Params(w).gt, v, w.value)
       \/ "st" \in Params(w).set /\ Abs(v - w.value) >= Params(w).st

PminOver(w) == w.lastTime + Params(w).pmin <= now

\* Mutant: the comparison of the minimal period is turned round.
M_ChangeNotified(w, u, v) ==
    /\ w.update
    /\ IF "pmin" \in Params(w).set THEN w.lastTime + Params(w).pmin > now
       ELSE Params(w).set = {} \/ ThresholdMet(w, u, v)

\* A minimal period that is over makes a notification of every change.
ChangeNotified(w, u, v) ==
    /\ w.update
    /\ IF "pmin" \in Params(w).set THEN PminOver(w)
       ELSE Params(w).set = {} \/ ThresholdMet(w, u, v)


PmaxOver(w) == "pmax" \in Params(w).set /\ w.lastTime + Params(w).pmax <= now

Notifies(w, u, v) == w.active /\ (ChangeNotified(w, u, v) \/ PmaxOver(w))

Notified(w, u, v, mid) ==
    [w EXCEPT !.lastTime = now, !.lastMid = mid, !.update = FALSE, !.told = <<Len(u), v>>, !.silent = FALSE,
              !.value = IF IsNumeric(u) THEN v ELSE @]

\* The watchers that are notified, by their places in the lists: of entries that can
\* be read.
Notifying(c) ==
    UNION {LET u    == c.observed[k].uri
               read == object_readData(c, u)
               W    == c.observed[k].watchers
           IN  {<<k, n>> : n \in {m \in DOMAIN W : read.code = "2.05" /\ Notifies(W[m], u, read.data)}}
           : k \in DOMAIN c.observed}

Earlier(p, q) == p[1] < q[1] \/ (p[1] = q[1] /\ p[2] < q[2])

\* Mutant: the message ID does not wrap around.
M_MidAfter(c, sent) == c.nextMID + Cardinality(sent)

\* nextMID after a message to each of the watchers in sent.
MidAfter(c, sent) == (c.nextMID + Cardinality(sent)) % MidSpan

\* The watchers in the order of the lists, each with the message ID it finds.
observe_step(c) ==
    LET sent == Notifying(c)
        Stepped(k, n) ==
            LET u == c.observed[k].uri
                w == c.observed[k].watchers[n]
            IN  IF <<k, n>> \notin sent THEN w
                ELSE Notified(w, u, object_readData(c, u).data,
                              MidAfter(c, {p \in sent : Earlier(p, <<k, n>>)}))
        Walked(k) == [c.observed[k] EXCEPT !.watchers =
                        [n \in DOMAIN c.observed[k].watchers |-> Stepped(k, n)]]
    IN  [c EXCEPT !.observed = [k \in DOMAIN c.observed |-> Walked(k)],
                  !.nextMID = MidAfter(c, sent)]

\* A failed read of an object or instance, made for a notification, ends the
\* loop over its watchers; that of a resource comes before the loop.
Reached(c, k, n) ==
    LET u == c.observed[k].uri
        W == c.observed[k].watchers
    IN  \/ object_readData(c, u).code = "2.05"
        \/ Len(u) < 3 /\ \A m \in 1 .. n : ~Notifies(W[m], u, None)

\* Mutant: the loop is not woken for the end of a maximal period.
M_ObserveWakes(c, d) ==
    LET Waits(w) == {w.lastTime + Params(w).pmin : f \in {"pmin"} \cap Params(w).set}
    IN  UNION {UNION {Waits(w) : w \in {v \in Range(c.observed[k].watchers) :
                                         v.active /\ v.update /\ ~PminOver(v)}}
               : k \in DOMAIN c.observed}

\* What a step from c to d makes of *timeoutP.
ObserveWakes(c, d) ==
    LET Waits(w) == {w.lastTime + Params(w).pmin : f \in {"pmin"} \cap Params(w).set}
        Ends(w)  == {w.lastTime + Params(w).pmax : f \in {"pmax"} \cap Params(w).set}
        Wakes(k, n) ==
            LET w == c.observed[k].watchers[n]
            IN  (IF w.update /\ ~PminOver(w) THEN Waits(w) ELSE {})
                \cup Ends(d.observed[k].watchers[n])
    IN  UNION {UNION {Wakes(k, n) : n \in {m \in DOMAIN c.observed[k].watchers :
                        c.observed[k].watchers[m].active /\ Reached(c, k, m)}}
               : k \in DOMAIN c.observed}
=============================================================================

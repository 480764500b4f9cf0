------------------------------ MODULE Objects -------------------------------
(***************************************************************************)
(* core/objects.c and core/discover.c: what the library does with a        *)
(* request before and after the callback of an object, over the objects of *)
(* module ExampleObjects.                                                  *)
(*                                                                         *)
(* A URI is the sequence of its IDs: object, instance, resource, resource  *)
(* instance, as far as they are set.  `c' is the context: c.store has the  *)
(* instances of every object.                                              *)
(***************************************************************************)
EXTENDS ExampleObjects

Ri(u) == IF Len(u) = 4 THEN u[4] ELSE None

HasInstance(c, u) == u[2] \in DOMAIN c.store[u[1]]

Instance(c, u) == c.store[u[1]][u[2]]

\* What a reader gets of an instance.
Shown(o, st) == Restrict(st, {r \in ResourceList(o) : set_value(o, st, r, None) = "2.05"})

-----------------------------------------------------------------------------
(* Reading *)

\* The type of the value read is numeric: a multiple resource is not.
IsNumeric(u) ==
    /\ Len(u) >= 3
    /\ Numeric(u[1], u[3])
    /\ Len(u) = 3 => u[3] \notin Multiples(u[1])

\* Attributes can be set for what can be read, thresholds for numbers only.
object_checkReadable(c, u, thresholds) ==
    IF u[1] \notin ObjectIds THEN "4.04"
    ELSE IF Len(u) = 1 THEN "2.05"
    ELSE IF ~HasInstance(c, u) THEN "4.04"
    ELSE IF Len(u) = 2 THEN "2.05"
    ELSE LET code == readFunc(u[1], Instance(c, u), {u[3]}, Ri(u))
         IN  IF code = "2.05" /\ thresholds /\ ~IsNumeric(u) THEN "4.05" ELSE code

Answer(code, data) == [code |-> code, data |-> IF code = "2.05" THEN data ELSE None]

ReadInstance(o, st) ==
    Answer(readFunc(o, st, ResourceList(o), None), Shown(o, st))

\* r has the answers for the instances: the first that fails counts.
ReadInstances(r) ==
    LET failed == {i \in DOMAIN r : r[i].code # "2.05"}
    IN  Answer(IF failed = {} THEN "2.05" ELSE r[Min(failed)].code,
               [i \in DOMAIN r |-> r[i].data])

ReadResource(st, u, code) ==
    Answer(code, IF code # "2.05" THEN None
                 ELSE IF Len(u) = 3 THEN st[u[3]] ELSE st[u[3]][u[4]])

object_readData(c, u) ==
    IF u[1] \notin ObjectIds THEN Answer("4.04", None)
    ELSE IF Len(u) = 1
    THEN ReadInstances([i \in DOMAIN c.store[u[1]] |-> ReadInstance(u[1], c.store[u[1]][i])])
    ELSE IF ~HasInstance(c, u) THEN Answer("4.04", None)
    ELSE IF Len(u) = 2 THEN ReadInstance(u[1], Instance(c, u))
    ELSE ReadResource(Instance(c, u), u, readFunc(u[1], Instance(c, u), {u[3]}, Ri(u)))

\* The resources a discover of u lists: their IDs with those of the instance.
object_discover(c, u) ==
    LET o     == u[1]
        whole == IF o = Device THEN prv_device_discover ELSE test_discover
        known == IF o = Device THEN prv_device_discover ELSE test_known
        Links(i) == {<<o, i, r>> : r \in whole}
    IN  CASE o \notin ObjectIds -> [code |-> "4.04", links |-> {}]
          [] o \in ObjectIds \ Discovers -> [code |-> "5.01", links |-> {}]
          [] o \in Discovers /\ Len(u) = 1 ->
               [code |-> "2.05", links |-> UNION {Links(i) : i \in DOMAIN c.store[o]}]
          [] o \in Discovers /\ Len(u) > 1 /\ ~HasInstance(c, u) ->
               [code |-> "4.04", links |-> {}]
          [] OTHER ->
               IF Len(u) = 2 THEN [code |-> "2.05", links |-> Links(u[2])]
               ELSE IF u[3] \in known THEN [code |-> "2.05", links |-> {SubSeq(u, 1, 3)}]
               ELSE [code |-> "4.04", links |-> {}]

-----------------------------------------------------------------------------
(* Writing.  The result has the code and the context.                       *)

Changed(c, o, i, st) == [c EXCEPT !.store[o] = Over(Only(i, st), @)]

Removed(c, o, i) == [c EXCEPT !.store[o] = Restrict(@, DOMAIN @ \ {i})]

\* createFunc: the instance is removed again when its payload is refused.
createFunc(c, o, i, items) ==
    LET r == write_resources(o, NewInstance(o), items, TRUE, FALSE)
    IN  IF r.code = "2.04" THEN [code |-> "2.01", ctx |-> Changed(c, o, i, r.st)]
        ELSE [code |-> r.code, ctx |-> Removed(c, o, i)]

\* LWM2M_WRITE_REPLACE_INSTANCE removes the instance and creates it anew, the
\* other types write resources; single-instance objects make no difference.
writeFunc(c, o, i, items, type) ==
    IF i \notin DOMAIN c.store[o] THEN [code |-> "4.04", ctx |-> c]
    ELSE IF type = "replaceInstance" /\ o \in Creates
    THEN LET r == createFunc(Removed(c, o, i), o, i, items)
         IN  [r EXCEPT !.code = IF @ = "2.01" THEN "2.04" ELSE @]
    ELSE LET r == write_resources(o, c.store[o][i], items, FALSE, type = "partial")
         IN  [code |-> r.code, ctx |-> Changed(c, o, i, r.st)]

\* A payload that cannot be parsed is empty here.
object_write(c, u, items, partial) ==
    LET type == IF partial \/ Len(u) = 4 THEN "partial"
                ELSE IF Len(u) = 3 THEN "replaceResources" ELSE "replaceInstance"
        sent == IF Len(u) = 4
                THEN <<[id |-> u[3], multi |-> TRUE, val |-> Only(u[4], items[1].val)]>> ELSE items
        Error(code) == [code |-> code, ctx |-> c]
    IN  CASE Len(u) < 2 -> Error("4.00")
          [] Len(u) >= 2 /\ u[1] \notin ObjectIds -> Error("4.04")
          [] Len(u) >= 2 /\ u[1] \in ObjectIds \ Writes -> Error("4.05")
          [] OTHER -> IF items = <<>> THEN Error("4.06") ELSE writeFunc(c, u[1], u[2], sent, type)

object_execute(c, u, args) ==
    LET Error(code) == [code |-> code, ctx |-> c]
    IN  IF u[1] \notin ObjectIds THEN Error("4.04")
        ELSE IF u[1] \notin Executes THEN Error("4.05")
        ELSE IF ~HasInstance(c, u) THEN Error("4.04")
        ELSE LET r == executeFunc(u[1], Instance(c, u), u[3], args)
             IN  [code |-> r.code, ctx |-> Changed(c, u[1], u[2], r.st)]

lwm2m_list_newId(S) == CHOOSE k \in 0 .. Cardinality(S) : k \notin S /\ 0 .. k - 1 \subseteq S

\* id is the instance the payload names, None, or Bad: an object, or more than one
\* instance.
object_create(c, u, id, items) ==
    LET o == u[1]
        Error(code) == [code |-> code, ctx |-> c]
    IN  IF items = <<>> THEN Error("4.00")
        ELSE IF o \notin ObjectIds THEN Error("4.04")
        ELSE IF o \notin Creates THEN Error("4.05")
        ELSE IF id = Bad THEN Error("4.00")
        ELSE IF id # None /\ id \in DOMAIN c.store[o] THEN Error("4.06")
        ELSE createFunc(c, o, IF id = None THEN lwm2m_list_newId(DOMAIN c.store[o]) ELSE id, items)
=============================================================================

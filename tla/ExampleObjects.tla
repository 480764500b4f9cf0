--------------------------- MODULE ExampleObjects ---------------------------
(***************************************************************************)
(* The objects of examples/client/common beside Security and Server (see   *)
(* module Accounts): their callbacks, as tables and functions of the state *)
(* of one instance, a function from the IDs of its readable resources to   *)
(* values; a multiple resource is a function from the IDs of its instances.*)
(*                                                                         *)
(* Values are small numbers, strings too.  An item of a payload has the    *)
(* resource ID, whether it is a multiple resource, and the value: a number,*)
(* Bad (it cannot be decoded) or Out (it is out of range).  For the float  *)
(* of the test object Bad is a text strtod finds no number in, Out what is *)
(* refused before: an exponent, an opaque value of another length.         *)
(***************************************************************************)
EXTENDS Integers, FiniteSets, FiniteSetsExt, SequencesExt, Functions

CONSTANTS Bad, Out,
          None           \* no resource, or no resource instance, in a URI

\* IDs are numbers.
ASSUME NoneAssumption == None \notin Nat

AccessControl == 2
Device        == 3
ConnMonitor   == 4
Firmware      == 5
Location      == 6
ConnStat      == 7
Test          == 31024

ObjectIds == {AccessControl, Device, ConnMonitor, Firmware, Location, ConnStat, Test}

\* f where it is defined, g elsewhere; and a function of one argument.
Over(f, g) == [x \in DOMAIN f \cup DOMAIN g |-> IF x \in DOMAIN f THEN f[x] ELSE g[x]]
Only(x, v) == [y \in {x} |-> v]

Set(st, r, v) == [code |-> "2.04", st |-> [st EXCEPT ![r] = v]]
Refuse(st, code) == [code |-> code, st |-> st]

\* The answer for a resource that is not multiple, and for one that is.
Single(ri) == IF ri = None THEN "2.05" ELSE "4.04"
Multiple(st, r, ri) == IF ri = None \/ ri \in DOMAIN st[r] THEN "2.05" ELSE "4.04"

-----------------------------------------------------------------------------
(* Device: battery is 9, the error codes 11, free memory 10, time 13 and    *)
(* offset 14; 4, 5 and 12 are executed.                                     *)

get_object_device ==
    [r \in (0 .. 16) \ {4, 5, 12} |->
        CASE r \in {6, 7, 8} -> [k \in {0, 1} |-> 0]
          [] r = 11          -> [k \in {0} |-> 0]
          [] OTHER           -> 0]

device_set_value(st, r, ri) ==
    CASE r \in {6, 7, 8, 11} -> Multiple(st, r, ri)
      [] r \in {4, 5, 12}    -> "4.05"
      [] r \in 0 .. 16 \ {4, 5, 6, 7, 8, 11, 12} -> Single(ri)
      [] OTHER               -> "4.04"

prv_device_read == (0 .. 16) \ {4, 5, 12}

prv_device_discover == 0 .. 16

\* prv_check_time_offset decides which offsets are Bad.
prv_device_write(st, it) ==
    CASE it.multi          -> Refuse(st, "4.04")
      [] ~it.multi /\ it.id \in {13, 14} ->
           IF it.val = Bad THEN Refuse(st, "4.00") ELSE Set(st, it.id, it.val)
      [] ~it.multi /\ it.id = 15 -> Refuse(st, "5.01")
      [] OTHER             -> Refuse(st, "4.05")

prv_device_execute(st, r, args) ==
    CASE args              -> Refuse(st, "4.00")
      [] ~args /\ r \in {4, 5} -> [code |-> "2.04", st |-> st]
      [] ~args /\ r = 12   -> Set(st, 11, [k \in {0} |-> 0])
      [] OTHER             -> Refuse(st, "4.05")

\* The application changes the battery level (0 to 100), the error, the memory.
device_change(st, r, v) ==
    CASE r = 9  -> IF v \in {Bad, Out} THEN Refuse(st, "4.00") ELSE Set(st, 9, v)
      [] r = 10 -> IF v = Bad THEN Refuse(st, "4.00") ELSE Set(st, 10, v)
      [] r = 11 -> IF v = Bad THEN Refuse(st, "4.00") ELSE Set(st, 11, [k \in {0} |-> v])
      [] OTHER  -> Refuse(st, "4.05")

-----------------------------------------------------------------------------
(* Firmware update: the state is resource 3, the protocols 8.               *)

get_object_firmware ==
    [r \in {3, 5, 6, 7, 8, 9} |->
        CASE r = 3 -> 1 [] r = 8 -> [k \in {0, 1} |-> k] [] OTHER -> 0]

prv_firmware_read == {3, 5, 6, 7, 8, 9}

firmware_set_value(st, r, ri) ==
    CASE r \in {0, 1, 2}       -> "4.05"
      [] r = 8                 -> Multiple(st, r, ri)
      [] r \in {3, 5, 6, 7, 9} -> Single(ri)
      [] OTHER                 -> "4.04"

prv_firmware_write(st, it) ==
    CASE it.multi -> Refuse(st, "4.04")
      [] ~it.multi /\ it.id \in {0, 1} -> [code |-> "2.04", st |-> st]
      [] OTHER    -> Refuse(st, "4.05")

\* An update that runs is not started again.
prv_firmware_execute(st, r, args) ==
    CASE args \/ (r = 2 /\ st[3] # 1) -> Refuse(st, "4.00")
      [] ~args /\ r = 2 /\ st[3] = 1  -> Set(st, 3, 2)
      [] OTHER -> Refuse(st, "4.05")

-----------------------------------------------------------------------------
(* Location and connectivity monitoring are read only.                      *)

get_object_location == [r \in 0 .. 6 |-> 0]

prv_location_read == 0 .. 6

location_res2tlv(r, ri) == IF r \in 0 .. 6 THEN Single(ri) ELSE "4.04"

get_object_conn_m ==
    [r \in 0 .. 10 |-> IF r \in {1, 4, 5, 7} THEN [k \in {0} |-> 0] ELSE 0]

conn_m_read == 0 .. 10

conn_m_set_value(st, r, ri) ==
    CASE r \in {1, 4, 5, 7} -> Multiple(st, r, ri)
      [] r \in 0 .. 10 \ {1, 4, 5, 7} -> Single(ri)
      [] OTHER -> "4.04"

-----------------------------------------------------------------------------
(* Connectivity statistics; the flag collectDataStarted is kept at 6, the   *)
(* resource that starts the collection.  The data counters are in KiB.      *)

get_object_conn_s == [r \in 0 .. 6 |-> 0]

conn_s_read == 0 .. 5

conn_s_set_tlv(r, ri) == IF r \in 0 .. 5 THEN Single(ri) ELSE "4.04"

conn_s_exec(st, r, args) ==
    CASE args     -> Refuse(st, "4.00")
      [] ~args /\ r = 6 ->
           [code |-> "2.04", st |-> [k \in DOMAIN st |-> IF k = 6 THEN 1 ELSE 0]]
      [] OTHER    -> Refuse(st, "4.05")

-----------------------------------------------------------------------------
(* Access control: object and instance are set when an instance is created, *)
(* the rights (2) by server.                                                *)

acc_ctrl_new == [r \in 0 .. 3 |-> IF r = 2 THEN <<>> ELSE 0]

acc_ctrl_read == 0 .. 3

acc_ctrl_set_tlv(st, r, ri) ==
    CASE r = 2 -> IF DOMAIN st[2] = {} THEN "4.04" ELSE Multiple(st, r, ri)
      [] r \in {0, 1, 3} -> Single(ri)
      [] OTHER -> "4.04"

\* The code for a value, in the order of the checks.
AclCode(v) == CASE v = Bad -> "4.00" [] v = Out -> "4.06" [] OTHER -> "2.04"

\* Mutant: the saved list is not put back.
M_acc_ctrl_write_acl(st, subs, partial) ==
    LET wrong == {k \in DOMAIN subs : AclCode(subs[k]) # "2.04"}
        good  == Restrict(subs, DOMAIN subs \ wrong)
    IN  IF wrong = {} THEN Set(st, 2, subs)
        ELSE [code |-> AclCode(subs[Min(wrong)]), st |-> [st EXCEPT ![2] = good]]

\* The loop over the rights ends at the first value that is refused; then the
\* saved list takes the place of the new one.
acc_ctrl_write_acl(st, subs, partial) ==
    LET wrong == {k \in DOMAIN subs : AclCode(subs[k]) # "2.04"}
        old   == IF partial /\ DOMAIN subs # {} THEN st[2] ELSE <<>>
    IN  IF wrong = {} THEN Set(st, 2, Over(subs, old))
        ELSE Refuse(st, AclCode(subs[Min(wrong)]))

acc_ctrl_write(st, it, create, partial) ==
    CASE it.id \in {0, 1} /\ ~create -> Refuse(st, "4.05")
      [] it.id = 2 -> IF it.multi THEN acc_ctrl_write_acl(st, it.val, partial)
                      ELSE Refuse(st, "4.00")
      [] (it.id \in {0, 1} /\ create) \/ it.id = 3 ->
           IF it.multi THEN Refuse(st, "4.04")
           ELSE IF AclCode(it.val) = "2.04" THEN Set(st, it.id, it.val)
           ELSE Refuse(st, AclCode(it.val))
      [] OTHER -> Refuse(st, "4.04")

-----------------------------------------------------------------------------
(* Test *)

test_new == [r \in {1, 3, 5} |-> 0]

test_read == {1, 3, 5}

test_set_value(r, ri) ==
    CASE ri # None -> "4.04"
      [] ri = None /\ r \in {1, 3, 5} -> "2.05"
      [] ri = None /\ r = 2 -> "4.05"
      [] OTHER -> "4.04"

\* Four resources are filled in and three announced.
test_discover == {1, 2, 3}
test_known    == {1, 2, 3, 5}

\* utils_textToFloat stores what strtod returns before it looks whether there was
\* a number.
FloatLost(st) == [st EXCEPT ![3] = 0]

test_write(st, it) ==
    CASE it.multi -> Refuse(st, "4.04")
      [] ~it.multi /\ it.id = 2 -> Refuse(st, "4.05")
      [] ~it.multi /\ it.id \in {1, 3, 5} ->
           IF it.id = 3 /\ it.val = Bad THEN [code |-> "4.00", st |-> FloatLost(st)]
           ELSE IF it.val = Bad \/ (it.id # 5 /\ it.val = Out) THEN Refuse(st, "4.00")
           ELSE Set(st, it.id, it.val)
      [] OTHER -> Refuse(st, "4.04")

test_exec(st, r) ==
    CASE r = 2 -> [code |-> "2.04", st |-> st]
      [] r \in {1, 3, 5} -> Refuse(st, "4.05")
      [] OTHER -> Refuse(st, "4.04")

-----------------------------------------------------------------------------
(* Which callbacks there are, and the callback of an object.                *)

Writes    == {Device, Firmware, AccessControl, Test}
Executes  == {Device, Firmware, ConnStat, Test}
Creates   == {AccessControl, Test}
Discovers == {Device, Test}

\* Resources read when a server asks for a whole instance.
ResourceList(o) ==
    CASE o = AccessControl -> acc_ctrl_read
      [] o = Device        -> prv_device_read
      [] o = ConnMonitor   -> conn_m_read
      [] o = Firmware      -> prv_firmware_read
      [] o = Location      -> prv_location_read
      [] o = ConnStat      -> conn_s_read
      [] o = Test          -> test_read

set_value(o, st, r, ri) ==
    CASE o = AccessControl -> acc_ctrl_set_tlv(st, r, ri)
      [] o = Device        -> device_set_value(st, r, ri)
      [] o = ConnMonitor   -> conn_m_set_value(st, r, ri)
      [] o = Firmware      -> firmware_set_value(st, r, ri)
      [] o = Location      -> location_res2tlv(r, ri)
      [] o = ConnStat      -> conn_s_set_tlv(r, ri)
      [] o = Test          -> test_set_value(r, ri)

\* The code of a read of resources rs; access control leaves out what it has not
\* when it is asked for more than one.
readFunc(o, st, rs, ri) ==
    LET codes == {set_value(o, st, r, ri) : r \in rs}
        kept  == IF o = AccessControl /\ Cardinality(rs) > 1 THEN codes \ {"4.04"} ELSE codes
    IN  IF kept \subseteq {"2.05"} THEN "2.05"
        ELSE set_value(o, st, Min({r \in rs : set_value(o, st, r, ri) # "2.05"}), ri)

write_item(o, st, it, create, partial) ==
    CASE o = AccessControl -> acc_ctrl_write(st, it, create, partial)
      [] o = Device        -> prv_device_write(st, it)
      [] o = Firmware      -> prv_firmware_write(st, it)
      [] o = Test          -> test_write(st, it)

\* The next item after result r: nothing is written once one has been refused.
WriteNext(o, r, it, create, partial) ==
    IF r.code # "2.04" THEN r ELSE write_item(o, r.st, it, create, partial)

\* The items of a payload in turn; after[n] is the result of the first n.
write_resources(o, st, items, create, partial) ==
    LET after[n \in 0 .. Len(items)] ==
          IF n = 0 THEN [code |-> "2.04", st |-> st]
          ELSE WriteNext(o, after[n - 1], items[n], create, partial)
    IN  after[Len(items)]

executeFunc(o, st, r, args) ==
    CASE o = Device   -> prv_device_execute(st, r, args)
      [] o = Firmware -> prv_firmware_execute(st, r, args)
      [] o = ConnStat -> conn_s_exec(st, r, args)
      [] o = Test     -> test_exec(st, r)

NewInstance(o) == IF o = AccessControl THEN acc_ctrl_new ELSE test_new

Multiples(o) ==
    CASE o = AccessControl -> {2}
      [] o = Device        -> {6, 7, 8, 11}
      [] o = ConnMonitor   -> {1, 4, 5, 7}
      [] o = Firmware      -> {8}
      [] OTHER             -> {}

\* Resources that are integers or floats.
Numeric(o, r) ==
    CASE o = Device      -> r \in 6 .. 13
      [] o = Firmware    -> r \in {3, 5, 8, 9}
      [] o = Location    -> r # 4
      [] o = ConnMonitor -> r \notin {4, 5, 7}
      [] o = Test        -> r \in {1, 3}
      [] OTHER           -> TRUE

\* The objects as the client registers them.
InitialStore ==
    [o \in ObjectIds |->
        CASE o = AccessControl ->
               Only(0, [acc_ctrl_new EXCEPT ![0] = 3, ![2] = [k \in {0, 999} |-> 1]])
          [] o = Device        -> Only(0, get_object_device)
          [] o = ConnMonitor   -> Only(0, get_object_conn_m)
          [] o = Firmware      -> Only(0, get_object_firmware)
          [] o = Location      -> Only(0, get_object_location)
          [] o = ConnStat      -> Only(0, get_object_conn_s)
          [] o = Test          -> [i \in {10, 11, 12} |-> test_new]]
=============================================================================

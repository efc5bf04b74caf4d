------------------------------ MODULE Objects ------------------------------
(***************************************************************************)
(* The objects of the client and the callbacks the core calls on them:     *)
(* readFunc, discoverFunc, writeFunc, executeFunc, createFunc, deleteFunc. *)
(* Each object is a list of instances, here a function from instance id to *)
(* the instance, and an instance is a function from the resources it has   *)
(* to their values: an optional resource of the Server object is in its    *)
(* domain when it is not negative. Callbacks that change an instance take  *)
(* it and return it with the answer.                                       *)
(*                                                                         *)
(* A lwm2m_data_t is [id, multi, val, sub]: a resource with one value      *)
(* (Junk when it does not decode to the type the resource has), or, when   *)
(* multi holds, with the instances sub, a sequence of [id, val].           *)
(***************************************************************************)
EXTENDS Integers, Sequences, FiniteSets, SequencesExt

CONSTANTS
  MaxUint8, MaxUint16, MaxUint32, MaxInt,   \* the largest values of the C types
  Junk                                      \* a value that does not decode

ASSUME WidthsAssumption ==
  /\ {MaxUint8, MaxUint16, MaxInt, MaxUint32} \subseteq Nat
  /\ 0 < MaxUint8 /\ MaxUint8 < MaxUint16 /\ MaxUint16 < MaxInt /\ MaxInt < MaxUint32

Server == 1
Acl == 2
Device == 3
ConnMonitor == 4
Firmware == 5
Location == 6
ConnStat == 7
Test == 1024
ObjectIds == {Server, Acl, Device, ConnMonitor, Firmware, Location, ConnStat, Test}

Whole == -1      \* no resource or resource instance given

Put(v, r, x) == [k \in DOMAIN v \cup {r} |-> IF k = r THEN x ELSE v[k]]
Without(f, k) == [x \in DOMAIN f \ {k} |-> f[x]]
Accepted(v) == [code |-> "2.04", inst |-> v]
Refused(v, code) == [code |-> code, inst |-> v]

\* A number is stored when it decodes and is in range.
SetInt(v, d, range, otherwise) ==
  IF d.val = Junk THEN Refused(v, "4.00")
  ELSE IF d.val \notin range THEN Refused(v, otherwise)
  ELSE Accepted(Put(v, d.id, d.val))

----------------------------------------------------------------------------
(***************************************************************************)
(* Server: the optional resources are 13 to 20. binding is a char[4] a     *)
(* write copies into without ending the string.                            *)
(***************************************************************************)
ServerInts == {1, 2, 3, 5}
ServerOptionalFlags == {15, 16}
ServerOptionalInts == {13, 14, 17, 18, 19, 20}
ServerOptional == ServerOptionalInts \cup ServerOptionalFlags
ServerMandatory == ServerInts \cup {0, 6, 7}

strncpy(old, new) == new \o SubSeq(old, Len(new) + 1, Len(old))

prv_get_value(v) == [single |-> ServerMandatory \cup (ServerOptional \cap DOMAIN v),
                     multi |-> <<>>, exec |-> {4, 8}]

prv_server_read(v) == ServerMandatory \cup (ServerOptional \cap DOMAIN v)

\* A fault: an optional resource that is not there is listed.
prv_server_discover_all(v) == ServerMandatory \cup {4, 8, 20} \cup (ServerOptional \cap DOMAIN v)

prv_server_discover(v) == ServerMandatory \cup {4, 8} \cup (ServerOptional \cap DOMAIN v)

\* Asked for one resource: found unless it is optional and not there.
ServerDiscoverOne(v, r) == r \in ServerMandatory \cup {4, 8} \/ (r \in ServerOptional /\ r \in DOMAIN v)

prv_set_int_value(v, d) == SetInt(v, d, 0..MaxUint32, "4.06")

WriteOptional(v, d) ==
  IF d.id \in ServerOptionalFlags THEN SetInt(v, d, 0..1, "4.00")
  ELSE SetInt(v, d, 0..MaxInt, "4.06")

prv_server_write(v, d) ==
  CASE d.multi -> Refused(v, "4.04")
    [] ~d.multi /\ d.id = 0 -> SetInt(v, d, 1..MaxUint16, "4.06")
    [] ~d.multi /\ d.id \in ServerInts -> prv_set_int_value(v, d)
    [] ~d.multi /\ d.id \in {4, 8} -> Refused(v, "4.05")
    [] ~d.multi /\ d.id = 6 -> SetInt(v, d, 0..1, "4.00")
    [] ~d.multi /\ d.id = 7 -> IF d.val = Junk \/ Len(d.val) \notin 1..3 THEN Refused(v, "4.00")
                               ELSE Accepted(Put(v, 7, strncpy(v[7], d.val)))
    [] ~d.multi /\ d.id \in ServerOptional -> WriteOptional(v, d)
    [] OTHER -> Refused(v, "4.04")

prv_server_execute(v, r) ==
  IF r = 8 \/ (r = 4 /\ v[5] > 0) THEN Accepted(v) ELSE Refused(v, "4.05")

NewServer == [r \in ServerMandatory |-> IF r = 7 THEN <<>> ELSE 0]
----------------------------------------------------------------------------
(***************************************************************************)
(* Access control: 0 and 1 (what it controls) are only set when the        *)
(* instance is created; 2 is the list of entries [id, val] in the order of *)
(* the linked one, 3 the owner. A list is built beside the old one, which  *)
(* a refused write restores; ids that come twice stay in it twice, and a   *)
(* copy has such entries in the reverse order.                             *)
(***************************************************************************)
\* The entry the code finds of a resource instance: the first one with its id.
FirstEntry(list, id) == Min({k \in DOMAIN list : list[k].id = id})
ReadEntry(list, id) == list[FirstEntry(list, id)].val
EntryIds(list) == {list[k].id : k \in DOMAIN list}

AclShape(v) == [single |-> {0, 1, 3},
                multi |-> [r \in IF v[2] = <<>> THEN {} ELSE {2} |-> EntryIds(v[2])],
                exec |-> {}]

AclWhole(v) == {0, 1, 3} \cup (IF v[2] = <<>> THEN {} ELSE {2})

\* In front of the first larger id; in front of an equal one too, unless that is the head.
lwm2m_list_add(list, entry) ==
  InsertAt(list, Min({Len(list) + 1} \cup
                     {k \in DOMAIN list : list[k].id > entry.id \/ (k > 1 /\ list[k].id = entry.id)}),
           entry)

prv_add_ac_val(list, d) == lwm2m_list_add(list, [id |-> d.id, val |-> d.val])

\* A fault: an entry that exists is not looked for, but added once more.
ReplaceOrAdd_add(list, d) == prv_add_ac_val(list, d)

ReplaceOrAdd(list, d) ==
  IF d.id \in EntryIds(list) THEN [list EXCEPT ![FirstEntry(list, d.id)] = [id |-> d.id, val |-> d.val]]
  ELSE prv_add_ac_val(list, d)

AclBadCode(sub) ==   \* the first entry that does not decode or is too large decides
  LET bad == {k \in DOMAIN sub : sub[k].val = Junk \/ sub[k].val \notin 0..MaxUint16}
  IN  IF bad = {} THEN "2.04" ELSE IF sub[Min(bad)].val = Junk THEN "4.00" ELSE "4.06"

AddAll(list, sub, replace) ==
  LET added[k \in 0..Len(sub)] ==
        IF k = 0 THEN list
        ELSE IF replace THEN ReplaceOrAdd(added[k - 1], sub[k]) ELSE prv_add_ac_val(added[k - 1], sub[k])
  IN  added[Len(sub)]

AclList(v, d, partial) ==
  LET copy == IF partial /\ d.sub # <<>> THEN AddAll(<<>>, v[2], FALSE) ELSE <<>>
  IN  IF AclBadCode(d.sub) # "2.04" THEN Refused(v, AclBadCode(d.sub))
      ELSE Accepted(Put(v, 2, AddAll(copy, d.sub, partial)))

prv_write_resources(v, d, doCreate, partial) ==
  CASE d.id \in {0, 1} /\ ~doCreate -> Refused(v, "4.05")
    [] d.id \in {0, 1} /\ doCreate ->
         IF d.multi THEN Refused(v, "4.04")
         ELSE SetInt(v, d, IF d.id = 0 THEN 1..(MaxUint16 - 1) ELSE 0..MaxUint16, "4.06")
    [] d.id = 2 -> IF d.multi THEN AclList(v, d, partial) ELSE Refused(v, "4.00")
    [] d.id = 3 -> IF d.multi THEN Refused(v, "4.04") ELSE SetInt(v, d, 0..MaxUint16, "4.06")
    [] OTHER -> Refused(v, "4.04")

NewAcl == [r \in 0..3 |-> IF r = 2 THEN <<>> ELSE 0]
----------------------------------------------------------------------------
(***************************************************************************)
(* Device, firmware update and the two read-only objects. An instance      *)
(* keeps the values that a request or the application can change: of the   *)
(* device 9, 10, 11 (battery, memory, error), 13 (time) and 14 (offset);   *)
(* of the firmware 3 (its state).                                          *)
(***************************************************************************)
\* Power sources, voltage and current, of two each.
DevicePower == [r \in {6, 7, 8} |-> {0, 1}]

prv_set_value(v) == [single |-> {0, 1, 2, 3, 9, 10, 13, 14, 15, 16},
                     multi |-> [r \in DOMAIN DevicePower \cup {11} |-> IF r = 11 THEN {0} ELSE DevicePower[r]],
                     exec |-> {4, 5, 12}]

prv_device_read(v) == (0..16) \ {4, 5, 12}

prv_device_discover(v) == 0..16

DeviceDiscoverOne(r) == r \in 0..16

prv_device_write(v, d) ==
  CASE d.multi -> Refused(v, "4.04")
    [] ~d.multi /\ d.id \in {13, 14} -> SetInt(v, d, Nat, "4.00")
    [] ~d.multi /\ d.id = 15 -> Refused(v, "5.01")
    [] OTHER -> Refused(v, "4.05")

prv_device_execute(v, r, payload) ==
  CASE payload -> Refused(v, "4.00")
    [] ~payload /\ r \in {4, 5} -> Accepted(v)
    [] ~payload /\ r = 12 -> Accepted([v EXCEPT ![11] = 0])
    [] OTHER -> Refused(v, "4.05")

\* What the application itself may set, when the device's write refuses it.
device_change(v, d) ==
  CASE d.id = 9 -> SetInt(v, d, 0..100, "4.00")
    [] d.id \in {10, 11} -> SetInt(v, d, Int, "4.00")
    [] OTHER -> Refused(v, "4.05")

prv_firmware_read(v) == [single |-> {3, 5, 6, 7, 9}, multi |-> [r \in {8} |-> {0}], exec |-> {0, 1, 2}]

FirmwareWhole == {3, 5, 6, 7, 8, 9}

\* The package and its address are taken and dropped: nothing is stored.
prv_firmware_write(v, d) ==
  IF d.multi THEN Refused(v, "4.04")
  ELSE IF d.id \in {0, 1} THEN Accepted(v) ELSE Refused(v, "4.05")

prv_firmware_execute(v, r, payload) ==
  CASE payload -> Refused(v, "4.00")
    [] ~payload /\ r = 2 -> IF v[3] = 1 THEN Accepted([v EXCEPT ![3] = 2]) ELSE Refused(v, "4.00")
    [] OTHER -> Refused(v, "4.05")

ConnMonitorShape == [single |-> {0, 2, 3, 6, 8, 9, 10}, multi |-> [r \in {1, 4, 5, 7} |-> {0}],
                     exec |-> {}]
ConnMonitorWhole == 0..10
prv_res2tlv == [single |-> 0..6, multi |-> <<>>, exec |-> {}]
prv_location_read == 0..6
ConnStatShape == [single |-> 0..5, multi |-> <<>>, exec |-> {}]
ConnStatWhole == 0..5
ConnStatExec(v, r, payload) ==
  IF payload THEN Refused(v, "4.00") ELSE IF r = 6 THEN Accepted(v) ELSE Refused(v, "4.05")
----------------------------------------------------------------------------
(***************************************************************************)
(* Test, 1024: 1 is a byte, 2 executable, 3 a float, 5 a string. Its       *)
(* discovery fills in four resources and reports three.                    *)
(***************************************************************************)
TestShape == [single |-> {1, 3, 5}, multi |-> <<>>, exec |-> {2}]
TestWhole == {1, 3, 5}
TestDiscover == {1, 2, 3}
TestDiscoverOne(r) == r \in {1, 2, 3, 5}

TestWrite(v, d) ==
  CASE d.multi -> Refused(v, "4.04")
    [] ~d.multi /\ d.id = 1 -> SetInt(v, d, 0..MaxUint8, "4.00")
    [] ~d.multi /\ d.id = 2 -> Refused(v, "4.05")
    [] ~d.multi /\ d.id \in {3, 5} -> SetInt(v, d, Nat, "4.00")
    [] OTHER -> Refused(v, "4.04")

TestExec(v, r) ==
  CASE r = 2 -> Accepted(v)
    [] r \in {1, 3, 5} -> Refused(v, "4.05")
    [] OTHER -> Refused(v, "4.04")

NewTest == [r \in {1, 3, 5} |-> 0]
----------------------------------------------------------------------------
(***************************************************************************)
(* The callbacks by object, as the constructors set them.                  *)
(***************************************************************************)
Writable == {Server, Acl, Device, Firmware, Test}
Executable == {Server, Device, Firmware, ConnStat, Test}
Creatable == {Server, Acl, Test}
Discoverable == {Server, Device, Test}

Shape(o, v) ==
  CASE o = Server -> prv_get_value(v)
    [] o = Acl -> AclShape(v)
    [] o = Device -> prv_set_value(v)
    [] o = ConnMonitor -> ConnMonitorShape
    [] o = Firmware -> prv_firmware_read(v)
    [] o = Location -> prv_res2tlv
    [] o = ConnStat -> ConnStatShape
    [] o = Test -> TestShape

\* The resources of a whole instance, as readFunc fills them in when asked for none.
WholeInstance(o, v) ==
  CASE o = Server -> prv_server_read(v)
    [] o = Acl -> AclWhole(v)
    [] o = Device -> prv_device_read(v)
    [] o = ConnMonitor -> ConnMonitorWhole
    [] o = Firmware -> FirmwareWhole
    [] o = Location -> prv_location_read
    [] o = ConnStat -> ConnStatWhole
    [] o = Test -> TestWhole

Discovered(o, v) ==
  CASE o = Server -> prv_server_discover(v)
    [] o = Device -> prv_device_discover(v)
    [] o = Test -> TestDiscover

\* The answer to one resource asked for, ri being Whole when all its instances are.
ReadOne(o, v, r, ri) ==
  LET Code(s) ==
        IF \/ r \in s.single /\ ri = Whole
           \/ r \in DOMAIN s.multi /\ (ri = Whole \/ ri \in s.multi[r])
        THEN "2.05"
        ELSE IF r \in s.exec /\ (ri = Whole \/ o \notin {Server, Test}) THEN "4.05"
        ELSE "4.04"
  IN  Code(Shape(o, v))

readFunc(o, v, r, ri) ==
  IF r # Whole THEN ReadOne(o, v, r, ri)
  ELSE IF \A k \in WholeInstance(o, v) : ReadOne(o, v, k, Whole) = "2.05" THEN "2.05"
  ELSE "4.04"

discoverFunc(o, v, r) ==
  LET found == CASE o = Server -> ServerDiscoverOne(v, r)
                 [] o = Device -> DeviceDiscoverOne(r)
                 [] o = Test -> TestDiscoverOne(r)
  IN  IF r = Whole \/ found THEN "2.05" ELSE "4.04"

Fresh(o) == CASE o = Server -> NewServer [] o = Acl -> NewAcl [] o = Test -> NewTest

\* One resource written to an instance, which is new when creating holds.
WriteResource(o, v, d, creating, partial) ==
  CASE o = Server -> prv_server_write(v, d)
    [] o = Acl -> prv_write_resources(v, d, creating, partial)
    [] o = Device -> prv_device_write(v, d)
    [] o = Firmware -> prv_firmware_write(v, d)
    [] o = Test -> TestWrite(v, d)

\* A write goes through its resources until one is refused.
WriteInstance(o, v, data, creating, partial) ==
  LET after[k \in 0..Len(data)] ==
        IF k = 0 THEN Accepted(v)
        ELSE LET a == after[k - 1]
             IN  IF a.code = "2.04" THEN WriteResource(o, a.inst, data[k], creating, partial) ELSE a
  IN  after[Len(data)]

executeFunc(o, v, r, payload) ==
  CASE o = Server -> prv_server_execute(v, r)
    [] o = Device -> prv_device_execute(v, r, payload)
    [] o = Firmware -> prv_firmware_execute(v, r, payload)
    [] o = ConnStat -> ConnStatExec(v, r, payload)
    [] o = Test -> TestExec(v, r)

\* An instance is listed, written, and taken off again when the write is refused.
\* A fault: it stays listed.
createFunc_listed(o, list, i, data) ==
  LET Listed(w) ==
        [code |-> IF w.code = "2.04" THEN "2.01" ELSE w.code, list |-> Put(list, i, w.inst)]
  IN  Listed(WriteInstance(o, Fresh(o), data, TRUE, FALSE))

createFunc(o, list, i, data) ==
  LET Result(w) ==
        IF w.code = "2.04" THEN [code |-> "2.01", list |-> Put(list, i, w.inst)]
        ELSE [code |-> w.code, list |-> Without(list, i)]
  IN  Result(WriteInstance(o, Fresh(o), data, TRUE, FALSE))

deleteFunc(list, i) ==
  IF i \in DOMAIN list THEN [code |-> "2.02", list |-> Without(list, i)]
  ELSE [code |-> "4.04", list |-> list]

\* A whole instance is replaced by deleting it and creating it anew, except where
\* all write types are treated the same.
writeFunc(o, list, i, data, writeType) ==
  LET Replaced(a) == [a EXCEPT !.code = IF @ = "2.01" THEN "2.04" ELSE @]
      Written(w) == [code |-> w.code, list |-> [list EXCEPT ![i] = w.inst]]
  IN  IF i \notin DOMAIN list THEN [code |-> "4.04", list |-> list]
      ELSE IF writeType = "REPLACE_INSTANCE" /\ o \in Creatable
      THEN Replaced(createFunc(o, Without(list, i), i, data))
      ELSE Written(WriteInstance(o, list[i], data, FALSE, writeType = "PARTIAL_UPDATE"))
=============================================================================

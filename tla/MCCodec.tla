------------------------------- MODULE MCCodec -------------------------------
(* The instance TLC checks: lengths and numbers on both sides of every boundary of the formats. *)
EXTENDS Codec

MCHeaders == {<<0, 2, 0>>, <<2, 69, 65535>>}

MCNumbers == {0, 255, 256, 16777215}

MCLengths == {0, 8, 12, 13, 268, 269}

\* "/a/b", "c", "/", "?x&y"
MCStrings == {<<47, 97, 47, 98>>, <<99>>, <<47>>, <<63, 120, 38, 121>>}

MCBlocks == {<<0, FALSE, 16>>, <<1048575, TRUE, 2048>>, <<1, TRUE, 8>>}

Datum(id, type, value) == [id |-> id, type |-> type, value |-> value]

Values ==
  {<<"integer", v>> : v \in {-524288, -32769, -32768, -129, -128, -9, -8, -1, 0, 7, 8, 127, 128, 32767, 32768, 524287}}
    \cup {<<"unsigned", v>> : v \in {0, 7, 8, 15, 16, 255, 256, 65535, 65536, 1048575}}
    \cup {<<"string", [i \in 1..n |-> i % 16]>> : n \in {0, 1, 7, 8, 15, 16, 255, 256}}
    \cup {<<"boolean", TRUE>>, <<"boolean", FALSE>>, <<"link", <<16, 255>>>>}

Few == {<<"integer", -9>>, <<"string", [i \in 1..6 |-> 1]>>, <<"string", [i \in 1..13 |-> 1]>>, <<"unsigned", 256>>}

OpaqueBytes == UNION {[1..n -> {0, 3, 192, 255}] : n \in 0..4}

Leaves(values) == {Datum(id, v[1], v[2]) : id \in {0, 15, 16, 255}, v \in values}

Lists == {<<d>> : d \in Leaves(Few)} \cup {<<Datum(1, "integer", 1), d>> : d \in Leaves(Few)}

Nested ==
  {<<Datum(id, type, l)>> : id \in {1, 16}, type \in Containers, l \in Lists}
    \cup {<<Datum(0, "instance", <<Datum(id, "multiple", l), Datum(2, "boolean", TRUE)>>)>> : id \in {1, 16}, l \in Lists}
    \cup {<<Datum(0, "instance", l), Datum(1, "instance", l)>> : l \in Lists}
    \cup {<<Datum(0, "instance", <<>>)>>, <<Datum(2, "boolean", TRUE), Datum(1, "multiple", <<>>)>>}

MCDataSets ==
  {[uri |-> <<3, 0, d.id>>, data |-> <<d>>] : d \in Leaves(Values)}
    \cup {[uri |-> <<3, 0, 1>>, data |-> <<Datum(1, "opaque", b)>>] : b \in OpaqueBytes}
    \cup {[uri |-> <<3, 0, 1>>, data |-> l] : l \in {m \in Lists : Len(m) = 2}}
    \cup {[uri |-> <<3, 0, 1, 15>>, data |-> <<Datum(15, "string", <<1>>)>>]}
    \cup {[uri |-> <<3>>, data |-> n] : n \in Nested}

Object(id, version, instances) == [id |-> id, version |-> version, instances |-> instances]

MCObjects ==
  {<<Object(0, <<0, 0>>, <<0, 1>>), Object(1, v, i), Object(3, w, j)>> :
     v \in {<<0, 0>>, <<1, 1>>}, i \in {<<>>, <<0>>, <<0, 10>>}, w \in {<<0, 0>>, <<10, 0>>}, j \in {<<>>, <<65534>>}}

Client(name, msisdn, binding, lifetime, altPath, objects) ==
  [name |-> name, msisdn |-> msisdn, binding |-> binding, lifetime |-> lifetime, altPath |-> altPath, objects |-> objects]

ThreeObjects == <<Object(0, <<0, 0>>, <<0>>), Object(1, <<1, 1>>, <<0>>), Object(3, <<0, 0>>, <<0>>)>>

MCClients ==
  {Client(<<97>>, m, b, l, <<>>, ThreeObjects) : m \in {<<>>, <<49, 50>>}, b \in SUBSET {"U", "T", "S", "N"}, l \in {0, 300}}
    \cup {Client(<<97>>, <<>>, {"U"}, 300, <<>>, o) : o \in MCObjects}


MCUris == {<<>>, <<1>>, <<3, 0>>, <<3, 65534, 10>>, <<65534, 65534, 65534, 65534>>}

MCLocations == {0, 9, 10, 65534}
==============================================================================

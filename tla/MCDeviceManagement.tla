------------------------- MODULE MCDeviceManagement -------------------------
(* Instances of DeviceManagement for TLC: two servers, small value ranges. *)
EXTENDS DeviceManagement, TLC

D(id, val) == [id |-> id, multi |-> FALSE, val |-> val, sub |-> <<>>]
L(id, sub) == [id |-> id, multi |-> TRUE, val |-> Junk, sub |-> sub]
E(id, val) == [id |-> id, val |-> val]
Q(method, uri, format, wrap, data) ==
  [method |-> method, uri |-> uri, format |-> format, wrap |-> wrap, data |-> data]

TwoServers == {1, 2}
SecondServer == {2}
AccountOf(s) == [NewServer EXCEPT ![0] = s, ![1] = 1, ![7] = <<"U">>]
AllObjects ==
  [o \in ObjectIds |->
     CASE o = Server -> [i \in {0, 1} |-> AccountOf(i + 1)]
       [] o = Acl -> 0 :> [NewAcl EXCEPT ![0] = 1, ![2] = <<E(1, 1)>>]
       [] o = Device -> 0 :> [r \in {9, 10, 11, 13, 14} |-> 0]
       [] o = Firmware -> 0 :> (3 :> 1)
       [] o = Test -> 0 :> NewTest
       [] OTHER -> 0 :> <<>>]

ServerRequests ==
  { Q("PUT", <<1, 0, 1>>, "tlv", Whole, <<D(1, MaxUint32 + 1)>>),
    Q("POST", <<1, 0>>, "tlv", Whole, <<D(1, 1), D(0, 0)>>),
    Q("POST", <<1, 0>>, "tlv", Whole, <<D(1, 2), D(20, 1)>>),
    Q("PUT", <<1, 0, 0>>, "tlv", Whole, <<D(0, 3)>>),
    Q("PUT", <<1, 1, 0>>, "tlv", Whole, <<D(0, 1)>>),
    Q("PUT", <<1, 0, 0>>, "tlv", Whole, <<D(0, 1)>>),
    Q("PUT", <<1, 0>>, "tlv", Whole, <<D(0, 1), D(1, 3), D(7, <<"U", "Q">>)>>),
    Q("PUT", <<1, 0>>, "tlv", Whole, <<D(0, 1), D(4, 0)>>),
    Q("PUT", <<1, 0, 7>>, "tlv", Whole, <<D(7, <<"X">>)>>),
    Q("POST", <<1>>, "tlv", Whole, <<D(0, 3), D(7, <<"U">>)>>),
    Q("POST", <<1>>, "tlv", 0, <<D(0, 1), D(13, MaxInt)>>),
    Q("DELETE", <<1, 0>>, "none", Whole, <<>>),
    Q("POST", <<1, 0, 8>>, "none", Whole, <<>>),
    Q("POST", <<1, 0, 4>>, "none", Whole, <<>>) }

OtherRequests ==
  { Q("GET", <<0>>, "none", Whole, <<>>), Q("GET", <<2>>, "none", Whole, <<>>),
    Q("DISCOVER", <<5>>, "none", Whole, <<>>), Q("DISCOVER", <<3, 0>>, "none", Whole, <<>>),
    Q("POST", <<2, 0>>, "tlv", Whole, <<L(2, <<E(2, 1), E(3, MaxUint16 + 1)>>)>>),
    Q("PUT", <<2, 0, 2, 1>>, "tlv", Whole, <<D(1, 0)>>),
    Q("PUT", <<2, 0, 2>>, "tlv", Whole, <<L(2, <<>>)>>),
    Q("PUT", <<2, 0, 2>>, "tlv", Whole, <<L(2, <<E(1, 2), E(1, 3), E(2, 1), E(2, 2)>>)>>),
    Q("POST", <<2, 0>>, "tlv", Whole, <<L(2, <<E(2, 4), E(0, 3)>>)>>),
    Q("PUT", <<2, 0, 0>>, "tlv", Whole, <<D(0, 5)>>),
    Q("POST", <<2>>, "tlv", Whole, <<D(0, MaxUint16)>>),
    Q("PUT", <<3, 0, 14>>, "tlv", Whole, <<D(14, Junk)>>),
    Q("POST", <<3, 0, 4>>, "none", Whole, <<>>),
    Q("POST", <<5, 0, 2>>, "none", Whole, <<>>),
    Q("PUT", <<5, 0, 0>>, "tlv", Whole, <<D(0, 1)>>),
    Q("POST", <<7, 0, 6>>, "none", Whole, <<>>),
    Q("PUT", <<6, 0, 0>>, "tlv", Whole, <<D(0, 1)>>),
    Q("POST", <<1024>>, "tlv", Whole, <<D(1, MaxUint8)>>),
    Q("POST", <<1024>>, "tlv", Whole, <<D(3, 1), D(1, MaxUint8 + 1)>>),
    Q("POST", <<1024>>, "tlv", 0, <<D(1, 1)>>),
    Q("DELETE", <<1024, 1>>, "none", Whole, <<>>),
    Q("DELETE", <<1024>>, "none", Whole, <<>>),
    Q("POST", <<1024, 0, 2>>, "text", Whole, <<D(2, Junk)>>) }

AllRequests == ServerRequests \cup OtherRequests

LocalChanges == { [uri |-> <<3, 0>>, data |-> D(11, 1)], [uri |-> <<1, 1>>, data |-> D(1, 2)] }
=============================================================================

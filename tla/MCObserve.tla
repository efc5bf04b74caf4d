----------------------------- MODULE MCObserve -----------------------------
(* Instances of Observe for TLC: a numeric resource and an instance with   *)
(* another resource.                                                       *)
EXTENDS Observe

TwoServers == {1, 2}
ThreePairs == {<<1, <<3, 0, 1>>>>, <<2, <<3, 0, 1>>>>, <<1, <<3, 1>>>>}

Reading == <<3, 0, 1>>
Name == <<3, 1, 2>>
AllResources == {Reading, Name}
OnlyReading == {Reading}
Apart == {Reading, <<3, 1>>}

Attr(set, clear, pmin, pmax, gt, lt, st) ==
  [toSet |-> set, toClear |-> clear, pmin |-> pmin, pmax |-> pmax, gt |-> gt, lt |-> lt, st |-> st]

Periods == Attr({"pmin", "pmax"}, {}, 1, 2, 0, 0, 0)
Limits == Attr({"gt", "lt", "st"}, {}, 0, 0, 3, 0, 1)
LowerLimit == Attr({"gt"}, {}, 0, 0, 2, 0, 0)
SomeWrites == {<<1, Reading, a>> : a \in {Periods, Limits, LowerLimit}}

Bits == 0..1
TwoTokens == 1 :> {"t1", "t2"} @@ 2 :> {"t1"}
AnyChange == {<<3, 0>>}
SecondInstance == {<<3, 1>>}

\* The instance meets what the theorems of ObserveProofs assume.
ASSUME InstanceApart == UrisApart /\ DeletesApart
============================================================================

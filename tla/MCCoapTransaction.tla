------------------------- MODULE MCCoapTransaction -------------------------
(* Instances of CoapTransaction for TLC. Peers may use message ids that    *)
(* collide with the client's.                                              *)
EXTENDS CoapTransaction

CONSTANTS s1, s2

TwoMids == {1, 2}
TwoPeers == {s1, s2}
CollidingMids == {2, 3}
============================================================================

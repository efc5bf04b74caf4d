---- MODULE MCLwM2mServer ----
(* Instances of LwM2mServer: one object with two instances. *)
EXTENDS LwM2mServer, TLC

Has == {<<3>>, <<3, 0>>}
Observable == {<<3, 0>>, <<3>>}
Op(op, uri) == [op |-> op, uri |-> uri]
Managed == {Op("delete", <<3, 0>>), Op("create", <<3>>)}
Either == Permutations(Devices)
====

---- MODULE MCBootstrap ----
(* Instances of Bootstrap: 0 is the bootstrap server's account at first. *)
EXTENDS Bootstrap, TLC

Boot == [boot |-> TRUE, sid |-> 0]
Of(sid) == [boot |-> FALSE, sid |-> sid]
Sec == 0 :> Boot @@ 1 :> Of(1) @@ 2 :> Of(2)
Srv == {1, 2}

Write(a) == [id |-> 0, boot |-> a.boot, sid |-> a.sid, fails |-> FALSE]
At(id, a) == [Write(a) EXCEPT !.id = id]
Op(op, id, accounts) == [op |-> op, id |-> id, accounts |-> accounts]
Put(id, a) == Op("put_security", id, <<Write(a)>>)
PutFails(id) == Op("put_security", id, <<[Write(Of(2)) EXCEPT !.fails = TRUE]>>)

Mixed ==
  {Put(1, Of(2)), Put(1, Of(0)), Put(3, Of(0)), PutFails(1), Put(0, Boot),
   Op("put_accounts", 0, <<At(1, Of(2)), At(3, Of(2))>>), Op("put_server", 2, <<>>),
   Op("delete_security", 1, <<>>), Op("delete_accounts", 0, <<>>),
   Op("delete_server", 1, <<>>), Op("delete_servers", 0, <<>>), Op("get", 0, <<>>)}
AlsoOwn == Mixed \cup {Put(0, Of(2))}
Swap == {Put(1, Of(2)), Put(2, Of(0))}         \* the second leaves an account unusable
All == ShortIds
====

--------------------------- MODULE MCRegistration ---------------------------
(* Instances of Registration for TLC.                                      *)
EXTENDS Registration

OneServer == {1}
TwoServers == {1, 2}
NoServer == {}
SecondFirst == [s \in Servers |-> 3 - s]      \* the order is not that of the list
Unordered == [s \in Servers |-> 0]
ClientCalls == {<<0, TRUE>>}                   \* the calls made by this client
AllCalls == (Servers \cup {0}) \X BOOLEAN      \* all calls the library allows
============================================================================

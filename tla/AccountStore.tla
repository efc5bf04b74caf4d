---------------------------- MODULE AccountStore ----------------------------
(***************************************************************************)
(* What a bootstrap promises of the accounts of a client (the Security and *)
(* the Server Object): they are edited in a transaction. Edits only happen *)
(* while it is open; it is committed only after a bootstrap server was     *)
(* accepted as finished and with accounts the client can use, as far as it *)
(* can tell: what it knows of the servers it lists must be of the accounts *)
(* (listed). It is aborted only if none was or they are of no use: the     *)
(* accounts are then the ones that were committed before. A transaction    *)
(* that is interrupted promises less: what was edited stays, half done,    *)
(* and until the next turn it can be edited further. listed and            *)
(* interrupted are not the store's: they change as they like.              *)
(***************************************************************************)
CONSTANTS
  Usable(_),     \* the client can read all of the accounts
  Sufficient(_)  \* one of the accounts is of a server it can turn to

VARIABLES
  committed,  \* the accounts an abort goes back to
  draft,      \* the accounts as they are now
  open,       \* a bootstrap is going on
  finished,   \* a bootstrap server is accepted as finished
  listed,     \* every server the client knows is of one of the accounts
  interrupted \* the last turn gave up a transaction without ending it

avars == <<committed, draft, open, finished>>

AInit ==
  /\ draft = committed
  /\ open = FALSE /\ finished = FALSE

Begin ==
  /\ ~open /\ open' = TRUE
  /\ UNCHANGED <<committed, draft, finished>>

Edit ==
  /\ open /\ draft' # draft
  /\ UNCHANGED <<committed, open, finished>>

Finish ==
  /\ open /\ finished' = TRUE
  /\ UNCHANGED <<committed, draft, open>>

Commit ==
  /\ open /\ finished
  /\ listed => Usable(draft)
  /\ committed' = draft
  /\ open' = FALSE /\ finished' = FALSE
  /\ UNCHANGED draft

Abort ==
  /\ open /\ ~(finished /\ Usable(draft) /\ Sufficient(draft))
  /\ draft' = committed
  /\ open' = FALSE /\ finished' = FALSE
  /\ UNCHANGED committed

\* Finished, but with no server to register to: the bootstrap starts again.
Again ==
  /\ open /\ finished /\ finished' = FALSE
  /\ UNCHANGED <<committed, draft, open>>

Interrupt ==
  /\ open /\ interrupted'
  /\ committed' = draft
  /\ open' = FALSE /\ finished' = FALSE
  /\ UNCHANGED draft

Leak ==
  /\ ~open /\ interrupted /\ draft' # draft
  /\ committed' = draft'
  /\ UNCHANGED <<open, finished>>

ANext == Begin \/ Edit \/ Finish \/ Commit \/ Abort \/ Again \/ Interrupt \/ Leak

ASpec == AInit /\ [][ANext]_avars
=============================================================================

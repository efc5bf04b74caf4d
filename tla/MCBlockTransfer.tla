-------------------------- MODULE MCBlockTransfer --------------------------
(* Instances of BlockTransfer for TLC.                                     *)
EXTENDS BlockTransfer

TwoThreeTwo == <<2, 3, 2>>
FirstFull == {1}
============================================================================

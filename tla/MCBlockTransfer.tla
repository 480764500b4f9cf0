-------------------------- MODULE MCBlockTransfer --------------------------
(* Instances of BlockTransfer for TLC: one peer, one upload.               *)
EXTENDS BlockTransfer
============================================================================

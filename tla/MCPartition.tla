----------------------------- MODULE MCPartition -----------------------------
(* Partition over every graph of NBlocks basic blocks a check can compile to. *)
EXTENDS Partition
=============================================================================

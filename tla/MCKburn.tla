------------------------------ MODULE MCKburn ------------------------------
(* Kburn for TLC.  The cfgs scale the widths: a block is 2 bytes, the       *)
(* endpoint buffer 4, unsigned int has 8 values and u64 has 16, so a        *)
(* download can be larger than transfer_size can hold, and offset + size    *)
(* can wrap.                                                                *)
EXTENDS Kburn

MCOffsets == {1, 2, 14}
MCParentSeq == [d \in {0, 1} |-> 0]     \* both below "soc"
MCSizes == {0, 1, 5, 6, 8}
=============================================================================

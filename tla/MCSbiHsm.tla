------------------------------ MODULE MCSbiHsm ------------------------------
(* Instances of SbiHsm for TLC. *)
EXTENDS SbiHsm
=============================================================================

----------------------------- MODULE MCSbiLock -----------------------------
(* Instance of SbiLock for TLC. *)
EXTENDS SbiLock
=============================================================================

----------------------------- MODULE MCSbiFifo -----------------------------
(* Instance of SbiFifo for TLC: the entries stand for two pages and for a   *)
(* flush of both, so that the callback gives each of its verdicts.          *)
EXTENDS SbiFifo

CONSTANTS pageA, pageB, both

MCEntry == {pageA, pageB, both}

MCFptr(in, e) ==
    IF in = e \/ e = both THEN [verdict |-> "SKIP", entry |-> e]
    ELSE IF in = both THEN [verdict |-> "UPDATED", entry |-> both]
    ELSE [verdict |-> "UNCHANGED", entry |-> e]
=============================================================================

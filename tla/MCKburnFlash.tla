---------------------------- MODULE MCKburnFlash ----------------------------
(* KburnFlash for TLC: four blocks of two pages of two units, and an        *)
(* endpoint buffer of two blocks.                                           *)
EXTENDS KburnFlash

MCOffsets == {0, 4, 8, 10, 60}
MCSizes == {0, 4, 8, 9, 12}
MCBlanks == {{}, {1}, {0, 1, 2, 3}}
=============================================================================

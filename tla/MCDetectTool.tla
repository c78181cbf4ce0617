---------------------------- MODULE MCDetectTool ----------------------------
(* Frame intervals that round up, down, to a rate below the wanted one and *)
(* to nothing usable; numbers that wrap around.                            *)
EXTENDS DetectTool

MCNumerators   == {0, 1, 2}
MCDenominators == {1, 5}
=============================================================================

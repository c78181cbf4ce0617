--------------------------- MODULE MCPersonDetector -------------------------
(* Two slots as in the tool, ids that wrap, and the shortest rule with     *)
(* which a person can enter, leave and be missed once without leaving.     *)
EXTENDS PersonDetector
=============================================================================

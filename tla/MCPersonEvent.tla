---------------------------- MODULE MCPersonEvent ---------------------------
(* The default rule, 2 of 3 and 5 misses, with event ids that wrap.        *)
EXTENDS PersonEvent
=============================================================================

------------------------------ MODULE MCProgram ------------------------------
(* Two client ports and two signals, at any moment; with and without RKAIQ.  *)
EXTENDS Program

MCPorts == {1, 2}
=============================================================================

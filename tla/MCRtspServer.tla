---------------------------- MODULE MCRtspServer ---------------------------
(* One server and two client ports; no signals.                            *)
EXTENDS RtspServer

MCPorts == {1, 2}
=============================================================================

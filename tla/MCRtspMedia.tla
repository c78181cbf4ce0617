---------------------------- MODULE MCRtspMedia ----------------------------
(* The media object under its most general control thread, two ports.      *)
EXTENDS RtspMedia

MCPorts == {1, 2}
=============================================================================

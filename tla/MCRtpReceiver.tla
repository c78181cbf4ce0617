---------------------------- MODULE MCRtpReceiver ----------------------------
(* Payloads of two bytes: a slice of 2 fits a packet, one of 3 is a single *)
(* fragment with both its bits, one of 6 makes three fragments.  Sequence  *)
(* numbers and time stamps wrap within a session.                          *)
EXTENDS RtpReceiver

Slice(n) == [type |-> "slice", size |-> n]

MCAccessUnits == {<<Sps, Pps, Slice(3)>>, <<Slice(2), Slice(6)>>}
=============================================================================

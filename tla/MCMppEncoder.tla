------------------------------ MODULE MCMppEncoder ----------------------------
(* A ring of four bytes, packets of one to three, and three pictures: every*)
(* packet may wrap, lie at the end, or share the ring with a late one.     *)
EXTENDS MppEncoder
=============================================================================

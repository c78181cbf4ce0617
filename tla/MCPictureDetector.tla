-------------------------- MODULE MCPictureDetector -------------------------
(* One call, one picture: the model has no constants to bound.             *)
EXTENDS PictureDetector
=============================================================================

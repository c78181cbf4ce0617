--------------------------- MODULE MCMediaPipeline --------------------------
(* Three buffers, a group of three pictures, eight frames of the camera.  *)
EXTENDS MediaPipeline
=============================================================================

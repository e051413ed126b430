---------------------------- MODULE MCMediaPlane ----------------------------
(* MediaPlane on a small set of peers. *)
EXTENDS MediaPlane
=============================================================================

----------------------------- MODULE MCGateway -----------------------------
(* Gateway with every connection, session and address a model value. *)
EXTENDS Gateway
=============================================================================

------------------------- MODULE MCConnectionManager -------------------------
(* The connection manager on small pools. *)
EXTENDS ConnectionManager
===============================================================================

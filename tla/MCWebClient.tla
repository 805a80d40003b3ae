---------------------------- MODULE MCWebClient ------------------------------
(* One tab, used by alice or bob, with two or three groups.                *)
EXTENDS WebClient

MCJoined == [u \in Users |-> {1}]
===============================================================================

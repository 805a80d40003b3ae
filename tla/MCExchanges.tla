----------------------------- MODULE MCExchanges -----------------------------
(* The request path on a few sessions, client streams and backend streams. *)
EXTENDS Exchanges, TLC

(* every backend stream is on the one connection of the transport *)
MCShared == [h \in Handles |-> CHOOSE k \in Conns : TRUE]

(* every backend stream has a connection of its own *)
MCSpread == [h \in Handles |-> h]

(* backend streams of one connection, and sessions of one kind, differ in  *)
(* their names only                                                        *)
MCSymmetry == Permutations(Handles) \cup Permutations(Sessions)
===============================================================================

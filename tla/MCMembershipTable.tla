-------------------------- MODULE MCMembershipTable ---------------------------
(* A Data is written and copied in two parts. *)
EXTENDS MembershipTable

MCPieces == {"address", "incarnation"}
===============================================================================

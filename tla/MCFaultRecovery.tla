-------------------------- MODULE MCFaultRecovery ----------------------------
(* The fault-recovery script, and any other script against a gateway that  *)
(* sends a few frames.                                                     *)
EXTENDS FaultRecovery

reply == [type |-> "open", dest |-> "service", route |-> "other", eof |-> TRUE, body |-> "good"]
event == [type |-> "open", dest |-> "peer", route |-> "other", eof |-> TRUE, body |-> "good"]

MCAnswers == {<<>>, Bytes(reply), <<HeaderOf(reply)>>}
MCEvents  == {Bytes(event), <<HeaderOf(event)>>}
===============================================================================

---------------------------- MODULE MCWssSession -----------------------------
(* The browser session against a gateway that sends a few records, whole,  *)
(* split or broken.                                                        *)
EXTENDS WssSession

grant == [type |-> "open", dest |-> "gateway", route |-> "grant", eof |-> TRUE, body |-> "good"]
reply == [type |-> "open", dest |-> "service", route |-> "other", eof |-> TRUE, body |-> "good"]
event == [type |-> "open", dest |-> "peer", route |-> "other", eof |-> TRUE, body |-> "good"]

(* nothing, a grant, or a piece of a reply *)
MCAnswers == {<<>>, Bytes(grant), <<HeaderOf(reply)>>, <<BodyOf(reply)>>}

(* an event or a piece of it *)
MCEvents == {Bytes(event), <<HeaderOf(event)>>, <<BodyOf(event)>>}
===============================================================================

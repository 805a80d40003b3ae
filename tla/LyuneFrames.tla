----------------------------- MODULE LyuneFrames -----------------------------
(***************************************************************************)
(* Lyune frames as the clients of validation/ read them off a stream.      *)
(* A frame travels as two pieces, its header and its body; a record may    *)
(* carry any run of pieces, so that a frame can be split over records and  *)
(* a stream can end in the middle of one.  Of the bytes only what the      *)
(* clients tell apart is kept.                                             *)
(***************************************************************************)
EXTENDS Naturals, Sequences

(* type, dest, route and eof as decoded (a DATA frame has dest 0, which is *)
(* "gateway"); body: whether what the frame carries parses and is accepted *)
Frame == [type  : {"open", "data"},
          dest  : {"gateway", "service", "peer"},
          route : {"grant", "reject", "error", "other"},
          eof   : BOOLEAN,
          body  : {"good", "refused", "bad"}]

Piece == [frame : Frame, part : {"header", "body"}]

HeaderOf(f) == [frame |-> f, part |-> "header"]
BodyOf(f)   == [frame |-> f, part |-> "body"]

(* the bytes of one frame *)
Bytes(f) == <<HeaderOf(f), BodyOf(f)>>

(* decodeFrames does not throw: a header is followed by its whole body, to *)
(* the end of the stream                                                   *)
Decodable(bytes) ==
    /\ Len(bytes) % 2 = 0
    /\ \A i \in 1 .. Len(bytes) \div 2 :
           /\ bytes[2*i - 1].part = "header"
           /\ bytes[2*i] = BodyOf(bytes[2*i - 1].frame)

(* the frames decodeFrames returns *)
decodeFrames(bytes) == [i \in 1 .. Len(bytes) \div 2 |-> bytes[2*i - 1].frame]

===============================================================================

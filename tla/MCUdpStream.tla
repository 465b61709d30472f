----------------------------- MODULE MCUdpStream -----------------------------
(* Instances of UdpStream for TLC: marks of one or two writes, so that both   *)
(* buffers fill and a write is refused.                                       *)
EXTENDS UdpStream
=============================================================================

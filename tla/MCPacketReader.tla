--------------------------- MODULE MCPacketReader ---------------------------
(* spi_pkt_slave's receiving half, on small instances. *)
EXTENDS PacketReader

(* Bytes 0 .. 3, start byte 2, stop byte 1: an empty packet, and packets   *)
(* that hold the start and the stop byte, or look like a frame.            *)
SmallPackets == {<<>>, <<1>>, <<2, 1>>}
=============================================================================

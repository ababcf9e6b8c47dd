--------------------------- MODULE MCPacketWriter ---------------------------
(* spi_pkt_slave's sending half, on small instances. *)
EXTENDS PacketWriter, TLC

Senders == Permutations(Sender)
=============================================================================

--------------------------- MODULE MCPacketQueue ---------------------------
(* Constants of PacketQueue for TLC: the CPU thread makes two calls of     *)
(* packet_enqueue and the web thread one, with as many heap blocks.        *)
EXTENDS PacketQueue, TLC

CONSTANTS cpu, web, n1, n2, n3

MCProducers == {cpu}
MCNodes == {n1, n2, n3}
MCCalls == cpu :> 2 @@ web :> 1
=============================================================================

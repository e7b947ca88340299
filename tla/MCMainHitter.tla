---------------------------- MODULE MCMainHitter ----------------------------
(***************************************************************************)
(* Files of up to four packets, of four flows, for TLC.                    *)
(***************************************************************************)
EXTENDS MainHitter

CONSTANTS f, g, h, z

MCKeys == {f, g, h, z}

MCHashFamily == {[i \in 0 .. Depth - 1 |-> [x \in Keys |-> 0]]}

Packet(caplen, v, hl, p, doff, x) ==
  [caplen |-> caplen, ip_v |-> v, ip_hl |-> hl, ip_p |-> p, doff |-> doff, flow |-> x]

(* A whole packet of each flow; TCP and UDP headers that are cut off, and  *)
(* IPv6.                                                                   *)
MCPackets ==
  {Packet(60, 4, 5, "tcp", 5, f), Packet(28, 4, 5, "udp", 0, g),
   Packet(1600, 4, 5, "icmp", 0, h), Packet(20, 4, 5, "other", 0, z),
   Packet(39, 4, 5, "tcp", 5, g), Packet(27, 4, 5, "udp", 0, f), Packet(60, 6, 0, "tcp", 5, g)}
=============================================================================

---------------------------- MODULE MCXdpIngress ----------------------------
(***************************************************************************)
(* A small instance of XdpIngress: a TCP and a UDP packet of two flows, a  *)
(* packet that is not IPv4, and one cut short of its ports.                *)
(***************************************************************************)
EXTENDS XdpIngress

Wire == INSTANCE WireFormat

Packet(f, ether, proto, len) == Wire!Encode(Wire!Plain(f, ether, proto, len))

AFlow == [src |-> <<10, 0, 0, 1>>, dst |-> <<10, 0, 0, 2>>,
          sport |-> 80, dport |-> 1000]
BFlow == [AFlow EXCEPT !.sport = 53]

MCPackets == {Packet(AFlow, ETH_P_IP, IPPROTO_TCP, 60),
              Packet(BFlow, ETH_P_IP, IPPROTO_UDP, 54),
              Packet(AFlow, 2054, IPPROTO_TCP, 60),
              Packet(BFlow, ETH_P_IP, IPPROTO_UDP, 40)}

\* Any u32 per 5-tuple will do: the two flows get different deny indices.
MCHash(t) == IF t[5] = IPPROTO_TCP THEN 6 ELSE 9
=============================================================================

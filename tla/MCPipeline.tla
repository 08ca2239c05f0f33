----------------------------- MODULE MCPipeline -----------------------------
(***************************************************************************)
(* A small instance of Pipeline: one TCP flow, and one packet that is not  *)
(* a signal, on two CPUs.                                                  *)
(***************************************************************************)
EXTENDS Pipeline

Wire == INSTANCE WireFormat

Flow == [src |-> <<10, 0, 0, 1>>, dst |-> <<10, 0, 0, 2>>,
         sport |-> 80, dport |-> 1000]

Packet(ether) == Wire!Encode(Wire!Plain(Flow, ether, Wire!IPPROTO_TCP, 54))

MCPackets == {Packet(Wire!ETH_P_IP), Packet(2054)}

\* With DENY_ENTRIES = 1 the one index denies or admits every flow.
MCHash(t) == 6
=============================================================================

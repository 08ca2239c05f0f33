----------------------------- MODULE ProtoView ------------------------------
(***************************************************************************)
(* sg-ebpf/src/proto_view.rs: the header parser of the XDP program.        *)
(*                                                                         *)
(* A packet is the window the verifier lets the program see: a record of   *)
(* data_end and of the bytes `at' offsets 0 .. data_end - 1.  A read       *)
(* outside it has no value.                                                *)
(***************************************************************************)
EXTENDS Integers

CONSTANT None

\* The canonical bounds check, ~(data.add(n) > data_end).
Fits(p, n) == n <= p.data_end

\* u16::from_be and u32::from_be of an unaligned load.  A u32 is the tuple of
\* its bytes, least significant first.
be16(p, o) == p.at[o] * 256 + p.at[o + 1]
be32(p, o) == <<p.at[o + 3], p.at[o + 2], p.at[o + 1], p.at[o]>>

ETH_P_IP    == 2048   \* 0x0800
IPPROTO_TCP == 6
IPPROTO_UDP == 17

\* Mutant: the two port offsets are swapped.
ExtractSwapped(p) ==
    [src_ip |-> be32(p, 26), dst_ip |-> be32(p, 30),
     src_port |-> be16(p, 36), dst_port |-> be16(p, 34),
     proto |-> p.at[23], l3_hdr |-> [i \in 0..19 |-> p.at[14 + i]]]

\* Every offset is fixed: 14 bytes of Ethernet, 20 of IPv4.
Extract(p) ==
    [src_ip   |-> be32(p, 26),
     dst_ip   |-> be32(p, 30),
     src_port |-> be16(p, 34),
     dst_port |-> be16(p, 36),
     proto    |-> p.at[23],
     l3_hdr   |-> [i \in 0..19 |-> p.at[14 + i]]]

\* The conjuncts are the early returns, in the order of the source: no byte
\* is read before the length check that covers it.
IsSignal(p) ==
    /\ Fits(p, 34)
    /\ be16(p, 12) = ETH_P_IP
    /\ p.at[23] \in {IPPROTO_TCP, IPPROTO_UDP}
    /\ Fits(p, 54)

inspect(p) == IF IsSignal(p) THEN Extract(p) ELSE None
=============================================================================

---------------------------- MODULE MCProtoView -----------------------------
(***************************************************************************)
(* inspect() and the hash of what it returns, against MurmurHash3 of what  *)
(* the sender meant, on the frame lengths and the protocols around the     *)
(* ones inspect() accepts.                                                 *)
(***************************************************************************)
EXTENDS Inspection, Murmur3, MurmurReference

CONSTANTS
    Lengths,      \* frame lengths, in bytes
    OptionWords   \* 32-bit words of IPv4 options

\* Addresses and ports at the edges of their bytes.
Addresses == {<<10, 0, 0, 1>>, <<128, 1, 2, 3>>, <<255, 255, 255, 255>>}
Ports == {0, 255, 256, 65535}

Repeat(b, n) == [i \in 1..n |-> b]

MCDescriptions ==
    [flow : [src : Addresses, dst : Addresses, sport : Ports, dport : Ports],
     macs : {Repeat(2, 12)}, ether : {ETH_P_IP, 2054},
     head : {Repeat(0, 8)}, proto : {1, IPPROTO_TCP, IPPROTO_UDP},
     checksum : {<<0, 0>>}, options : {Repeat(7, 4 * n) : n \in OptionWords},
     payload : {Repeat(0, 64)}, len : Lengths]

VARIABLE hash

vars == <<desc, stage, view, hash>>

\* The call at the head of filter::select.
Select ==
    /\ stage = "inspected"
    /\ view # None
    /\ stage' = "hashed"
    /\ hash' = murmur3_13(view.src_ip, view.dst_ip,
                          view.src_port, view.dst_port, view.proto)
    /\ UNCHANGED <<desc, view>>

HashInit == Init /\ hash = None

HashNext == (Inspect /\ UNCHANGED hash) \/ Select

HashSpec == HashInit /\ [][HashNext]_vars

-----------------------------------------------------------------------------

\* The unrolled hash of the view is the reference MurmurHash3_x86_32, seed 0,
\* of the sender's 5-tuple in little-endian memory: parser and hash agree on
\* the byte order, so an entry computed elsewhere denies the flow it names.
HashIsMurmur3 ==
    stage = "hashed" /\ desc.options = <<>> =>
        Bits(hash) = MurmurHash3(KeyBytes(desc), {})
=============================================================================

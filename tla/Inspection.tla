---------------------------- MODULE Inspection ------------------------------
(***************************************************************************)
(* inspect() of proto_view.rs on a packet that a sender laid out with the  *)
(* independent encoder of WireFormat.                                      *)
(***************************************************************************)
EXTENDS WireFormat

CONSTANT Descriptions   \* the packets senders may mean

\* The fields of ProtoView at their widths.
ProtoViews ==
    [src_ip : Bytes(4), dst_ip : Bytes(4),
     src_port : U16, dst_port : U16,
     proto : Byte, l3_hdr : [0..19 -> Byte]]

ASSUME InspectionAssumption ==
    /\ \A d \in Descriptions : IsDescription(d)
    /\ None \notin ProtoViews

VARIABLES desc, stage, view

Init ==
    /\ desc \in Descriptions
    /\ stage = "arrived"
    /\ view = None

Inspect ==
    /\ stage = "arrived"
    /\ stage' = "inspected"
    /\ view' = inspect(Encode(desc))
    /\ UNCHANGED desc

Spec == Init /\ [][Inspect]_<<desc, stage, view>>

-----------------------------------------------------------------------------

IsSignalPacket ==
    /\ desc.ether = ETH_P_IP
    /\ desc.proto \in {IPPROTO_TCP, IPPROTO_UDP}
    /\ desc.len >= 54

\* inspect() recovers from the wire what the sender of a TCP or UDP packet
\* meant: the addresses, the protocol and the fixed IPv4 header always, the
\* ports when the header has no options (they are read at a fixed offset).
\* It returns None for everything else, and it is evaluated on frames cut at
\* every boundary, so it reads no byte before its length check.
ParsesPacket ==
    stage # "arrived" =>
        IF IsSignalPacket
        THEN /\ view \in ProtoViews
             /\ view.src_ip = Ip(desc.flow.src) /\ view.dst_ip = Ip(desc.flow.dst)
             /\ view.proto = desc.proto
             /\ \A i \in 0..19 : view.l3_hdr[i] = IpHeader(desc)[i + 1]
             /\ desc.options = <<>> => /\ view.src_port = desc.flow.sport
                                       /\ view.dst_port = desc.flow.dport
        ELSE view = None
=============================================================================

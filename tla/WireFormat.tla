----------------------------- MODULE WireFormat -----------------------------
(***************************************************************************)
(* The packets the XDP program is given, laid out by their senders: an     *)
(* Ethernet header, an IPv4 header and its options (RFC 791), the ports    *)
(* that open a TCP or UDP header, and the bytes after them.  A description *)
(* says what the sender meant; the wire cuts the encoding to a length.     *)
(***************************************************************************)
EXTENDS ProtoView, Sequences

Byte == 0..255
U16Max == 65535
U16 == 0..U16Max
Bytes(n) == [1..n -> Byte]

Flows == [src : Bytes(4), dst : Bytes(4), sport : U16, dport : U16]

\* A 16-bit field, the most significant byte first.
Wire16(n) == <<n \div 256, n % 256>>

\* head is type of service, total length, identification, fragment and TTL.
IpHeader(d) ==
    <<64 + 5 + Len(d.options) \div 4>> \o d.head \o <<d.proto>> \o d.checksum
        \o d.flow.src \o d.flow.dst

Headers(d) ==
    d.macs \o Wire16(d.ether) \o IpHeader(d) \o d.options
        \o Wire16(d.flow.sport) \o Wire16(d.flow.dport) \o d.payload

Encode(d) ==
    LET bytes == Headers(d)
    IN  [data_end |-> d.len, at |-> [o \in 0..(d.len - 1) |-> bytes[o + 1]]]

\* Every packet a sender can mean, cut anywhere.  An IPv4 header has at most
\* ten words of options.
IsDescription(d) ==
    /\ d.macs \in Bytes(12) /\ d.ether \in U16
    /\ d.head \in Bytes(8) /\ d.proto \in Byte /\ d.checksum \in Bytes(2)
    /\ d.flow \in Flows
    /\ \E words \in 0..10 : d.options \in Bytes(4 * words)
    /\ d.payload \in Seq(Byte)
    /\ d.len \in 0..Len(Headers(d))

\* A packet without options whose other bytes are zero.
Plain(flow, ether, proto, len) ==
    LET zeros(n) == [i \in 1..n |-> 0]
    IN  [macs |-> zeros(12), ether |-> ether, head |-> zeros(8),
         proto |-> proto, checksum |-> zeros(2), flow |-> flow,
         options |-> <<>>, payload |-> zeros(64), len |-> len]

\* The first byte on the wire is the most significant one.
Ip(b) == <<b[4], b[3], b[2], b[1]>>

\* The 13 bytes of the 5-tuple in a little-endian memory.
KeyBytes(d) ==
    LET le16(n) == <<n % 256, n \div 256>>
    IN  Ip(d.flow.src) \o Ip(d.flow.dst)
        \o le16(d.flow.sport) \o le16(d.flow.dport) \o <<d.proto>>
=============================================================================

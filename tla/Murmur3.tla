------------------------------ MODULE Murmur3 -------------------------------
(***************************************************************************)
(* sg-ebpf/src/filter.rs: murmur3_13, the unrolled hash of the 5-tuple.    *)
(*                                                                         *)
(* A u32 is the tuple of its four bytes, least significant first, so that  *)
(* the wrapping arithmetic is carried out at its real width.               *)
(***************************************************************************)
EXTENDS Naturals, Bitwise

\* The columns of a sum or a product, carried; what leaves the fourth byte
\* is lost.
Carried(s) ==
    LET b == s[2] + s[1] \div 256
        c == s[3] + b \div 256
        d == s[4] + c \div 256
    IN  <<s[1] % 256, b % 256, c % 256, d % 256>>

wrapping_add(x, y) == Carried([k \in 1..4 |-> x[k] + y[k]])

wrapping_mul(x, y) ==
    Carried(<<x[1] * y[1],
              x[1] * y[2] + x[2] * y[1],
              x[1] * y[3] + x[2] * y[2] + x[3] * y[1],
              x[1] * y[4] + x[2] * y[3] + x[3] * y[2] + x[4] * y[1]>>)

Xored(x, y) == [k \in 1..4 |-> x[k] ^^ y[k]]

\* Byte j of the word, counted cyclically.
Cyclic(x, j) == x[((j - 1) % 4) + 1]

rotate_left(x, n) ==
    LET q == n \div 8
        r == n % 8
    IN  [k \in 1..4 |-> (Cyclic(x, k + 4 - q) * 2^r
                         + Cyclic(x, k + 3 - q) \div 2^(8 - r)) % 256]

ShiftedRight(x, n) ==
    LET byte(j) == IF j <= 4 THEN x[j] ELSE 0
        q == n \div 8
        r == n % 8
    IN  [k \in 1..4 |-> (byte(k + q) \div 2^r
                         + byte(k + q + 1) * 2^(8 - r)) % 256]

Word(n) == <<n % 256, n \div 256, 0, 0>>

C1 == <<81, 45, 158, 204>>     \* 0xcc9e2d51
C2 == <<147, 53, 135, 27>>     \* 0x1b873593

Scrambled(k) == wrapping_mul(rotate_left(wrapping_mul(k, C1), 15), C2)

\* One of the three unrolled blocks; the constant is 0xe6546b64.
Block(h, k) ==
    wrapping_add(
        wrapping_mul(rotate_left(Xored(h, Scrambled(k)), 13), Word(5)),
        <<100, 107, 84, 230>>)

\* h ^= h >> n
Folded(h, n) == Xored(h, ShiftedRight(h, n))

\* The multipliers are 0x85ebca6b and 0xc2b2ae35.
fmix32(h) ==
    LET h1 == wrapping_mul(Folded(h, 16), <<107, 202, 235, 133>>)
        h2 == wrapping_mul(Folded(h1, 13), <<53, 174, 178, 194>>)
    IN  Folded(h2, 16)

\* Mutant: the two ports change places.
PortsSwapped(src_port, dst_port) ==
    <<dst_port % 256, dst_port \div 256, src_port % 256, src_port \div 256>>

\* src_port | (dst_port << 16)
ports_word(src_port, dst_port) ==
    <<src_port % 256, src_port \div 256, dst_port % 256, dst_port \div 256>>

LEN == 13

murmur3_13(src_ip, dst_ip, src_port, dst_port, proto) ==
    LET h1 == Block(Word(0), src_ip)
        h2 == Block(h1, dst_ip)
        h3 == Block(h2, ports_word(src_port, dst_port))
        h4 == Xored(h3, Scrambled(Word(proto)))
    IN  fmix32(Xored(h4, Word(LEN)))
=============================================================================

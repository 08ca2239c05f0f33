-------------------------- MODULE MurmurReference ---------------------------
(***************************************************************************)
(* MurmurHash3_x86_32 as its author defines it (SMHasher), on a sequence   *)
(* of bytes of any length and with any seed.  It shares nothing with       *)
(* Murmur3: a word is the set of the positions of its one bits.            *)
(***************************************************************************)
EXTENDS Integers, Sequences, SequencesExt

\* Up to four bytes, least significant first, as a word.
Bits(bytes) ==
    {i \in 0..(8 * Len(bytes) - 1) : (bytes[i \div 8 + 1] \div 2^(i % 8)) % 2 = 1}

Rol(w, n) == {(i + n) % 32 : i \in w}
Shl(w, n) == {i + n : i \in {j \in w : j + n < 32}}
Shr(w, n) == {i - n : i \in {j \in w : j >= n}}

\* The carry into each bit is the majority of what meets in the bit below.
Plus(a, b) ==
    LET carry[i \in 0..31] ==
            IF i = 0 THEN FALSE
            ELSE \/ i - 1 \in a /\ i - 1 \in b
                 \/ carry[i - 1] /\ i - 1 \in a \cup b
    IN  {i \in 0..31 : (i \in SymDiff(a, b)) # carry[i]}

Times(a, b) == FoldSet(LAMBDA i, acc : Plus(acc, Shl(b, i)), {}, a)

MixIn(k) == Times(Rol(Times(k, Bits(<<81, 45, 158, 204>>)), 15),
                  Bits(<<147, 53, 135, 27>>))

Body(h, k) == Plus(Times(Rol(SymDiff(h, MixIn(k)), 13), Bits(<<5>>)),
                   Bits(<<100, 107, 84, 230>>))

Avalanche(h) ==
    LET a == Times(SymDiff(h, Shr(h, 16)), Bits(<<107, 202, 235, 133>>))
        b == Times(SymDiff(a, Shr(a, 13)), Bits(<<53, 174, 178, 194>>))
    IN  SymDiff(b, Shr(b, 16))

MurmurHash3(key, seed) ==
    LET whole  == Len(key) \div 4
        blocks == [i \in 1..whole |-> Bits(SubSeq(key, 4 * i - 3, 4 * i))]
        tail   == Bits(SubSeq(key, 4 * whole + 1, Len(key)))
        body   == FoldLeft(Body, seed, blocks)
    IN  Avalanche(SymDiff(SymDiff(body, MixIn(tail)), Bits(<<Len(key)>>)))

\* Published test vectors: the empty key with seeds 0 and 1, four zero bytes,
\* and "aaaa", "aaa" and "Hello, world!" (13 bytes) with seed 0x9747b28c.
ASSUME PublishedVectors ==
    LET seed == Bits(<<140, 178, 71, 151>>)
    IN  /\ MurmurHash3(<<>>, {}) = {}
        /\ MurmurHash3(<<>>, {0}) = Bits(<<183, 40, 78, 81>>)
        /\ MurmurHash3(<<0, 0, 0, 0>>, {}) = Bits(<<222, 249, 98, 35>>)
        /\ MurmurHash3(<<97, 97, 97, 97>>, seed) = Bits(<<138, 128, 151, 90>>)
        /\ MurmurHash3(<<97, 97, 97>>, seed) = Bits(<<48, 1, 62, 40>>)
        /\ MurmurHash3(<<72, 101, 108, 108, 111, 44, 32, 119, 111, 114, 108,
                         100, 33>>, seed) = Bits(<<186, 76, 136, 36>>)
=============================================================================

---------------------------- MODULE MCArchiveCipher ----------------------------
(***************************************************************************)
(* Checks the cipher operators of ArchiveCipher over bounded inputs.  The  *)
(* state is one input and every input is an initial state, so TLC         *)
(* evaluates the invariants on each; a step moves the split point.        *)
(***************************************************************************)
EXTENDS Naturals, Sequences, Bitwise, ArchiveCipher

CONSTANTS Bases, Steps, DataBytes, MaxLen

VARIABLE input   \* [kind, base, step, data, cut]: one call of shiftBlock

Words == UNION {[1..n -> DataBytes] : n \in 0..MaxLen}

Inputs == [kind : CipherKinds, base : Bases, step : Steps, data : Words, cut : 0..MaxLen]

Init == input \in {i \in Inputs : i.cut <= Len(i.data)}

Next == input' = [input EXCEPT !.cut = (@ + 1) % (Len(input.data) + 1)]

Spec == Init /\ [][Next]_input

-----------------------------------------------------------------------------
(* Reference definitions, written independently of ArchiveCipher.         *)

\* fnv1a_32 with the hash as four bytes (little-endian) and schoolbook
\* multiplication by 16777619 = 0x01000193 modulo 2^32.
PrimeBytes == <<147, 1, 0, 1>>
RefMul(x) ==
    LET col(k) == LET s[j \in 0..k] == (IF j = 0 THEN 0 ELSE s[j - 1])
                                        + x[j + 1] * PrimeBytes[k - j + 1]
                  IN  s[k]
        r[k \in 0..3] == IF k = 0 THEN <<col(0) % 256, col(0) \div 256>>
                         ELSE LET t == col(k) + r[k - 1][2]
                              IN  <<t % 256, t \div 256>>
    IN  [k \in 1..4 |-> r[k - 1][1]]
RefFnv(data) ==
    LET h[i \in 0..Len(data)] ==
            IF i = 0 THEN <<197, 157, 28, 129>>           \* 0x811C9DC5
            ELSE RefMul([h[i - 1] EXCEPT ![1] = @ ^^ data[i]])
    IN  h[Len(data)]
AsLimbs(x) == [hi |-> x[4] * 256 + x[3], lo |-> x[2] * 256 + x[1]]

-----------------------------------------------------------------------------
\* The handoff open() and encryptArchive both rely on: running the cipher
\* over a block in two calls, the second seeded with the base the first left
\* behind (the header, then the metadata block), is the same as one call
\* over the whole; and decrypting is encrypting again from the same seed.
KeystreamContinues ==
    LET i     == input
        front == SubSeq(i.data, 1, i.cut)
        back  == SubSeq(i.data, i.cut + 1, Len(i.data))
        first == ShiftBlock(i.kind, front, i.base, i.step)
        whole == ShiftBlock(i.kind, i.data, i.base, i.step)
    IN  /\ whole = << first[1] \o ShiftBlock(i.kind, back, first[2], i.step)[1],
                      ShiftBlock(i.kind, back, first[2], i.step)[2] >>
        /\ ShiftBlock(i.kind, whole[1], i.base, i.step)[1] = i.data

\* fnv1a_32 computed in 16-bit limbs agrees with byte-wise multiplication
\* modulo 2^32, and with the published FNV-1a test vectors.
FnvMatchesReference ==
    /\ Fnv1a32(input.data) = AsLimbs(RefFnv(input.data))
    /\ Fnv1a32(<<>>) = [hi |-> 33052, lo |-> 40389]                  \* 0x811C9DC5
    /\ Fnv1a32(<<97>>) = [hi |-> 58380, lo |-> 10540]                \* "a": 0xE40C292C
    /\ Fnv1a32(<<102, 111, 111, 98, 97, 114>>) = [hi |-> 49052, lo |-> 63848]
                                                                    \* "foobar": 0xBF9CF968
=============================================================================

---------------------------- MODULE ArchiveCipher ----------------------------
(***************************************************************************)
(* Key derivation and the two XOR stream ciphers of ArchiveEncryption.hpp. *)
(* Bytes are integers in 0..255.  A 32-bit FNV-1a hash is kept as two      *)
(* 16-bit limbs because TLC integers are 32-bit signed: the arithmetic is  *)
(* still exactly modulo 2^32.                                              *)
(***************************************************************************)
EXTENDS Naturals, Sequences, Bitwise

Byte == 0..255

\* The two cipher variants: "v2" (current) and "legacy" (v1).
CipherKinds == {"v2", "legacy"}

Hash32 == [hi : 0..65535, lo : 0..65535]

\* OFFSET_BASIS = 2166136261 = 0x811C_9DC5.
FnvOffsetBasis == [hi |-> 33052, lo |-> 40389]

\* Mutant: FNV-1 order (multiply, then XOR) instead of FNV-1a.
FnvStepMulFirst(h, b) ==
    LET low == h.lo * 403
        hi  == (h.hi * 403 + low \div 65536 + (h.lo % 256) * 256) % 65536
    IN  [hi |-> hi, lo |-> (low % 65536) ^^ b]

\* One round of fnv1a_32: hash ^= byte; hash *= 16777619, modulo 2^32.
\* 16777619 = 2^24 + 403, so hash * prime = hash * 403 + (low byte of hash) << 24.
FnvStep(h, b) ==
    LET x   == h.lo ^^ b
        low == x * 403
    IN  [hi |-> (h.hi * 403 + low \div 65536 + (x % 256) * 256) % 65536,
         lo |-> low % 65536]

\* The loop of fnv1a_32 over data, from hash h.
RECURSIVE FnvLoop(_, _)
FnvLoop(h, data) ==
    IF data = <<>> THEN h ELSE FnvLoop(FnvStep(h, Head(data)), Tail(data))

Fnv1a32(data) == FnvLoop(FnvOffsetBasis, data)

\* getKeyHashHeader / getKeyHashHeaderLegacy: <<keyBase, keyStep>> from the hash.
KeyHashHeader(h) == << (h.lo % 256) ^^ 85, (h.lo \div 256) ^^ 200 >>

\* getKeyHashFile: the per-file seed mixes bits 24..31 and 16..23 of the
\* path hash with the header key.
KeyHashFile(h, headerKey) ==
    << ((h.hi \div 256) ^^ headerKey[1]) ^^ 74,
       ((h.hi % 256)   ^^ headerKey[2]) ^^ 235 >>

\* The base after one byte: base * 0xBD + step (v2) or base + step
\* (legacy), stored back into the uint8_t base.
NextBase(kind, base, step) ==
    IF kind = "v2" THEN (base * 189 + step) % 256 ELSE (base + step) % 256

\* Mutant: base passed by value, so the caller's base is not advanced.
RECURSIVE ShiftBlockByValue(_, _, _, _)
ShiftBlockByValue(kind, data, base, step) ==
    IF data = <<>> THEN << <<>>, base >>
    ELSE << << Head(data) ^^ base >>
            \o ShiftBlockByValue(kind, Tail(data), NextBase(kind, base, step), step)[1],
            base >>

\* shiftBlock / shiftBlockLegacy: XOR every byte with the running base and
\* advance it; the result is <<data', base'>> since base is passed by reference.
RECURSIVE ShiftBlock(_, _, _, _)
ShiftBlock(kind, data, base, step) ==
    IF data = <<>> THEN << <<>>, base >>
    ELSE LET rest == ShiftBlock(kind, Tail(data), NextBase(kind, base, step), step)
         IN  << << Head(data) ^^ base >> \o rest[1], rest[2] >>

\* The base after a block of n bytes: the data-independent half of ShiftBlock.
RECURSIVE Advance(_, _, _, _)
Advance(kind, base, step, n) ==
    IF n = 0 THEN base ELSE Advance(kind, NextBase(kind, base, step), step, n - 1)

\* The first n keystream bytes of a seed (ShiftBlock applied to n zero bytes).
Keystream(kind, base, step, n) ==
    ShiftBlock(kind, [i \in 1..n |-> 0], base, step)[1]
=============================================================================

\* The cipher and key derivation against their reference definitions, every
\* input of up to 3 bytes from {0, 1, 170, 255}:
\*   a shiftBlock call split in two, and decrypting what was encrypted;
\*   fnv1a_32 in 16-bit limbs against byte-wise arithmetic and the test vectors.
CONSTANTS
    Bases = {0, 1, 100, 255}
    Steps = {0, 1, 230, 255}
    DataBytes = {0, 1, 170, 255}
    MaxLen = 3
SPECIFICATION Spec
INVARIANT KeystreamContinues
INVARIANT FnvMatchesReference
\* Every state has a successor; deadlock cannot occur and is still checked.

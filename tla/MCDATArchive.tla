---------------------------- MODULE MCDATArchive ----------------------------
(* Model-checking instance of DATArchive: two paths, one of them in a     *)
(* sub-directory, and the real master key of ArchiveEncryption.hpp.      *)
EXTENDS DATArchive

\* "a" and "b/c"
MCPaths == { <<97>>, <<98, 47, 99>> }

\* "Sonic The Hedgehog"
MCMasterKey == <<83, 111, 110, 105, 99, 32, 84, 104, 101, 32,
                 72, 101, 100, 103, 101, 104, 111, 103>>

\* getKeyHashHeaderLegacy on a non-MSVC build hashes with fnv1a_32 too.
MCLegacyHeaderKey == KeyHashHeader(Fnv1a32(MCMasterKey))
=============================================================================

------------------------- MODULE MCArchiveReaderLock -------------------------
(***************************************************************************)
(* Instantiates ArchiveReaderLock for TLC with the archive of spec 8,     *)
(* scenario 4 (a/b/c.txt, a/b/d.txt) plus a top-level file e, so that the *)
(* synthetic directories a/ and a/b/ exist and an enumerator of the root  *)
(* or of a/ lists files and directories, directly or recursively.         *)
(***************************************************************************)
EXTENDS ArchiveReaderLock

CONSTANTS a, b, c, d, e

MCEntries == {<<a, b, c>>, <<a, b, d>>, <<e>>}

\* The root ("") and "a" (normalised to a/).
MCDirs == {<<>>, <<a>>}

=============================================================================

--------------------------- MODULE MCReaderSession ---------------------------
(* ReaderSession on the small instances that TLC checks.                   *)
EXTENDS ReaderSession, TLC

Perms == Permutations(Readers)
=============================================================================

------------------------- MODULE MCDiasporaTransport -------------------------
(* DiasporaTransport on the small instance that TLC checks.                *)
EXTENDS DiasporaTransport, TLC

Symmetric == Permutations(Readers) \cup Permutations(Paths)

\* Values a .cfg cannot spell: a selection with a hole, and a write in it.
MCSpans  == {{0, 2}}
MCWrites == {{0, 1}}
=============================================================================

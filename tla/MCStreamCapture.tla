--------------------------- MODULE MCStreamCapture ---------------------------
EXTENDS StreamCapture, TLC

CONSTANTS d1, a1

MCOwner  == (a1 :> d1)
Symmetric == Permutations(Reqs)
=============================================================================

--------------------------- MODULE MCParallelCommit ---------------------------
(* ParallelCommit on the small instances that TLC checks.                  *)
EXTENDS ParallelCommit, TLC

CONSTANTS p1, p2

Cr(p) == [kind |-> "create", path |-> p]
At(p) == [kind |-> "attr", path |-> p]
Wr(p) == [kind |-> "write", path |-> p]

\* A rank writes nothing; writes two datasets; makes one of them, with an
\* attribute, and keeps it open.
MCPrograms ==
    {[entries |-> <<>>, open |-> FALSE],
     [entries |-> <<Cr(p2), Cr(p1), Wr(p2), Wr(p1)>>, open |-> FALSE],
     [entries |-> <<Cr(p1), At(p1)>>, open |-> TRUE]}
\* All ranks set the policy, or the last one does not.
MCSetOn == {Ranks, Ranks \ {N - 1}}
=============================================================================

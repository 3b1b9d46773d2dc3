------------------------------- MODULE StepLog -------------------------------
(***************************************************************************)
(* What a reader of a committed stream is promised, without steps, copies, *)
(* indexes or dictionaries: the stream is a log of states that only grows, *)
(* the reader works on the prefix it found when it first looked, moves     *)
(* through it one entry at a time or to the last entry with a logical id,  *)
(* and sees the state that entry recorded.                                 *)
(*                                                                         *)
(* An entry is marked exact when every step up to it either rewrote the    *)
(* dataset, appended to it or left it alone. Of other entries the stream   *)
(* keeps the values of the step and may lose older ones, so nothing is     *)
(* promised here of what is seen at them.                                  *)
(***************************************************************************)
EXTENDS Integers, Sequences

CONSTANT Nowhere        \* the cursor, or the prefix, before the first look

VARIABLES
    log,      \* entries [ids, data, attr, exact]; step k is log[k + 1]
    known,    \* length of the prefix the reader works on, or Nowhere
    pos,      \* the reader's step, or Nowhere
    got       \* what the reader's last call returned, if anything

vars == <<log, known, pos, got>>

Init == log = <<>> /\ known = Nowhere /\ pos = Nowhere /\ got = Nowhere

\* The log grows at its end; what came after an inexact entry is not exact.
Commit ==
    /\ Len(log') = Len(log) + 1
    /\ SubSeq(log', 1, Len(log)) = log
    /\ log'[Len(log) + 1].exact => \A i \in DOMAIN log : log[i].exact
    /\ UNCHANGED <<known, pos, got>>

\* The prefix is fixed by the first look, whether or not that finds a step.
Look == known' = IF known = Nowhere THEN Len(log) ELSE known

Next1 ==
    /\ Look
    /\ pos' = IF pos = Nowhere THEN 0 ELSE pos + 1
    /\ pos' < known'
    /\ got' = Nowhere
    /\ UNCHANGED log

Seek ==
    /\ Look
    /\ pos' \in 0 .. known' - 1
    /\ \E id \in log[pos' + 1].ids :
         \A k \in pos' + 1 .. known' - 1 : id \notin log[k + 1].ids
    /\ got' = Nowhere
    /\ UNCHANGED log

NotFound == Look /\ got' = Nowhere /\ UNCHANGED <<log, pos>>

\* Reading at the cursor shows the state of the step it is on.
Read ==
    /\ pos # Nowhere
    /\ got' # Nowhere /\ got'.what = "data"
    /\ log[pos + 1].exact => got'.val = log[pos + 1].data
    /\ UNCHANGED <<log, known, pos>>

ReadAttr ==
    /\ pos # Nowhere
    /\ got' = [what |-> "attr", val |-> log[pos + 1].attr]
    /\ UNCHANGED <<log, known, pos>>

\* Ascending, without repetition, and nothing outside the prefix.
List ==
    /\ Look
    /\ got' # Nowhere /\ got'.what = "ids"
    /\ \A i, j \in DOMAIN got'.val : i < j => got'.val[i] < got'.val[j]
    /\ \A i \in DOMAIN got'.val :
         \E k \in 1 .. known' : got'.val[i] \in log[k].ids
    /\ UNCHANGED <<log, pos>>

Reopen ==
    /\ known' = Nowhere /\ pos' = Nowhere /\ got' = Nowhere
    /\ UNCHANGED log

Next == Commit \/ Next1 \/ Seek \/ NotFound \/ Read \/ ReadAttr \/ List \/ Reopen
Spec == Init /\ [][Next]_vars
=============================================================================

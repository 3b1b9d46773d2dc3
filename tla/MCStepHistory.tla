---------------------------- MODULE MCStepHistory ----------------------------
(* StepHistory on the small instances that TLC checks.                     *)
EXTENDS StepHistory, TLC

\* A restart writes logical step 8 again, or it does not; step 7 follows.
MCIdChoices == [k \in 0 .. MaxSteps - 1 |->
                  IF k = 0 THEN {{8}} ELSE IF k = 1 THEN {{7}, {7, 8}} ELSE {{7}}]
=============================================================================

--------------------------- MODULE MCAlarmEvaluation ---------------------------
(* AlarmEvaluation on small sets, for TLC. *)
EXTENDS AlarmEvaluation, TLC

\* No action and no safety property tells two workers, two requests, two stamps
\* or two states apart.
Interchangeable ==
    Permutations(Workers) \cup Permutations(Clients) \cup Permutations(Stamps)
        \cup Permutations(States)
================================================================================

---- MODULE MCDialplan ----
\* Two processes, two names, and routes whose ids are never given twice.
EXTENDS Dialplan, TLC

Symmetry == Permutations(Processes) \cup Permutations(Names)
====

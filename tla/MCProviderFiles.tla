---- MODULE MCProviderFiles ----
\* Two processes and two names; a name may be given to a second row.
EXTENDS ProviderFiles, TLC

Symmetry == Permutations(Processes)
====

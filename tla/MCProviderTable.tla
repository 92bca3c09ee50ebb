---- MODULE MCProviderTable ----
\* One origin, one final, and two intermediates of different capacity.
EXTENDS ProviderTable, TLC

CONSTANTS o, i, j, f

Capacities == o :> 1 @@ i :> 1 @@ j :> 2 @@ f :> 1
====

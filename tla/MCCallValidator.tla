-------------------------- MODULE MCCallValidator --------------------------
(* Small instances of CallValidator for TLC: the limits keep their order   *)
(* (AttemptLimit + 1 passes before RingLimit before KeepLimit).            *)
EXTENDS CallValidator

ASSUME MCAssumption == AttemptLimit < RingLimit /\ RingLimit < KeepLimit
=============================================================================

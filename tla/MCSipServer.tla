---------------------------- MODULE MCSipServer ----------------------------
(* Small instances of SipServer for TLC. *)
EXTENDS SipServer, TLC

MCSymmetry == Permutations(Numbers) \cup Permutations(CallIds)
=============================================================================

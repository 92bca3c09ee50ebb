------------------------------ MODULE DidPool ------------------------------
(***************************************************************************)
(* What the pool of DIDs promises to a call, whoever hands the DIDs out:   *)
(* the SIP server (module SipServer) or the route handler that FreeSWITCH  *)
(* runs (module RouteHandler).  A call goes to the intermediate provider   *)
(* under a DID and is recognised by that DID when it comes back, so a DID  *)
(* that is out with one call is not given to another.                      *)
(*                                                                         *)
(* An implementation keeps the promise until something it does not guard   *)
(* against has happened; from then on broken is TRUE and it promises       *)
(* nothing.  Which events break it is said by each implementation.         *)
(***************************************************************************)
CONSTANTS Dids, Calls

VARIABLES
  out,      \* the DIDs that are out, and the call each one stands for
  broken

Lease == [call : Calls, did : Dids]

PoolInit == out = {} /\ broken = FALSE

(* A call goes out under a DID that no other call is out with. *)
Take(c, d) ==
  /\ \A w \in out : w.did # d /\ w.call # c
  /\ out' = out \cup {[call |-> c, did |-> d]}

(* Calls come back, are dropped, or are forgotten. *)
GiveBack == out' \in SUBSET out

Keep == \E c \in Calls, d \in Dids : Take(c, d)

Break == broken' = TRUE /\ out' \in SUBSET Lease

PoolNext ==
  \/ ~broken /\ broken' = FALSE /\ (Keep \/ GiveBack)
  \/ Break

PoolSpec == PoolInit /\ [][PoolNext]_<<out, broken>>

-----------------------------------------------------------------------------

(* What this is for: a pool that keeps its promise has no two calls out    *)
(* under one DID, and no call out under two.                               *)
PoolExclusive ==
  ~broken => \A v, w \in out : (v.did = w.did \/ v.call = w.call) => v = w
=============================================================================

---------------------------- MODULE RouteHandler ----------------------------
(***************************************************************************)
(* route_handler_corrected.lua, the script the generated dialplan runs for *)
(* every call, as src/freeswitch/fs_generate_module2_dialplan.c writes it. *)
(*                                                                         *)
(* FreeSWITCH runs one copy of the script per session, all at once, each   *)
(* with a database connection of its own.  The session of a call from S1   *)
(* (stage "origin") selects a free DID, marks it with the call's numbers   *)
(* and bridges to S3 under that DID.  S3 brings the call back in a second  *)
(* session (stage "intermediate_return"), which reads the numbers kept     *)
(* with the DID, releases the DID and bridges to S4 with those numbers.    *)
(* Every query is a transaction of its own.                                *)
(*                                                                         *)
(* Abstractions.  A call stands for its ANI-1, DNIS-1 and uuid, which are  *)
(* written, read and cleared together.  The DIDs are those of the          *)
(* intermediate provider of one route.  S3, the network and FreeSWITCH     *)
(* are outside the repository: S3 may bring a call back, drop it or bring  *)
(* it back again, and FreeSWITCH may end with all its sessions.            *)
(***************************************************************************)
EXTENDS Naturals

CONSTANTS
  Dids,          \* active DIDs of the intermediate provider
  Calls,         \* calls S1 places
  None,          \* no call: the DID is free; or no DID
  MaxFailures,   \* bound: queries that fail
  MaxDrops,      \* bound: calls S3 does not bring back
  MaxRepeats,    \* bound: times S3 brings back a call it has brought back
  MaxEdits,      \* bound: DIDs released by an operator
  MaxCrashes     \* bound: ends of the FreeSWITCH process

ASSUME RouteHandlerAssumption ==
  /\ None \notin Calls /\ None \notin Dids
  /\ MaxFailures \in Nat /\ MaxDrops \in Nat /\ MaxRepeats \in Nat
  /\ MaxEdits \in Nat /\ MaxCrashes \in Nat

VARIABLES
  row,        \* table dids: the call each DID is marked with
  stage,      \* where the origin session of each call is
  picked,     \* allocated_did, the DID it has selected
  legs,       \* calls at S3, with the DID they went out under
  returning,  \* return sessions that have read the numbers of a DID
  forwarded,  \* history: return sessions that went on to S4
  lost,       \* history: calls whose DID nobody will return
  causes,     \* history: what has gone wrong with the pool so far
  failures, drops, edits, crashes

env  == <<drops, edits, crashes>>
vars == <<row, stage, picked, legs, returning, forwarded, lost, causes,
          failures, drops, edits, crashes>>

-----------------------------------------------------------------------------

Leg    == [call : Calls, did : Dids, try : 1 .. MaxRepeats + 1]
Return == [leg : Leg, numbers : Calls]
Cause  == {"overlap", "lost mark", "brought back twice", "operator"}

TypeOK ==
  /\ row \in [Dids -> Calls \cup {None}]
  /\ stage \in [Calls -> {"new", "mark", "bridge", "out", "over"}]
  /\ picked \in [Calls -> Dids \cup {None}]
  /\ \A c \in Calls : stage[c] \in {"mark", "bridge"} => picked[c] \in Dids
  /\ legs \subseteq Leg /\ returning \subseteq Return /\ forwarded \subseteq Return
  /\ lost \subseteq Calls /\ causes \subseteq Cause
  /\ failures \in 0 .. MaxFailures /\ drops \in 0 .. MaxDrops
  /\ edits \in 0 .. MaxEdits /\ crashes \in 0 .. MaxCrashes

-----------------------------------------------------------------------------
(* Slips one could make in the helpers below, each with the helper's name  *)
(* first.  No specification uses them: put in place of the helper, each    *)
(* breaks one of the properties at the end of this module.                 *)

Released_Deleted(d) == [e \in Dids \ {d} |-> row[e]]
Released_Nothing(d) == row
Released_All(d) == [e \in Dids |-> None]
Mapped_AnyRow(d, c) == \E e \in Dids : row[e] = c

-----------------------------------------------------------------------------
(* Helpers *)

(* dbh:query runs the statement, or fails without telling its caller. *)
Query(ok) ==
  /\ ok \/ failures < MaxFailures
  /\ failures' = IF ok THEN failures ELSE failures + 1

(* WHERE in_use = false AND active = true ... ORDER BY RANDOM() LIMIT 1 *)
Available == {d \in Dids : row[d] = None}

(* UPDATE dids SET in_use = true, destination, original_ani ... WHERE id = d *)
Marked(d, c) == [row EXCEPT ![d] = c]

(* UPDATE dids SET in_use = false, destination = NULL ... WHERE did = d *)
Released(d) == [row EXCEPT ![d] = None]

(* SELECT destination, original_ani FROM dids WHERE did = d AND in_use *)
Mapped(d, c) == row[d] = c

Blame(cause, yes) == causes' = IF yes THEN causes \cup {cause} ELSE causes

-----------------------------------------------------------------------------

Init ==
  /\ row = [d \in Dids |-> None]
  /\ stage = [c \in Calls |-> "new"]
  /\ picked = [c \in Calls |-> None]
  /\ legs = {} /\ returning = {} /\ forwarded = {}
  /\ lost = {} /\ causes = {}
  /\ failures = 0 /\ drops = 0 /\ edits = 0 /\ crashes = 0

-----------------------------------------------------------------------------
(* Stage "origin" *)

(* The look-up of the provider and the SELECT of allocate_did.  A look-up  *)
(* that fails leaves provider 0, which has no DID.                         *)
SelectDid(c) ==
  /\ stage[c] = "new"
  /\ \E d \in Available :
       /\ picked' = [picked EXCEPT ![c] = d]
       /\ stage' = [stage EXCEPT ![c] = "mark"]
  /\ UNCHANGED <<row, legs, returning, forwarded, lost, causes, failures, env>>

NoAvailableDid(c) ==
  /\ stage[c] = "new"
  /\ \E ok \in BOOLEAN : Query(ok) /\ (ok => Available = {})
  /\ stage' = [stage EXCEPT ![c] = "over"]
  /\ UNCHANGED <<row, picked, legs, returning, forwarded, lost, causes, env>>

(* The UPDATE of allocate_did does not ask whether the DID is still free. *)
MarkDid(c) ==
  /\ stage[c] = "mark"
  /\ \E ok \in BOOLEAN :
       /\ Query(ok)
       /\ row' = IF ok THEN Marked(picked[c], c) ELSE row
       /\ causes' = causes
            \cup (IF ok THEN {} ELSE {"lost mark"})
            \cup (IF row[picked[c]] = None THEN {} ELSE {"overlap"})
  /\ stage' = [stage EXCEPT ![c] = "bridge"]
  /\ UNCHANGED <<picked, legs, returning, forwarded, lost, env>>

(* session:execute("bridge", "sofia/gateway/<S3>/<DID>") *)
BridgeToIntermediate(c) ==
  /\ stage[c] = "bridge"
  /\ legs' = legs \cup {[call |-> c, did |-> picked[c], try |-> 1]}
  /\ stage' = [stage EXCEPT ![c] = "out"]
  /\ UNCHANGED <<row, picked, returning, forwarded, lost, causes, failures, env>>

-----------------------------------------------------------------------------
(* Stage "intermediate_return" *)

(* S3 is done with a leg that comes back; it may also bring it back again. *)
Leaves(leg) ==
  \/ legs' = legs \ {leg} /\ UNCHANGED causes
  \/ /\ leg.try <= MaxRepeats
     /\ legs' = (legs \ {leg}) \cup {[leg EXCEPT !.try = @ + 1]}
     /\ Blame("brought back twice", TRUE)

FindOriginal(leg) ==
  /\ leg \in legs
  /\ Leaves(leg)
  /\ \E c \in Calls :
       /\ Mapped(leg.did, c)
       /\ returning' = returning \cup {[leg |-> leg, numbers |-> c]}
  /\ UNCHANGED <<row, stage, picked, forwarded, lost, failures, env>>

(* "No mapping found for DID": also what a failed query looks like. *)
NoMapping(leg) ==
  /\ leg \in legs
  /\ Leaves(leg)
  /\ \E ok \in BOOLEAN :
       /\ Query(ok)
       /\ ok => \A c \in Calls : ~Mapped(leg.did, c)
       /\ lost' = IF ok THEN lost ELSE lost \cup {leg.call}
  /\ UNCHANGED <<row, stage, picked, returning, forwarded, env>>

(* release_did, then the bridge to S4 with the numbers just read *)
ReleaseAndForward(r) ==
  /\ r \in returning
  /\ returning' = returning \ {r}
  /\ forwarded' = forwarded \cup {r}
  /\ \E ok \in BOOLEAN :
       /\ Query(ok)
       /\ row' = IF ok THEN Released(r.leg.did) ELSE row
       /\ lost' = IF ok THEN lost ELSE lost \cup {r.leg.call}
  /\ UNCHANGED <<stage, picked, legs, causes, env>>

-----------------------------------------------------------------------------
(* What surrounds the sessions *)

(* The bridge fails, the caller gives up or S3 never calls back: the       *)
(* origin session ends after its bridge and leaves the DID marked.         *)
Drop(leg) ==
  /\ leg \in legs /\ drops < MaxDrops
  /\ drops' = drops + 1
  /\ legs' = legs \ {leg}
  /\ lost' = lost \cup {leg.call}
  /\ UNCHANGED <<row, stage, picked, returning, forwarded, causes, failures,
                 edits, crashes>>

(* did release <number> *)
OperatorRelease(d) ==
  /\ edits < MaxEdits
  /\ edits' = edits + 1
  /\ row' = Released(d)
  /\ Blame("operator", row[d] # None)
  /\ UNCHANGED <<stage, picked, legs, returning, forwarded, lost, failures,
                 drops, crashes>>

(* FreeSWITCH ends; calls that are at S3 may still come back later. *)
Crash ==
  /\ crashes < MaxCrashes
  /\ crashes' = crashes + 1
  /\ stage' = [c \in Calls |-> IF stage[c] \in {"mark", "bridge"} THEN "over" ELSE stage[c]]
  /\ lost' = lost \cup {c \in Calls : stage[c] = "bridge"}
                  \cup {r.leg.call : r \in returning}
  /\ returning' = {}
  /\ UNCHANGED <<row, picked, legs, forwarded, causes, failures, drops, edits>>

-----------------------------------------------------------------------------

Origin(c) ==
  SelectDid(c) \/ NoAvailableDid(c) \/ MarkDid(c) \/ BridgeToIntermediate(c)

BroughtBack(leg) == FindOriginal(leg) \/ NoMapping(leg)

Next ==
  \/ \E c \in Calls : Origin(c)
  \/ \E leg \in legs : BroughtBack(leg) \/ Drop(leg)
  \/ \E r \in returning : ReleaseAndForward(r)
  \/ \E d \in Dids : OperatorRelease(d)
  \/ Crash

Spec == Init /\ [][Next]_vars

(* Sessions run to their end, and S3 sends every call it has somewhere. *)
FairSpec ==
  /\ Spec
  /\ \A c \in Calls : WF_vars(Origin(c))
  /\ WF_vars(\E leg \in legs : BroughtBack(leg) \/ Drop(leg))
  /\ WF_vars(\E r \in returning : ReleaseAndForward(r))

-----------------------------------------------------------------------------
(* Properties *)

(* "Restored ANI-1, DNIS-1": a call that comes back goes on to S4 with the *)
(* numbers of the call that went out.                                      *)
RestoredIsOriginal ==
  \A r \in returning \cup forwarded : r.numbers = r.leg.call

(* That holds as long as none of four things has happened: two sessions    *)
(* that selected the same free DID, an UPDATE that failed unnoticed, a     *)
(* call that S3 brought back twice, a DID in use released by an operator.  *)
(* Dropped calls, failed releases, failed look-ups and the end of          *)
(* FreeSWITCH in the middle of any session do not harm it.                 *)
RestoredUnlessCaused == causes = {} => RestoredIsOriginal

(* A DID marked as in use is accounted for: its call is about to go out,   *)
(* is at S3, is about to give the DID back, or was lost on one of the      *)
(* known ways.  No path through the script forgets a DID.                  *)
InProgress(c, d) ==
  \/ stage[c] = "bridge" /\ picked[c] = d
  \/ \E leg \in legs : leg.call = c /\ leg.did = d
  \/ \E r \in returning : r.leg.call = c /\ r.leg.did = d

MarkedIsAccountedFor ==
  causes = {} =>
    \A d \in Dids, c \in Calls : row[d] = c => InProgress(c, d) \/ c \in lost

(* A call that came back finds its DID still marked and is not rejected,   *)
(* as long as none of the four things has happened.                        *)
LegKeepsItsRow ==
  causes = {} => \A leg \in legs : row[leg.did] = leg.call

(* release_did clears whatever the row of the dialled DID holds.  Still a  *)
(* DID in use is released only by the return of the call it stands for,    *)
(* and is never marked again before, until one of the four things.         *)
ReleasedByItsCall ==
  [][causes' = {} =>
       \A d \in Dids : row[d] # None /\ row'[d] # row[d] =>
         /\ row'[d] = None
         /\ \E r \in returning \ returning' : r.leg.did = d /\ r.leg.call = row[d]]_vars

(* The handler implements the abstract pool until one of the causes.       *)
Out ==
  {[call |-> c, did |-> picked[c]] : c \in {c \in Calls : stage[c] = "bridge"}}
    \cup {[call |-> leg.call, did |-> leg.did] : leg \in legs}
    \cup {[call |-> r.leg.call, did |-> r.leg.did] : r \in returning}

Pool == INSTANCE DidPool WITH out <- Out, broken <- (causes # {})

PoolKept == Pool!PoolSpec

(* Allocation is not all the pool is for: when calls cease, the only DIDs  *)
(* still in use are those of calls that were lost.                         *)
PoolRefills == <>[](\A d \in Dids : row[d] \in lost \cup {None})
=============================================================================

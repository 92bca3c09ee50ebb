------------------------- MODULE RouteHandlerProofs -------------------------
(***************************************************************************)
(* Proofs about RouteHandler, for every set of DIDs and calls and every    *)
(* bound.                                                                  *)
(***************************************************************************)
EXTENDS RouteHandler, TLAPS

USE RouteHandlerAssumption

-----------------------------------------------------------------------------
(* Types *)

LEMMA QueryTyped ==
  ASSUME failures \in 0 .. MaxFailures, NEW ok, Query(ok)
  PROVE  failures' \in 0 .. MaxFailures
BY DEF Query

LEMMA LeavesTyped ==
  ASSUME legs \subseteq Leg, causes \subseteq Cause, NEW leg \in legs, Leaves(leg)
  PROVE  legs' \subseteq Leg /\ causes' \subseteq Cause
<1>1. leg.try \in 1 .. MaxRepeats + 1
  BY DEF Leg
<1>2. CASE leg.try <= MaxRepeats /\ legs' = (legs \ {leg}) \cup {[leg EXCEPT !.try = @ + 1]}
  <2>1. leg.try + 1 \in 1 .. MaxRepeats + 1
    BY <1>1, <1>2
  <2>2. [leg EXCEPT !.try = @ + 1] \in Leg
    BY <2>1 DEF Leg
  <2> QED
    BY <1>2, <2>2 DEF Leaves, Blame, Cause
<1> QED
  BY <1>2 DEF Leaves, Blame, Cause

(* Every variable keeps its type, and a session that is about to mark or   *)
(* bridge has selected a DID.                                              *)
THEOREM TypeCorrect == Spec => []TypeOK
<1>1. Init => TypeOK
  BY DEF Init, TypeOK
<1>2. TypeOK /\ [Next]_vars => TypeOK'
  <2> SUFFICES ASSUME TypeOK, [Next]_vars PROVE TypeOK'
    OBVIOUS
  <2> USE DEF TypeOK
  <2>1. ASSUME NEW c \in Calls, SelectDid(c) PROVE TypeOK'
    BY <2>1 DEF SelectDid, Available, env
  <2>2. ASSUME NEW c \in Calls, NoAvailableDid(c) PROVE TypeOK'
    BY <2>2, QueryTyped DEF NoAvailableDid, env
  <2>3. ASSUME NEW c \in Calls, MarkDid(c) PROVE TypeOK'
    <3>1. PICK ok \in BOOLEAN :
            /\ Query(ok)
            /\ row' = IF ok THEN Marked(picked[c], c) ELSE row
      BY <2>3 DEF MarkDid
    <3>2. row' \in [Dids -> Calls \cup {None}]
      BY <3>1 DEF Marked
    <3>3. causes' \subseteq Cause
      BY <2>3 DEF MarkDid, Cause
    <3>4. failures' \in 0 .. MaxFailures
      BY <3>1, QueryTyped
    <3> QED
      BY <2>3, <3>2, <3>3, <3>4 DEF MarkDid, env
  <2>4. ASSUME NEW c \in Calls, BridgeToIntermediate(c) PROVE TypeOK'
    <3>1. [call |-> c, did |-> picked[c], try |-> 1] \in Leg
      BY <2>4 DEF BridgeToIntermediate, Leg
    <3> QED
      BY <2>4, <3>1 DEF BridgeToIntermediate, env
  <2>5. ASSUME NEW leg \in legs, FindOriginal(leg) PROVE TypeOK'
    <3>1. returning' \subseteq Return
      BY <2>5 DEF FindOriginal, Return
    <3> QED
      BY <2>5, <3>1, LeavesTyped DEF FindOriginal, env
  <2>6. ASSUME NEW leg \in legs, NoMapping(leg) PROVE TypeOK'
    <3>1. lost' \subseteq Calls
      BY <2>6 DEF NoMapping, Leg
    <3> QED
      BY <2>6, <3>1, LeavesTyped, QueryTyped DEF NoMapping, env
  <2>7. ASSUME NEW leg \in legs, Drop(leg) PROVE TypeOK'
    BY <2>7 DEF Drop, Leg
  <2>8. ASSUME NEW r \in returning, ReleaseAndForward(r) PROVE TypeOK'
    <3>1. PICK ok \in BOOLEAN :
            /\ Query(ok)
            /\ row' = IF ok THEN Released(r.leg.did) ELSE row
            /\ lost' = IF ok THEN lost ELSE lost \cup {r.leg.call}
      BY <2>8 DEF ReleaseAndForward
    <3>2. row' \in [Dids -> Calls \cup {None}]
      BY <3>1 DEF Released
    <3>3. lost' \subseteq Calls
      BY <3>1 DEF Return, Leg
    <3>4. failures' \in 0 .. MaxFailures
      BY <3>1, QueryTyped
    <3> QED
      BY <2>8, <3>2, <3>3, <3>4 DEF ReleaseAndForward, env
  <2>9. ASSUME NEW d \in Dids, OperatorRelease(d) PROVE TypeOK'
    <3>1. row' \in [Dids -> Calls \cup {None}]
      BY <2>9 DEF OperatorRelease, Released
    <3>2. causes' \subseteq Cause
      BY <2>9 DEF OperatorRelease, Blame, Cause
    <3>3. edits' \in 0 .. MaxEdits
      BY <2>9 DEF OperatorRelease
    <3> QED
      BY <2>9, <3>1, <3>2, <3>3 DEF OperatorRelease
  <2>10. CASE Crash
    <3>1. lost' \subseteq Calls
      BY <2>10 DEF Crash, Return, Leg
    <3>2. stage' \in [Calls -> {"new", "mark", "bridge", "out", "over"}]
      BY <2>10 DEF Crash
    <3> QED
      BY <2>10, <3>1, <3>2 DEF Crash
  <2>11. CASE UNCHANGED vars
    BY <2>11 DEF vars
  <2> QED
    BY <2>1, <2>2, <2>3, <2>4, <2>5, <2>6, <2>7, <2>8, <2>9, <2>10, <2>11
       DEF Next, Origin, BroughtBack
<1> QED
  BY <1>1, <1>2, PTL DEF Spec

-----------------------------------------------------------------------------
(* Why a call is forwarded with its own numbers.                           *)
(*                                                                         *)
(* While nothing has gone wrong, whoever holds a DID finds its own call    *)
(* marked there, and a call is in one place at a time, so that a release   *)
(* clears the row of the call that returned and of no other.               *)

RowsHeld ==
  /\ \A c \in Calls : stage[c] = "bridge" => row[picked[c]] = c
  /\ \A leg \in legs : row[leg.did] = leg.call
  /\ \A r \in returning : row[r.leg.did] = r.leg.call

OnePlace ==
  /\ \A leg \in legs : stage[leg.call] = "out"
  /\ \A r \in returning : stage[r.leg.call] = "out"
  /\ \A k, l \in legs : k.call = l.call => k = l
  /\ \A q, r \in returning : q.leg.call = r.leg.call => q = r
  /\ \A leg \in legs, r \in returning : leg.call # r.leg.call

Safe == RowsHeld /\ OnePlace /\ RestoredIsOriginal

SafeInv == causes = {} => Safe

(* Nothing undoes a cause. *)
LEMMA CausesGrow == [Next]_vars => causes \subseteq causes'
BY DEF Next, Origin, BroughtBack, SelectDid, NoAvailableDid, MarkDid,
   BridgeToIntermediate, FindOriginal, NoMapping, Leaves, Blame, ReleaseAndForward,
   Drop, OperatorRelease, Crash, vars

(* As long as none of the causes has happened, no session, operator or     *)
(* crash makes the pool unsafe.                                            *)
LEMMA SafeStep == TypeOK /\ SafeInv /\ [Next]_vars => SafeInv'
<1> SUFFICES ASSUME TypeOK, SafeInv, [Next]_vars, causes' = {} PROVE Safe'
  BY DEF SafeInv
<1>n. causes = {}
  BY CausesGrow
<1>s. RowsHeld /\ OnePlace /\ RestoredIsOriginal
  BY <1>n DEF SafeInv, Safe
<1>t. /\ row \in [Dids -> Calls \cup {None}]
      /\ stage \in [Calls -> {"new", "mark", "bridge", "out", "over"}]
      /\ picked \in [Calls -> Dids \cup {None}]
      /\ \A c \in Calls : stage[c] \in {"mark", "bridge"} => picked[c] \in Dids
      /\ \A leg \in legs : leg.call \in Calls /\ leg.did \in Dids
      /\ \A r \in returning : r.leg.call \in Calls /\ r.leg.did \in Dids
  BY DEF TypeOK, Leg, Return
<1>1. ASSUME NEW c \in Calls, SelectDid(c) \/ NoAvailableDid(c) PROVE Safe'
  <2>1. /\ UNCHANGED <<row, legs, returning, forwarded>>
        /\ stage[c] = "new" /\ stage'[c] # "bridge"
        /\ \A b \in Calls \ {c} : stage'[b] = stage[b] /\ picked'[b] = picked[b]
    BY <1>1, <1>t DEF SelectDid, NoAvailableDid
  <2> QED
    BY <2>1, <1>s, <1>t DEF Safe, RowsHeld, OnePlace, RestoredIsOriginal
<1>2. ASSUME NEW c \in Calls, MarkDid(c) PROVE Safe'
  <2>1. /\ row' = [row EXCEPT ![picked[c]] = c] /\ row[picked[c]] = None
        /\ stage[c] = "mark" /\ stage' = [stage EXCEPT ![c] = "bridge"]
        /\ UNCHANGED <<picked, legs, returning, forwarded>>
    BY <1>2 DEF MarkDid, Marked
  <2>2. picked[c] \in Dids
    BY <2>1, <1>t
  <2>3. \A d \in Dids : row[d] # None => row'[d] = row[d]
    BY <2>1, <2>2, <1>t
  <2>4. RowsHeld'
    BY <2>1, <2>2, <2>3, <1>s, <1>t DEF RowsHeld
  <2> QED
    BY <2>1, <2>4, <1>s, <1>t DEF Safe, OnePlace, RestoredIsOriginal
<1>3. ASSUME NEW c \in Calls, BridgeToIntermediate(c) PROVE Safe'
  <2> DEFINE new == [call |-> c, did |-> picked[c], try |-> 1]
  <2>1. /\ stage[c] = "bridge" /\ stage' = [stage EXCEPT ![c] = "out"]
        /\ legs' = legs \cup {new}
        /\ UNCHANGED <<row, picked, returning, forwarded>>
    BY <1>3 DEF BridgeToIntermediate
  <2>2. \A leg \in legs : leg.call # c
    BY <2>1, <1>s DEF OnePlace
  <2>3. \A r \in returning : r.leg.call # c
    BY <2>1, <1>s DEF OnePlace
  <2>4. new.call = c /\ new.did = picked[c]
    OBVIOUS
  <2> HIDE DEF new
  <2>5. RowsHeld'
    BY <2>1, <2>4, <1>s, <1>t DEF RowsHeld
  <2>6. OnePlace'
    BY <2>1, <2>2, <2>3, <2>4, <1>s, <1>t DEF OnePlace
  <2> QED
    BY <2>1, <2>5, <2>6, <1>s DEF Safe, RestoredIsOriginal
<1>4. ASSUME NEW leg \in legs, FindOriginal(leg) PROVE Safe'
  <2>1. PICK n \in Calls :
          /\ row[leg.did] = n
          /\ returning' = returning \cup {[leg |-> leg, numbers |-> n]}
    BY <1>4 DEF FindOriginal, Mapped
  <2>2. legs' = legs \ {leg} /\ UNCHANGED <<row, stage, picked, forwarded>>
    BY <1>4 DEF FindOriginal, Leaves, Blame
  <2>3. n = leg.call
    BY <2>1, <1>s DEF RowsHeld
  <2> DEFINE new == [leg |-> leg, numbers |-> n]
  <2>4. new.leg = leg /\ new.numbers = leg.call
    BY <2>3
  <2>5. returning' = returning \cup {new}
    BY <2>1
  <2> HIDE DEF new
  <2>6. RowsHeld'
    BY <2>2, <2>4, <2>5, <1>s DEF RowsHeld
  <2>7. OnePlace'
    BY <2>2, <2>4, <2>5, <1>s DEF OnePlace
  <2> QED
    BY <2>2, <2>4, <2>5, <2>6, <2>7, <1>s DEF Safe, RestoredIsOriginal
<1>5. ASSUME NEW leg \in legs, NoMapping(leg) \/ Drop(leg) PROVE Safe'
  <2>1. legs' \subseteq legs /\ UNCHANGED <<row, stage, picked, returning, forwarded>>
    BY <1>5 DEF NoMapping, Drop, Leaves, Blame
  <2> QED
    BY <2>1, <1>s DEF Safe, RowsHeld, OnePlace, RestoredIsOriginal
<1>6. ASSUME NEW r \in returning, ReleaseAndForward(r) PROVE Safe'
  <2>1. /\ returning' = returning \ {r} /\ forwarded' = forwarded \cup {r}
        /\ row' = row \/ row' = [row EXCEPT ![r.leg.did] = None]
        /\ UNCHANGED <<stage, picked, legs>>
    BY <1>6 DEF ReleaseAndForward, Released
  <2>2. \A d \in Dids : row[d] # r.leg.call => row'[d] = row[d]
    BY <2>1, <1>s, <1>t DEF RowsHeld
  <2>3. RowsHeld'
    <3>1. \A c \in Calls : stage[c] = "bridge" => c # r.leg.call
      BY <1>s DEF OnePlace
    <3>2. \A leg \in legs : leg.call # r.leg.call
      BY <1>s DEF OnePlace
    <3>3. \A q \in returning \ {r} : q.leg.call # r.leg.call
      BY <1>s DEF OnePlace
    <3> QED
      BY <2>1, <2>2, <3>1, <3>2, <3>3, <1>s, <1>t DEF RowsHeld
  <2> QED
    BY <2>1, <2>3, <1>s DEF Safe, OnePlace, RestoredIsOriginal
<1>7. ASSUME NEW d \in Dids, OperatorRelease(d) PROVE Safe'
  <2>1. row[d] = None /\ row' = [row EXCEPT ![d] = None]
    BY <1>7 DEF OperatorRelease, Released, Blame
  <2>2. row' = row /\ UNCHANGED <<stage, picked, legs, returning, forwarded>>
    BY <1>7, <2>1, <1>t DEF OperatorRelease
  <2> QED
    BY <2>2, <1>s DEF Safe, RowsHeld, OnePlace, RestoredIsOriginal
<1>8. CASE Crash
  <2>1. /\ UNCHANGED <<row, picked, legs, forwarded>> /\ returning' = {}
        /\ \A c \in Calls : stage'[c] = "over" \/ stage'[c] = stage[c]
        /\ \A c \in Calls : stage[c] = "out" => stage'[c] = "out"
    BY <1>8, <1>t DEF Crash
  <2> QED
    BY <2>1, <1>s, <1>t DEF Safe, RowsHeld, OnePlace, RestoredIsOriginal
<1>9. CASE UNCHANGED vars
  BY <1>9, <1>s DEF vars, Safe, RowsHeld, OnePlace, RestoredIsOriginal
<1> QED
  BY <1>1, <1>2, <1>3, <1>4, <1>5, <1>6, <1>7, <1>8, <1>9 DEF Next, Origin, BroughtBack

(* A call that comes back is forwarded with the numbers it went out with,  *)
(* and finds its DID still marked, unless one of the four causes happened: *)
(* for any number of concurrent sessions, drops, crashes and failed        *)
(* releases.                                                               *)
THEOREM Restored == Spec => []RestoredUnlessCaused
<1>1. Init => SafeInv
  BY DEF Init, SafeInv, Safe, RowsHeld, OnePlace, RestoredIsOriginal
<1>2. SafeInv => RestoredUnlessCaused
  BY DEF SafeInv, Safe, RestoredUnlessCaused
<1> QED
  BY <1>1, <1>2, SafeStep, TypeCorrect, PTL DEF Spec

(* The row of a call at S3 is not taken away or given to another. *)
THEOREM RowKept == Spec => []LegKeepsItsRow
<1>1. Init => SafeInv
  BY DEF Init, SafeInv, Safe, RowsHeld, OnePlace, RestoredIsOriginal
<1>2. SafeInv => LegKeepsItsRow
  BY DEF SafeInv, Safe, RowsHeld, LegKeepsItsRow
<1> QED
  BY <1>1, <1>2, SafeStep, TypeCorrect, PTL DEF Spec

(* Only MarkDid and ReleaseAndForward write a row when no operator does:   *)
(* the first takes a free one, the second that of the call that returned.  *)
LEMMA ReleaseStep ==
  ASSUME TypeOK, SafeInv, [Next]_vars, causes' = {},
         NEW d \in Dids, row[d] # None, row'[d] # row[d]
  PROVE  /\ row'[d] = None
         /\ \E r \in returning \ returning' : r.leg.did = d /\ r.leg.call = row[d]
<1>n. causes = {}
  BY CausesGrow
<1>s. RowsHeld
  BY <1>n DEF SafeInv, Safe
<1>t. row \in [Dids -> Calls \cup {None}]
  BY DEF TypeOK
<1>1. ASSUME NEW c \in Calls, MarkDid(c) PROVE FALSE
  <2>1. row' = row \/ row' = [row EXCEPT ![picked[c]] = c]
    BY <1>1 DEF MarkDid, Marked
  <2>2. row[picked[c]] = None
    BY <1>1 DEF MarkDid
  <2> QED
    BY <2>1, <2>2, <1>t
<1>2. ASSUME NEW e \in Dids, OperatorRelease(e) PROVE FALSE
  <2>1. row[e] = None /\ row' = [row EXCEPT ![e] = None]
    BY <1>2 DEF OperatorRelease, Released, Blame
  <2> QED
    BY <2>1, <1>t
<1>3. PICK r \in returning : ReleaseAndForward(r)
  BY <1>1, <1>2 DEF Next, Origin, BroughtBack, vars, SelectDid, NoAvailableDid,
     BridgeToIntermediate, FindOriginal, NoMapping, Drop, Crash
<1>4. returning' = returning \ {r} /\ row' = [row EXCEPT ![r.leg.did] = None]
  BY <1>3 DEF ReleaseAndForward, Released
<1>5. r.leg.did = d /\ row'[d] = None
  BY <1>4, <1>t
<1>6. row[r.leg.did] = r.leg.call
  BY <1>s DEF RowsHeld
<1> QED
  BY <1>4, <1>5, <1>6

(* Whatever sessions, drops, failures and crashes do: until a cause, a DID *)
(* in use changes hands only through the return of its own call.           *)
THEOREM ReturnsOnly == Spec => ReleasedByItsCall
<1>1. Init => SafeInv
  BY DEF Init, SafeInv, Safe, RowsHeld, OnePlace, RestoredIsOriginal
<1>2. TypeOK /\ SafeInv /\ [Next]_vars =>
        [causes' = {} =>
           \A d \in Dids : row[d] # None /\ row'[d] # row[d] =>
             /\ row'[d] = None
             /\ \E r \in returning \ returning' :
                  r.leg.did = d /\ r.leg.call = row[d]]_vars
  BY ReleaseStep
<1> QED
  BY <1>1, <1>2, SafeStep, TypeCorrect, PTL DEF Spec, ReleasedByItsCall

-----------------------------------------------------------------------------
(* Why no path through the script forgets a DID.                           *)

LEMMA AccountStep ==
  TypeOK /\ SafeInv /\ MarkedIsAccountedFor /\ [Next]_vars => MarkedIsAccountedFor'
<1> SUFFICES ASSUME TypeOK, SafeInv, MarkedIsAccountedFor, [Next]_vars, causes' = {},
                    NEW d \in Dids, NEW c \in Calls, row'[d] = c
             PROVE  InProgress(c, d)' \/ c \in lost'
  BY DEF MarkedIsAccountedFor
<1>n. causes = {}
  BY CausesGrow
<1>s. RowsHeld /\ OnePlace
  BY <1>n DEF SafeInv, Safe
<1>a. row[d] = c => InProgress(c, d) \/ c \in lost
  BY <1>n DEF MarkedIsAccountedFor
<1>t. /\ row \in [Dids -> Calls \cup {None}]
      /\ stage \in [Calls -> {"new", "mark", "bridge", "out", "over"}]
      /\ picked \in [Calls -> Dids \cup {None}]
      /\ \A r \in returning : r.leg.call \in Calls /\ r.leg.did \in Dids
  BY DEF TypeOK, Leg, Return
<1>1. ASSUME NEW b \in Calls, SelectDid(b) \/ NoAvailableDid(b)
      PROVE  InProgress(c, d)' \/ c \in lost'
  <2>1. /\ UNCHANGED <<row, legs, returning, lost>> /\ stage[b] = "new"
        /\ \A a \in Calls \ {b} : stage'[a] = stage[a] /\ picked'[a] = picked[a]
    BY <1>1, <1>t DEF SelectDid, NoAvailableDid
  <2> QED
    BY <2>1, <1>a, <1>t DEF InProgress
<1>2. ASSUME NEW b \in Calls, MarkDid(b) PROVE InProgress(c, d)' \/ c \in lost'
  <2>1. /\ row' = [row EXCEPT ![picked[b]] = b] /\ stage[b] = "mark"
        /\ stage' = [stage EXCEPT ![b] = "bridge"]
        /\ UNCHANGED <<picked, legs, returning, lost>>
    BY <1>2 DEF MarkDid, Marked
  <2>2. CASE d = picked[b]
    BY <2>1, <2>2, <1>t DEF InProgress
  <2>3. CASE d # picked[b]
    BY <2>1, <2>3, <1>a, <1>t DEF InProgress
  <2> QED
    BY <2>2, <2>3
<1>3. ASSUME NEW b \in Calls, BridgeToIntermediate(b)
      PROVE  InProgress(c, d)' \/ c \in lost'
  <2> DEFINE new == [call |-> b, did |-> picked[b], try |-> 1]
  <2>1. /\ stage' = [stage EXCEPT ![b] = "out"] /\ legs' = legs \cup {new}
        /\ UNCHANGED <<row, picked, returning, lost>>
    BY <1>3 DEF BridgeToIntermediate
  <2>2. new.call = b /\ new.did = picked[b]
    OBVIOUS
  <2> HIDE DEF new
  <2> QED
    BY <2>1, <2>2, <1>a, <1>t DEF InProgress
<1>4. ASSUME NEW leg \in legs, FindOriginal(leg) PROVE InProgress(c, d)' \/ c \in lost'
  <2>1. PICK n \in Calls : returning' = returning \cup {[leg |-> leg, numbers |-> n]}
    BY <1>4 DEF FindOriginal
  <2>2. legs' = legs \ {leg} /\ UNCHANGED <<row, stage, picked, lost>>
    BY <1>4 DEF FindOriginal, Leaves, Blame
  <2> DEFINE new == [leg |-> leg, numbers |-> n]
  <2>3. new.leg = leg /\ returning' = returning \cup {new}
    BY <2>1
  <2> HIDE DEF new
  <2> QED
    BY <2>2, <2>3, <1>a DEF InProgress
<1>5. ASSUME NEW leg \in legs, NoMapping(leg) \/ Drop(leg)
      PROVE  InProgress(c, d)' \/ c \in lost'
  <2>1. leg.call \in Calls
    BY DEF TypeOK, Leg
  <2>2. leg.call \in lost'
    BY <1>5, <2>1, <1>s DEF NoMapping, Drop, Mapped, RowsHeld
  <2>3. /\ legs' = legs \ {leg} /\ lost \subseteq lost'
        /\ UNCHANGED <<row, stage, picked, returning>>
    BY <1>5 DEF NoMapping, Drop, Leaves, Blame
  <2> QED
    BY <2>2, <2>3, <1>a DEF InProgress
<1>6. ASSUME NEW r \in returning, ReleaseAndForward(r)
      PROVE  InProgress(c, d)' \/ c \in lost'
  <2>1. /\ returning' = returning \ {r} /\ lost \subseteq lost'
        /\ UNCHANGED <<stage, picked, legs>>
        /\ \/ row' = row /\ r.leg.call \in lost'
           \/ row' = [row EXCEPT ![r.leg.did] = None]
    BY <1>6 DEF ReleaseAndForward, Released
  <2>2. CASE row' = row /\ r.leg.call \in lost'
    BY <2>1, <2>2, <1>a DEF InProgress
  <2>3. CASE row' = [row EXCEPT ![r.leg.did] = None]
    <3>1. d # r.leg.did /\ row[d] = c
      BY <2>3, <1>t
    <3> QED
      BY <2>1, <3>1, <1>a DEF InProgress
  <2> QED
    BY <2>1, <2>2, <2>3
<1>7. ASSUME NEW e \in Dids, OperatorRelease(e) PROVE InProgress(c, d)' \/ c \in lost'
  <2>1. row[d] = c /\ UNCHANGED <<stage, picked, legs, returning, lost>>
    BY <1>7, <1>t DEF OperatorRelease, Released
  <2> QED
    BY <2>1, <1>a DEF InProgress
<1>8. CASE Crash
  <2>1. /\ row[d] = c /\ UNCHANGED legs /\ lost \subseteq lost'
        /\ \A b \in Calls : stage[b] = "bridge" => b \in lost'
        /\ \A r \in returning : r.leg.call \in lost'
    BY <1>8 DEF Crash
  <2> QED
    BY <2>1, <1>a DEF InProgress
<1>9. CASE UNCHANGED vars
  BY <1>9, <1>a DEF vars, InProgress
<1> QED
  BY <1>1, <1>2, <1>3, <1>4, <1>5, <1>6, <1>7, <1>8, <1>9 DEF Next, Origin, BroughtBack

(* A DID in use belongs to a call under way or was lost in one of the      *)
(* known ways: S3 dropped the call, a look-up or a release failed, or      *)
(* FreeSWITCH ended between two steps of a session.                        *)
THEOREM Accounted == Spec => []MarkedIsAccountedFor
<1>1. Init => SafeInv /\ MarkedIsAccountedFor
  BY DEF Init, SafeInv, Safe, RowsHeld, OnePlace, RestoredIsOriginal,
     MarkedIsAccountedFor
<1> QED
  BY <1>1, SafeStep, AccountStep, TypeCorrect, PTL DEF Spec

-----------------------------------------------------------------------------
(* Why the handler implements the abstract pool.                           *)

(* Membership in Out, one way a DID can be out at a time. *)
LEMMA OutMembers ==
  \A w : w \in Out <=>
    \/ \E c \in Calls : stage[c] = "bridge" /\ w = [call |-> c, did |-> picked[c]]
    \/ \E leg \in legs : w = [call |-> leg.call, did |-> leg.did]
    \/ \E r \in returning : w = [call |-> r.leg.call, did |-> r.leg.did]
BY DEF Out

LEMMA LeaseStep ==
  TypeOK /\ SafeInv /\ [Next]_vars /\ causes' = {} => Pool!Keep \/ Out' \subseteq Out
<1> SUFFICES ASSUME TypeOK, SafeInv, [Next]_vars, causes' = {}
             PROVE  Pool!Keep \/ Out' \subseteq Out
  OBVIOUS
<1>n. causes = {}
  BY CausesGrow
<1>s. RowsHeld /\ OnePlace
  BY <1>n DEF SafeInv, Safe
<1>t. /\ row \in [Dids -> Calls \cup {None}]
      /\ stage \in [Calls -> {"new", "mark", "bridge", "out", "over"}]
      /\ picked \in [Calls -> Dids \cup {None}]
      /\ \A c \in Calls : stage[c] \in {"mark", "bridge"} => picked[c] \in Dids
      /\ \A leg \in legs : leg.call \in Calls /\ leg.did \in Dids
      /\ \A r \in returning : r.leg.call \in Calls /\ r.leg.did \in Dids
  BY DEF TypeOK, Leg, Return
<1>1. ASSUME \A c \in Calls : stage'[c] = "bridge" => stage[c] = "bridge" /\ picked'[c] = picked[c],
             legs' \subseteq legs,
             \A r \in returning' : r \in returning \/ r.leg \in legs
      PROVE  Out' \subseteq Out
  BY <1>1 DEF Out
<1>2. ASSUME NEW c \in Calls, SelectDid(c) \/ NoAvailableDid(c) PROVE Out' \subseteq Out
  <2>1. /\ UNCHANGED <<legs, returning>> /\ stage'[c] # "bridge"
        /\ \A b \in Calls \ {c} : stage'[b] = stage[b] /\ picked'[b] = picked[b]
    BY <1>2, <1>t DEF SelectDid, NoAvailableDid
  <2> QED
    BY <2>1, <1>1
<1>3. ASSUME NEW c \in Calls, MarkDid(c) PROVE Pool!Keep
  <2> DEFINE new == [call |-> c, did |-> picked[c]]
  <2>1. /\ row[picked[c]] = None /\ stage[c] = "mark"
        /\ stage' = [stage EXCEPT ![c] = "bridge"]
        /\ UNCHANGED <<picked, legs, returning>>
    BY <1>3 DEF MarkDid
  <2>2. picked[c] \in Dids
    BY <2>1, <1>t
  <2>3. Out' = Out \cup {new}
    <3>1. {b \in Calls : stage'[b] = "bridge"} = {b \in Calls : stage[b] = "bridge"} \cup {c}
      BY <2>1, <1>t
    <3> QED
      BY <3>1, <2>1 DEF Out
  <2>4. \A w \in Out : w.did # picked[c] /\ w.call # c
    <3> SUFFICES ASSUME NEW w \in Out PROVE w.did # picked[c] /\ w.call # c
      OBVIOUS
    <3>1. CASE \E b \in Calls : stage[b] = "bridge" /\ w = [call |-> b, did |-> picked[b]]
      BY <3>1, <2>1, <1>s, <1>t DEF RowsHeld
    <3>2. CASE \E leg \in legs : w = [call |-> leg.call, did |-> leg.did]
      BY <3>2, <2>1, <1>s, <1>t DEF RowsHeld, OnePlace
    <3>3. CASE \E r \in returning : w = [call |-> r.leg.call, did |-> r.leg.did]
      BY <3>3, <2>1, <1>s, <1>t DEF RowsHeld, OnePlace
    <3> QED
      BY <3>1, <3>2, <3>3, OutMembers
  <2> QED
    BY <2>2, <2>3, <2>4 DEF Pool!Keep, Pool!Take
<1>4. ASSUME NEW c \in Calls, BridgeToIntermediate(c) PROVE Out' \subseteq Out
  <2> DEFINE new == [call |-> c, did |-> picked[c], try |-> 1]
  <2>1. /\ stage[c] = "bridge" /\ stage' = [stage EXCEPT ![c] = "out"]
        /\ legs' = legs \cup {new} /\ UNCHANGED <<picked, returning>>
    BY <1>4 DEF BridgeToIntermediate
  <2>2. new.call = c /\ new.did = picked[c]
    OBVIOUS
  <2> HIDE DEF new
  <2>3. \A b \in Calls : stage'[b] = "bridge" => stage[b] = "bridge" /\ b # c
    BY <2>1, <1>t
  <2>4. [call |-> new.call, did |-> new.did] \in Out
    BY <2>1, <2>2 DEF Out
  <2> QED
    BY <2>1, <2>3, <2>4 DEF Out
<1>5. ASSUME NEW leg \in legs, FindOriginal(leg) \/ NoMapping(leg) \/ Drop(leg)
      PROVE  Out' \subseteq Out
  <2>1. legs' = legs \ {leg} /\ UNCHANGED <<stage, picked>>
    BY <1>5 DEF FindOriginal, NoMapping, Drop, Leaves, Blame
  <2>2. \A r \in returning' : r \in returning \/ r.leg \in legs
    BY <1>5 DEF FindOriginal, NoMapping, Drop
  <2> QED
    BY <2>1, <2>2, <1>1
<1>6. ASSUME NEW r \in returning, ReleaseAndForward(r) PROVE Out' \subseteq Out
  BY <1>6, <1>1 DEF ReleaseAndForward
<1>7. ASSUME NEW d \in Dids, OperatorRelease(d) PROVE Out' \subseteq Out
  BY <1>7, <1>1 DEF OperatorRelease
<1>8. CASE Crash
  BY <1>8, <1>1, <1>t DEF Crash
<1>9. CASE UNCHANGED vars
  BY <1>9, <1>1 DEF vars
<1> QED
  BY <1>2, <1>3, <1>4, <1>5, <1>6, <1>7, <1>8, <1>9 DEF Next, Origin, BroughtBack

(* The route handler implements DidPool: for any constants and until one   *)
(* of the four causes, sessions take DIDs that are not out, one at a time. *)
THEOREM Implements == Spec => PoolKept
<1>1. Init => SafeInv
  BY DEF Init, SafeInv, Safe, RowsHeld, OnePlace, RestoredIsOriginal
<1>2. Init => Pool!PoolInit
  BY DEF Init, Pool!PoolInit, Out
<1>3. TypeOK /\ TypeOK' /\ SafeInv /\ [Next]_vars => [Pool!PoolNext]_<<Out, causes # {}>>
  <2> SUFFICES ASSUME TypeOK, TypeOK', SafeInv, [Next]_vars PROVE Pool!PoolNext
    OBVIOUS
  <2>1. CASE causes' = {}
    BY <2>1, CausesGrow, LeaseStep DEF Pool!PoolNext, Pool!GiveBack
  <2>2. CASE causes' # {}
    <3>1. Out' \subseteq Pool!Lease
      BY DEF TypeOK, Out, Pool!Lease, Leg, Return
    <3> QED
      BY <2>2, <3>1 DEF Pool!PoolNext, Pool!Break
  <2> QED
    BY <2>1, <2>2
<1> QED
  BY <1>1, <1>2, <1>3, SafeStep, TypeCorrect, PTL DEF Spec, PoolKept, Pool!PoolSpec

(* What the refinement gives: as long as nothing has broken the pool, the  *)
(* DIDs that are out stand for one call each, and each call has one. The   *)
(* argument looks at DidPool only, not at the sessions of the script.      *)
THEOREM Promised == Spec => []Pool!PoolExclusive
<1>1. Pool!PoolInit => Pool!PoolExclusive
  BY DEF Pool!PoolInit, Pool!PoolExclusive
<1>2. Pool!PoolExclusive /\ [Pool!PoolNext]_<<Out, causes # {}>> => Pool!PoolExclusive'
  <2> SUFFICES ASSUME Pool!PoolExclusive, [Pool!PoolNext]_<<Out, causes # {}>>, causes' = {}
               PROVE  \A v, w \in Out' : (v.did = w.did \/ v.call = w.call) => v = w
    BY DEF Pool!PoolExclusive
  <2>1. CASE UNCHANGED <<Out, causes # {}>>
    BY <2>1 DEF Pool!PoolExclusive
  <2>2. CASE causes = {} /\ Pool!Keep
    BY <2>2 DEF Pool!Keep, Pool!Take, Pool!PoolExclusive
  <2>3. CASE causes = {} /\ Pool!GiveBack
    BY <2>3 DEF Pool!GiveBack, Pool!PoolExclusive
  <2> QED
    BY <2>1, <2>2, <2>3 DEF Pool!PoolNext, Pool!Break
<1> QED
  BY <1>1, <1>2, Implements, PTL DEF PoolKept, Pool!PoolSpec
=============================================================================

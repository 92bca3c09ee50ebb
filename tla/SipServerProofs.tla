--------------------------- MODULE SipServerProofs ---------------------------
(* What SipServer promises for every value of its constants. *)
EXTENDS SipServer, FiniteSetTheorems, TLAPS

USE SipServerAssumption

-----------------------------------------------------------------------------
(* What the helpers of the actions return. *)

(* Back in recvfrom the listen thread holds nothing. *)
LEMMA IdleTyped == ASSUME Idle, invites' \in Nat PROVE ListenerTypeOK'
<1>1. NoInvite \in Invite
  BY DEF NoInvite, Invite
<1>2. inv' \in Invite
  BY <1>1 DEF Idle
<1>3. did' \in Dids \cup {NoDid} /\ found' \in 0 .. invites'
  BY DEF Idle
<1>4. dangling' \in BOOLEAN
  BY DEF Idle
<1>5. lpc' = "recv"
  BY DEF Idle
<1> QED
  BY <1>2, <1>3, <1>4, <1>5 DEF ListenerTypeOK

(* A query costs at most one failure, within the bound. *)
LEMMA QueryTyped ==
  ASSUME failures \in 0 .. MaxFailures, NEW ok \in BOOLEAN, Query(ok)
  PROVE  failures' \in 0 .. MaxFailures
BY DEF Query

(* Causes are only added. *)
LEMMA BlameTyped ==
  ASSUME causes \subseteq Cause, NEW c \in Cause, NEW yes, Blame(c, yes)
  PROVE  causes' \subseteq Cause
BY DEF Blame

(* UPDATE keeps the rows of the table. *)
LEMMA WithRowTyped ==
  ASSUME PoolTypeOK, NEW d, NEW h \in Holder
  PROVE  /\ DOMAIN WithRow(d, h) = DOMAIN db
         /\ WithRow(d, h) \in [DOMAIN db -> Holder]
BY DEF PoolTypeOK, WithRow

(* Writing a node keeps the nodes of the list. *)
LEMMA WithEntryTyped ==
  ASSUME PoolTypeOK, NEW d, NEW h \in Holder, NEW t \in BOOLEAN
  PROVE  /\ DOMAIN WithEntry(d, h, t) = DOMAIN dids
         /\ WithEntry(d, h, t) \in [DOMAIN dids -> Entry]
BY DEF PoolTypeOK, WithEntry, Entry

(* A reload builds one node per row. *)
LEMMA LoadedTyped ==
  ASSUME NEW table, table \in [DOMAIN table -> Holder]
  PROVE  /\ DOMAIN Loaded(table) = DOMAIN table
         /\ Loaded(table) \in [DOMAIN table -> Entry]
BY DEF Loaded, Entry

(* An UPDATE of a call record writes a value of the column. *)
LEMMA RecordTyped ==
  ASSUME NEW r \in CallRecord
  PROVE  /\ [r EXCEPT !.stage = 2] \in CallRecord
         /\ [r EXCEPT !.status = "timeout"] \in CallRecord
BY DEF CallRecord

(* A call and a DID grow older up to their bound. *)
LEMMA CallTyped ==
  ASSUME NEW c \in CallState
  PROVE  [c EXCEPT !.age = Older(c.age, CallLimit)] \in CallState
BY DEF CallState, Older

(* The empty function is a function into any set. *)
LEMMA EmptyTyped ==
  ASSUME NEW S
  PROVE  DOMAIN Empty = {} /\ Empty \in [DOMAIN Empty -> S]
BY DEF Empty

-----------------------------------------------------------------------------
(* The UPDATEs of the expired calls that fail are counted one by one.      *)
LEMMA FailuresGrow ==
  ASSUME DOMAIN calls \subseteq 1 .. invites, invites \in Nat, failures \in Nat,
         NEW failed \in SUBSET Expired, failures' = failures + Cardinality(failed)
  PROVE  /\ failures' \in Nat /\ failures' >= failures
         /\ failures' = 0 => failures = 0 /\ failed = {}
<1>1. IsFiniteSet(1 .. invites)
  BY FS_Interval
<1>2. failed \subseteq 1 .. invites
  BY DEF Expired
<1>3. IsFiniteSet(failed)
  BY <1>1, <1>2, FS_Subset
<1>4. Cardinality(failed) \in Nat /\ (Cardinality(failed) = 0 <=> failed = {})
  BY <1>3, FS_CardinalityType, FS_EmptySet
<1> QED
  BY <1>4

(* What is lost is a DID, or the string of a call that read none.          *)
LEMMA LostStep == TypeOK /\ [Next]_vars => LostTypeOK'
<1> SUFFICES ASSUME TypeOK, [Next]_vars PROVE LostTypeOK'
  OBVIOUS
<1>p. /\ lost \subseteq Dids \cup {NoDid} /\ did \in Dids \cup {NoDid}
      /\ DOMAIN db \subseteq Dids
      /\ \A n \in DOMAIN calls : calls[n].did \in Dids \cup {NoDid}
  BY DEF TypeOK, LostTypeOK, ListenerTypeOK, PoolTypeOK, CallTypeOK, CallState
<1>1. CASE PersistAllocation \/ CreateCall \/ PersistRelease
  BY <1>1, <1>p DEF PersistAllocation, CreateCall, PersistRelease, LostTypeOK
<1>2. CASE ReleaseDid
  BY <1>2, <1>p DEF ReleaseDid, LostTypeOK
<1>3. CASE ExpireCalls
  <2>1. \A n \in Expired : calls[n].did \in Dids \cup {NoDid}
    BY <1>p DEF Expired
  <2> QED
    BY <1>3, <1>p, <2>1 DEF ExpireCalls, LostTypeOK
<1>4. CASE Operator \/ Restart
  BY <1>4, <1>p DEF Operator, OperatorRelease, OperatorDelete, OperatorAdd, Restart,
     LostTypeOK
<1>5. CASE UNCHANGED lost
  BY <1>5, <1>p DEF LostTypeOK
<1> QED
  BY <1>1, <1>2, <1>3, <1>4, <1>5 DEF Next, Network, Listen, Monitor, vars,
     ReceiveOrigin, ReceiveReturn, AllocateDid, NoDidAvailable, FinalNotFound,
     AdvanceCall, LoadDids, InstallDids, CleanStaleDids, CleanBlocks, Sleep

(* Type correctness: every variable keeps to the values the C declarations *)
(* and the handlers give it, whatever the interleaving; and the listen     *)
(* thread's pointer to a call names a call of the table until the monitor  *)
(* frees that call.                                                        *)
THEOREM TypeCorrect == Spec => []TypeOK
<1>1. Init => TypeOK
  <2> SUFFICES ASSUME Init PROVE TypeOK
    OBVIOUS
  <2>1. db \in [DOMAIN db -> Holder] /\ DOMAIN db = Dids
    BY DEF Init, Holder
  <2>2. PoolTypeOK
    BY <2>1, LoadedTyped DEF Init, PoolTypeOK
  <2>3. CallTypeOK /\ MonitorTypeOK
    BY EmptyTyped DEF Init, CallTypeOK, MonitorTypeOK
  <2>4. ListenerTypeOK
    <3>1. inv \in Invite
      BY DEF Init, NoInvite, Invite
    <3>2. dangling \in BOOLEAN
      BY DEF Init
    <3> QED
      BY <3>1, <3>2 DEF Init, ListenerTypeOK
  <2>5. EnvTypeOK
    BY DEF Init, EnvTypeOK
  <2> QED
    BY <2>2, <2>3, <2>4, <2>5 DEF Init, LostTypeOK, TypeOK
<1>2. TypeOK /\ [Next]_vars => TypeOK'
  <2> SUFFICES ASSUME TypeOK, [Next]_vars PROVE TypeOK'
    OBVIOUS
  <2>p. PoolTypeOK /\ CallTypeOK /\ ListenerTypeOK /\ MonitorTypeOK /\ EnvTypeOK
    BY DEF TypeOK
  <2>l. LostTypeOK'
    BY LostStep
  <2>n. /\ invites \in Nat
        /\ (lpc # "recv" => CallKey(inv) \in Numbers /\ CallKey(inv) \in Holder)
        /\ None \in Holder
    BY <2>p DEF EnvTypeOK, ListenerTypeOK, CallKey, Holder
  <2>1. CASE ReceiveOrigin
    <3>1. invites' \in 0 .. MaxInvites /\ invites' = invites + 1
      BY <2>1, <2>p DEF ReceiveOrigin, EnvTypeOK
    <3>2. PoolTypeOK' /\ MonitorTypeOK' /\ EnvTypeOK'
      BY <2>1, <2>p, <3>1 DEF ReceiveOrigin, pool, monitor, PoolTypeOK,
         MonitorTypeOK, EnvTypeOK
    <3>3. CallTypeOK'
      BY <2>1, <2>p, <2>n, <3>1 DEF ReceiveOrigin, CallTypeOK
    <3>4. inv' \in Invite /\ inv'.to \in Numbers /\ inv'.callId \in CallIds
      BY <2>1 DEF ReceiveOrigin, Invite
    <3>5. ListenerTypeOK'
      BY <2>1, <2>p, <2>n, <3>1, <3>4 DEF ReceiveOrigin, ListenerTypeOK
    <3> QED
      BY <3>2, <3>3, <3>5, <2>l DEF TypeOK
  <2>2. CASE AllocateDid
    <3>1. CallTypeOK' /\ MonitorTypeOK' /\ EnvTypeOK'
      BY <2>2, <2>p DEF AllocateDid, monitor, env, CallTypeOK, MonitorTypeOK,
         EnvTypeOK
    <3>2. PICK d \in FreeDids : dids' = WithEntry(d, CallKey(inv), TRUE) /\ did' = d
      BY <2>2 DEF AllocateDid
    <3>a. /\ DOMAIN dids' = DOMAIN dids
          /\ dids' \in [DOMAIN dids -> Entry]
      BY <2>2, <2>p, <2>n, <3>2, WithEntryTyped DEF AllocateDid
    <3>b. PoolTypeOK'
      BY <2>2, <2>p, <3>a DEF AllocateDid, PoolTypeOK
    <3>3. did' \in Dids
      BY <2>p, <3>2 DEF FreeDids, PoolTypeOK
    <3>4. ListenerTypeOK'
      BY <2>2, <2>p, <3>3 DEF AllocateDid, env, ListenerTypeOK
    <3> QED
      BY <3>1, <3>b, <3>4, <2>l DEF TypeOK
  <2>3. CASE NoDidAvailable
    <3>1. PoolTypeOK' /\ CallTypeOK' /\ MonitorTypeOK' /\ EnvTypeOK'
      BY <2>3, <2>p DEF NoDidAvailable, pool, monitor, env, PoolTypeOK, CallTypeOK,
         MonitorTypeOK, EnvTypeOK
    <3>2. ListenerTypeOK'
      BY <2>3, <2>n, IdleTyped DEF NoDidAvailable, env
    <3> QED
      BY <3>1, <3>2, <2>l DEF TypeOK
  <2>4. CASE PersistAllocation
    <3>1. CallTypeOK' /\ MonitorTypeOK'
      BY <2>4, <2>p DEF PersistAllocation, monitor, CallTypeOK, MonitorTypeOK
    <3>2. PoolTypeOK'
      BY <2>4, <2>p, <2>n, WithRowTyped DEF PersistAllocation, Unlock, PoolTypeOK
    <3>3. ListenerTypeOK'
      BY <2>4, <2>p DEF PersistAllocation, ListenerTypeOK
    <3>4. EnvTypeOK'
      BY <2>4, <2>p, QueryTyped, BlameTyped DEF PersistAllocation, EnvTypeOK, Cause
    <3> QED
      BY <3>1, <3>2, <3>3, <3>4, <2>l DEF TypeOK
  <2>5. CASE CreateCall
    <3>1. PoolTypeOK' /\ MonitorTypeOK'
      BY <2>5, <2>p DEF CreateCall, pool, monitor, PoolTypeOK, MonitorTypeOK
    <3>2. CallTypeOK'
      <4>0. lpc = "create" /\ invites' = invites
        BY <2>5 DEF CreateCall
      <4>1. invites \in 1 .. invites /\ invites' = invites
        BY <2>p, <2>n, <4>0 DEF ListenerTypeOK
      <4>2. PICK read \in ReadDid(did), ok \in BOOLEAN :
              /\ calls' = [n \in DOMAIN calls \cup {invites} |->
                   IF n = invites
                   THEN [call_id |-> CallKey(inv), header |-> inv.callId,
                         did |-> read, stage |-> 1, age |-> 0]
                   ELSE calls[n]]
              /\ records' = [n \in DOMAIN records \cup (IF ok THEN {invites} ELSE {}) |->
                   IF n = invites
                   THEN [call_id |-> CallKey(inv), stage |-> 1, status |-> "routing"]
                   ELSE records[n]]
        BY <2>5 DEF CreateCall
      <4>3. read \in Dids \cup {NoDid} /\ CallKey(inv) \in Numbers /\ inv.callId \in CallIds
        BY <2>5, <2>p, <2>n, <4>2 DEF CreateCall, ReadDid, ListenerTypeOK
      <4>4. [call_id |-> CallKey(inv), header |-> inv.callId,
             did |-> read, stage |-> 1, age |-> 0] \in CallState
        BY <4>3 DEF CallState
      <4>5. [call_id |-> CallKey(inv), stage |-> 1, status |-> "routing"] \in CallRecord
        BY <4>3 DEF CallRecord
      <4>6. /\ DOMAIN calls' \subseteq 1 .. invites'
            /\ calls' \in [DOMAIN calls' -> CallState]
        BY <2>p, <4>1, <4>2, <4>4 DEF CallTypeOK
      <4>7. /\ DOMAIN records' \subseteq 1 .. invites'
            /\ records' \in [DOMAIN records' -> CallRecord]
        BY <2>p, <4>1, <4>2, <4>5 DEF CallTypeOK
      <4> QED
        BY <4>6, <4>7 DEF CallTypeOK
    <3>3. ListenerTypeOK'
      BY <2>5, <2>n, IdleTyped DEF CreateCall
    <3>4. EnvTypeOK'
      BY <2>5, <2>p, QueryTyped, BlameTyped DEF CreateCall, EnvTypeOK, Cause
    <3> QED
      BY <3>1, <3>2, <3>3, <3>4, <2>l DEF TypeOK
  <2>6. CASE ReceiveReturn
    <3>1. invites' \in 0 .. MaxInvites /\ invites' = invites + 1
      BY <2>6, <2>p DEF ReceiveReturn, EnvTypeOK
    <3>2. PoolTypeOK' /\ MonitorTypeOK' /\ EnvTypeOK'
      BY <2>6, <2>p, <3>1 DEF ReceiveReturn, pool, monitor, PoolTypeOK,
         MonitorTypeOK, EnvTypeOK
    <3>3. CallTypeOK'
      BY <2>6, <2>p, <2>n, <3>1 DEF ReceiveReturn, CallTypeOK
    <3>4. inv' \in Invite /\ inv'.to \in Numbers /\ inv'.callId \in CallIds
      BY <2>6 DEF ReceiveReturn, Invite
    <3>5. found' \in DOMAIN calls
      BY <2>6 DEF ReceiveReturn, Matching
    <3>6. found' \in 0 .. invites'
      BY <2>p, <2>n, <3>1, <3>5 DEF CallTypeOK
    <3>7. ListenerTypeOK'
      BY <2>6, <2>p, <2>n, <3>1, <3>4, <3>5, <3>6 DEF ReceiveReturn, ListenerTypeOK
    <3> QED
      BY <3>2, <3>3, <3>7, <2>l DEF TypeOK
  <2>7. CASE FinalNotFound
    <3>1. PoolTypeOK' /\ CallTypeOK' /\ MonitorTypeOK' /\ EnvTypeOK'
      BY <2>7, <2>p DEF FinalNotFound, pool, monitor, env, PoolTypeOK, CallTypeOK,
         MonitorTypeOK, EnvTypeOK
    <3>2. ListenerTypeOK'
      BY <2>7, <2>n, IdleTyped DEF FinalNotFound, env
    <3> QED
      BY <3>1, <3>2, <2>l DEF TypeOK
  <2>8. CASE AdvanceCall
    <3>1. PoolTypeOK' /\ MonitorTypeOK'
      BY <2>8, <2>p DEF AdvanceCall, pool, monitor, PoolTypeOK, MonitorTypeOK
    <3>2. DOMAIN calls' = DOMAIN calls /\ calls' \in [DOMAIN calls' -> CallState]
      <4>1. CASE dangling
        BY <2>8, <2>p, <4>1 DEF AdvanceCall, CallTypeOK
      <4>2. CASE ~dangling
        <5>1. calls' = [calls EXCEPT ![found].stage = 2] /\ found \in DOMAIN calls
          BY <2>8, <2>p, <4>2 DEF AdvanceCall, ListenerTypeOK
        <5> QED
          BY <2>p, <5>1 DEF CallTypeOK, CallState
      <4> QED
        BY <4>1, <4>2
    <3>3. DOMAIN records' = DOMAIN records /\ records' \in [DOMAIN records' -> CallRecord]
      <4>1. PICK ok \in BOOLEAN : records' = [n \in DOMAIN records |->
              IF ok /\ n \in Rows({CallKey(inv)})
              THEN [records[n] EXCEPT !.stage = 2] ELSE records[n]]
        BY <2>8 DEF AdvanceCall
      <4>2. \A n \in DOMAIN records : records'[n] \in CallRecord
        BY <2>p, <4>1, RecordTyped DEF CallTypeOK
      <4> QED
        BY <4>1, <4>2
    <3>4. CallTypeOK'
      BY <2>8, <2>p, <3>2, <3>3 DEF AdvanceCall, CallTypeOK
    <3>5. ListenerTypeOK'
      BY <2>8, <2>p, <3>2 DEF AdvanceCall, ListenerTypeOK
    <3>6. EnvTypeOK'
      BY <2>8, <2>p, QueryTyped, BlameTyped DEF AdvanceCall, EnvTypeOK, Cause
    <3> QED
      BY <3>1, <3>4, <3>5, <3>6, <2>l DEF TypeOK
  <2>9. CASE ReleaseDid
    <3>1. CallTypeOK' /\ MonitorTypeOK'
      BY <2>9, <2>p DEF ReleaseDid, monitor, env, CallTypeOK, MonitorTypeOK
    <3>2. EnvTypeOK'
      BY <2>9, <2>p, BlameTyped DEF ReleaseDid, env, EnvTypeOK, Cause
    <3>3. PICK read : \/ /\ read \in DOMAIN dids
                         /\ dids' = WithEntry(read, None, FALSE)
                         /\ did_mutex' = "listener"
                         /\ did' = read
                         /\ lpc' = "rel_db"
                         /\ UNCHANGED <<inv, found, dangling>>
                      \/ Idle /\ UNCHANGED <<dids, did_mutex>>
      BY <2>9 DEF ReleaseDid
    <3>4. UNCHANGED <<db, invites>> /\ lpc = "release"
      BY <2>9 DEF ReleaseDid, env
    <3>5. CASE Idle /\ UNCHANGED <<dids, did_mutex>>
      <4>1. PoolTypeOK' /\ ListenerTypeOK'
        BY <2>p, <2>n, <3>4, <3>5, IdleTyped DEF PoolTypeOK
      <4> QED
        BY <3>1, <3>2, <4>1, <2>l DEF TypeOK
    <3>6. CASE /\ read \in DOMAIN dids
               /\ dids' = WithEntry(read, None, FALSE)
               /\ did_mutex' = "listener"
               /\ did' = read
               /\ lpc' = "rel_db"
               /\ UNCHANGED <<inv, found, dangling>>
      <4>1. DOMAIN dids' = DOMAIN dids /\ dids' \in [DOMAIN dids -> Entry]
        BY <2>p, <2>n, <3>6, WithEntryTyped
      <4>2. PoolTypeOK'
        BY <2>p, <3>4, <3>6, <4>1 DEF PoolTypeOK
      <4>3. did' \in Dids
        BY <2>p, <3>6 DEF PoolTypeOK
      <4>4. ListenerTypeOK'
        BY <2>p, <3>4, <3>6, <4>3 DEF ListenerTypeOK
      <4> QED
        BY <3>1, <3>2, <4>2, <4>4, <2>l DEF TypeOK
    <3> QED
      BY <3>3, <3>5, <3>6
  <2>10. CASE PersistRelease
    <3>1. CallTypeOK' /\ MonitorTypeOK'
      BY <2>10, <2>p DEF PersistRelease, monitor, CallTypeOK, MonitorTypeOK
    <3>2. PoolTypeOK'
      BY <2>10, <2>p, <2>n, WithRowTyped DEF PersistRelease, Unlock, PoolTypeOK
    <3>3. ListenerTypeOK'
      BY <2>10, <2>n, IdleTyped DEF PersistRelease
    <3>4. EnvTypeOK'
      BY <2>10, <2>p, QueryTyped DEF PersistRelease, EnvTypeOK
    <3> QED
      BY <3>1, <3>2, <3>3, <3>4, <2>l DEF TypeOK
  <2>11. CASE LoadDids
    <3>1. PoolTypeOK' /\ CallTypeOK' /\ ListenerTypeOK'
      BY <2>11, <2>p DEF LoadDids, pool, listener, PoolTypeOK, CallTypeOK,
         ListenerTypeOK
    <3>2. MonitorTypeOK'
      BY <2>11, <2>p DEF LoadDids, PoolTypeOK, MonitorTypeOK
    <3>3. EnvTypeOK'
      BY <2>11, <2>p, QueryTyped DEF LoadDids, EnvTypeOK
    <3> QED
      BY <3>1, <3>2, <3>3, <2>l DEF TypeOK
  <2>12. CASE InstallDids
    <3>1. PoolTypeOK'
      BY <2>12, <2>p, LoadedTyped DEF InstallDids, PoolTypeOK, MonitorTypeOK
    <3>2. CallTypeOK'
      BY <2>12, <2>p DEF InstallDids, env, CallTypeOK
    <3>3. dangling' \in BOOLEAN
      BY <2>12, <2>p DEF InstallDids, ListenerTypeOK
    <3>4. ListenerTypeOK'
      BY <2>12, <2>p, <3>3 DEF InstallDids, env, ListenerTypeOK
    <3>5. MonitorTypeOK'
      <4>1. snap' \in [DOMAIN snap' -> Holder] /\ DOMAIN snap' = {}
        BY <2>12, EmptyTyped DEF InstallDids
      <4>2. mpc' = "clean" /\ kept' = 0
        BY <2>12 DEF InstallDids
      <4> QED
        BY <4>1, <4>2 DEF MonitorTypeOK
    <3>6. EnvTypeOK'
      BY <2>12, <2>p, BlameTyped DEF InstallDids, env, EnvTypeOK, Cause
    <3> QED
      BY <3>1, <3>2, <3>4, <3>5, <3>6, <2>l DEF TypeOK
  <2>13. CASE CleanStaleDids
    BY <2>13, <2>p, <2>l DEF CleanStaleDids, pool, listener, env, TypeOK, PoolTypeOK,
       CallTypeOK, ListenerTypeOK, MonitorTypeOK, EnvTypeOK
  <2>14. CASE CleanBlocks
    BY <2>14, <2>p, <2>l DEF CleanBlocks, listener, env, TypeOK, PoolTypeOK,
       CallTypeOK, ListenerTypeOK, MonitorTypeOK, EnvTypeOK
  <2>15. CASE ExpireCalls
    <3>1. PoolTypeOK' /\ MonitorTypeOK'
      BY <2>15, <2>p DEF ExpireCalls, pool, PoolTypeOK, MonitorTypeOK
    <3>2. CallTypeOK'
      <4>1. DOMAIN calls' \subseteq DOMAIN calls /\ calls' \in [DOMAIN calls' -> CallState]
        BY <2>15, <2>p DEF ExpireCalls, Expired, CallTypeOK
      <4>2. DOMAIN records' = DOMAIN records /\ records' \in [DOMAIN records' -> CallRecord]
        BY <2>15, <2>p, RecordTyped DEF ExpireCalls, CallTypeOK
      <4> QED
        BY <2>15, <2>p, <4>1, <4>2 DEF ExpireCalls, CallTypeOK
    <3>3. dangling' \in BOOLEAN
      BY <2>15, <2>p DEF ExpireCalls, ListenerTypeOK
    <3>4. lpc \in {"stage", "release"} /\ ~dangling' => found \in DOMAIN calls'
      BY <2>15, <2>p DEF ExpireCalls, ListenerTypeOK
    <3>5. ListenerTypeOK'
      BY <2>15, <2>p, <3>3, <3>4 DEF ExpireCalls, ListenerTypeOK
    <3>6. EnvTypeOK'
      <4>1. failures' \in 0 .. MaxFailures
        <5>1. PICK failed \in SUBSET Expired :
                /\ failures' = failures + Cardinality(failed)
                /\ failures' <= MaxFailures
          BY <2>15 DEF ExpireCalls
        <5>2. failures \in Nat /\ DOMAIN calls \subseteq 1 .. invites
          BY <2>p DEF EnvTypeOK, CallTypeOK
        <5>3. failures' \in Nat
          BY <2>n, <5>1, <5>2, FailuresGrow
        <5> QED
          BY <5>1, <5>3
      <4> QED
        BY <2>15, <2>p, <4>1 DEF ExpireCalls, EnvTypeOK
    <3> QED
      BY <3>1, <3>2, <3>5, <3>6, <2>l DEF TypeOK
  <2>16. CASE Sleep
    <3>1. DOMAIN dids' = DOMAIN dids /\ dids' \in [DOMAIN dids' -> Entry]
      BY <2>16, <2>p DEF Sleep, Older, PoolTypeOK, Entry
    <3>2. DOMAIN calls' = DOMAIN calls /\ calls' \in [DOMAIN calls' -> CallState]
      BY <2>16, <2>p, CallTyped DEF Sleep, CallTypeOK
    <3> QED
      BY <2>16, <2>p, <2>l, <3>1, <3>2 DEF Sleep, listener, env, TypeOK, PoolTypeOK,
         CallTypeOK, ListenerTypeOK, MonitorTypeOK, EnvTypeOK
  <2>17. ASSUME NEW d \in Dids, OperatorRelease(d) PROVE TypeOK'
    <3>1. CallTypeOK' /\ ListenerTypeOK' /\ MonitorTypeOK'
      BY <2>17, <2>p DEF OperatorRelease, listener, monitor, CallTypeOK,
         ListenerTypeOK, MonitorTypeOK
    <3>2. PoolTypeOK'
      BY <2>17, <2>p, <2>n, WithRowTyped DEF OperatorRelease, PoolTypeOK
    <3>3. EnvTypeOK'
      <4>1. causes' \subseteq Cause
        BY <2>17, <2>p DEF OperatorRelease, EnvTypeOK, Blame, Cause
      <4> QED
        BY <2>17, <2>p, <4>1 DEF OperatorRelease, EnvTypeOK
    <3> QED
      BY <3>1, <3>2, <3>3, <2>l DEF TypeOK
  <2>18. ASSUME NEW d \in Dids, OperatorDelete(d) PROVE TypeOK'
    <3>1. CallTypeOK' /\ ListenerTypeOK' /\ MonitorTypeOK'
      BY <2>18, <2>p DEF OperatorDelete, listener, monitor, CallTypeOK,
         ListenerTypeOK, MonitorTypeOK
    <3>2. PoolTypeOK'
      BY <2>18, <2>p DEF OperatorDelete, PoolTypeOK
    <3>3. EnvTypeOK'
      <4>1. causes' \subseteq Cause
        BY <2>18, <2>p DEF OperatorDelete, EnvTypeOK, Blame, Cause
      <4> QED
        BY <2>18, <2>p, <4>1 DEF OperatorDelete, EnvTypeOK
    <3> QED
      BY <3>1, <3>2, <3>3, <2>l DEF TypeOK
  <2>19. ASSUME NEW d \in Dids, OperatorAdd(d) PROVE TypeOK'
    <3>1. CallTypeOK' /\ ListenerTypeOK' /\ MonitorTypeOK'
      BY <2>19, <2>p DEF OperatorAdd, listener, monitor, CallTypeOK,
         ListenerTypeOK, MonitorTypeOK
    <3>2. PoolTypeOK'
      BY <2>19, <2>p, <2>n DEF OperatorAdd, PoolTypeOK
    <3>3. EnvTypeOK'
      BY <2>19, <2>p DEF OperatorAdd, EnvTypeOK
    <3> QED
      BY <3>1, <3>2, <3>3, <2>l DEF TypeOK
  <2>20. CASE Restart
    <3>1. PoolTypeOK'
      BY <2>20, <2>p, LoadedTyped, EmptyTyped DEF Restart, PoolTypeOK
    <3>2. CallTypeOK' /\ MonitorTypeOK'
      BY <2>20, <2>p, EmptyTyped DEF Restart, CallTypeOK, MonitorTypeOK
    <3>3. ListenerTypeOK'
      BY <2>20, <2>n, IdleTyped DEF Restart
    <3>4. EnvTypeOK'
      BY <2>20, <2>p, QueryTyped DEF Restart, EnvTypeOK
    <3> QED
      BY <3>1, <3>2, <3>3, <3>4, <2>l DEF TypeOK
  <2>21. CASE UNCHANGED vars
    BY <2>21, <2>p, <2>l DEF vars, TypeOK, PoolTypeOK, CallTypeOK, ListenerTypeOK,
       MonitorTypeOK, EnvTypeOK
  <2> QED
    BY <2>1, <2>2, <2>3, <2>4, <2>5, <2>6, <2>7, <2>8, <2>9, <2>10, <2>11, <2>12,
       <2>13, <2>14, <2>15, <2>16, <2>17, <2>18, <2>19, <2>20, <2>21
       DEF Next, Network, Listen, Monitor, Operator
<1> QED
  BY <1>1, <1>2, PTL DEF Spec

-----------------------------------------------------------------------------
(* Why the monitor does not block on its own mutex.                        *)
(*                                                                         *)
(* A reload that succeeds leaves no allocation time behind, so the age of  *)
(* a DID counts the sleeps since the last one: one more than the reloads   *)
(* that failed in between, until this pass has tried its own.              *)

Due == IF mpc \in {"load", "install"} THEN 1 ELSE 0

AgeBound ==
  \/ kept > StaleLimit
  \/ \A d \in DOMAIN dids : dids[d].timed => dids[d].age <= kept + Due

BlockInv == AgeBound /\ BlocksOnlyWithoutReloads

(* Nothing but a reload, a restart or the clock moves the bound. *)
LEMMA BlockStep == TypeOK /\ BlockInv /\ [Next]_vars => BlockInv'
<1> SUFFICES ASSUME TypeOK, BlockInv, [Next]_vars PROVE BlockInv'
  OBVIOUS
<1>p. /\ PoolTypeOK /\ MonitorTypeOK
      /\ kept \in Nat /\ StaleLimit \in Nat
      /\ \A d \in DOMAIN dids : dids[d] \in Entry /\ dids[d].age \in Nat
  BY DEF TypeOK, PoolTypeOK, MonitorTypeOK, Entry
<1>q. AgeBound /\ BlocksOnlyWithoutReloads
  BY DEF BlockInv
<1>1. CASE UNCHANGED <<dids, mpc, kept>>
  BY <1>1, <1>q DEF BlockInv, AgeBound, BlocksOnlyWithoutReloads, Due
<1>2. ASSUME NEW d, NEW h, NEW t, dids' = WithEntry(d, h, t), UNCHANGED <<mpc, kept>>
      PROVE  BlockInv'
  <2>1. CASE kept > StaleLimit
    BY <1>2, <2>1, <1>q DEF BlockInv, AgeBound, BlocksOnlyWithoutReloads
  <2>2. CASE ~(kept > StaleLimit)
    <3>1. \A e \in DOMAIN dids : dids[e].timed => dids[e].age <= kept + Due
      BY <2>2, <1>q DEF AgeBound
    <3>2. \A e \in DOMAIN dids' : dids'[e].timed => dids'[e].age <= kept + Due
      BY <1>2, <1>p, <3>1 DEF WithEntry, Due
    <3> QED
      BY <1>2, <1>q, <3>2 DEF BlockInv, AgeBound, BlocksOnlyWithoutReloads, Due
  <2> QED
    BY <2>1, <2>2
<1>3. ASSUME \A d \in DOMAIN dids' : ~dids'[d].timed, mpc' # "stuck"
      PROVE  BlockInv'
  BY <1>3 DEF BlockInv, AgeBound, BlocksOnlyWithoutReloads
<1>4. CASE AllocateDid
  BY <1>4, <1>2 DEF AllocateDid, monitor
<1>5. CASE ReleaseDid
  <2>1. CASE UNCHANGED dids
    BY <1>5, <2>1, <1>1 DEF ReleaseDid, monitor
  <2>2. CASE \E d \in DOMAIN dids : dids' = WithEntry(d, None, FALSE)
    BY <1>5, <2>2, <1>2 DEF ReleaseDid, monitor
  <2> QED
    BY <1>5, <2>1, <2>2 DEF ReleaseDid
<1>6. CASE LoadDids
  <2>1. CASE mpc' = "install"
    BY <1>6, <2>1, <1>q DEF LoadDids, pool, BlockInv, AgeBound,
       BlocksOnlyWithoutReloads, Due
  <2>2. CASE mpc' = "clean" /\ kept' = IF kept > StaleLimit THEN kept ELSE kept + 1
    BY <1>6, <2>2, <1>p, <1>q DEF LoadDids, pool, BlockInv, AgeBound,
       BlocksOnlyWithoutReloads, Due
  <2> QED
    BY <1>6, <2>1, <2>2 DEF LoadDids
<1>7. CASE InstallDids
  BY <1>7, <1>3 DEF InstallDids, Loaded
<1>8. CASE CleanStaleDids
  BY <1>8, <1>q DEF CleanStaleDids, pool, BlockInv, AgeBound,
     BlocksOnlyWithoutReloads, Due
<1>9. CASE CleanBlocks
  <2>1. kept > StaleLimit
    BY <1>9, <1>p, <1>q DEF CleanBlocks, Stale, AgeBound, Due
  <2> QED
    BY <1>9, <2>1 DEF CleanBlocks, BlockInv, AgeBound, BlocksOnlyWithoutReloads
<1>10. CASE ExpireCalls
  BY <1>10, <1>q DEF ExpireCalls, pool, BlockInv, AgeBound,
     BlocksOnlyWithoutReloads, Due
<1>11. CASE Sleep
  <2>1. /\ mpc = "sleep" /\ mpc' = "load" /\ kept' = kept
        /\ Due = 0 /\ Due' = 1
    BY <1>11 DEF Sleep, Due
  <2>2. CASE kept > StaleLimit
    BY <2>1, <2>2 DEF BlockInv, AgeBound, BlocksOnlyWithoutReloads
  <2>3. CASE ~(kept > StaleLimit)
    <3>1. \A e \in DOMAIN dids : dids[e].timed => dids[e].age <= kept
      BY <2>1, <2>3, <1>p, <1>q DEF AgeBound
    <3>2. \A e \in DOMAIN dids' : dids'[e].timed => dids'[e].age <= kept + 1
      BY <1>11, <1>p, <3>1 DEF Sleep, Older, Entry
    <3> QED
      BY <2>1, <3>2 DEF BlockInv, AgeBound, BlocksOnlyWithoutReloads
  <2> QED
    BY <2>2, <2>3
<1>12. CASE Restart
  BY <1>12, <1>3 DEF Restart, Loaded, Empty
<1>13. CASE \/ Network \/ Operator \/ UNCHANGED vars
            \/ NoDidAvailable \/ PersistAllocation \/ CreateCall
            \/ FinalNotFound \/ AdvanceCall \/ PersistRelease
  BY <1>13, <1>1 DEF Network, Operator, vars, ReceiveOrigin, ReceiveReturn,
     NoDidAvailable, PersistAllocation, CreateCall, FinalNotFound, AdvanceCall,
     PersistRelease, OperatorRelease, OperatorDelete, OperatorAdd, pool, monitor
<1> QED
  BY <1>4, <1>5, <1>6, <1>7, <1>8, <1>9, <1>10, <1>11, <1>12, <1>13
     DEF Next, Listen, Monitor

(* The monitor blocks on did_mutex only after more than StaleLimit reloads *)
(* in a row kept the old list: monitor_thread is safe from the recursive   *)
(* lock in its stale cleanup exactly as long as load_dids_from_db works.   *)
THEOREM BlocksRarely == Spec => []BlocksOnlyWithoutReloads
<1>1. Init => BlockInv
  BY DEF Init, BlockInv, AgeBound, BlocksOnlyWithoutReloads, Loaded
<1>2. TypeOK /\ BlockInv /\ [Next]_vars => BlockInv'
  BY BlockStep
<1>3. BlockInv => BlocksOnlyWithoutReloads
  BY DEF BlockInv
<1> QED
  BY <1>1, <1>2, <1>3, TypeCorrect, PTL DEF Spec

-----------------------------------------------------------------------------
(* Why no two waiting calls carry the same DID.                            *)
(*                                                                         *)
(* While nothing has gone wrong, a DID a waiting call carries is taken in  *)
(* the list and in the table, so that neither allocate_did nor a reload    *)
(* can make it available; and the DID the listen thread has in hand is     *)
(* carried by nobody.                                                      *)

Carried(d) == \E n \in DOMAIN calls : Waiting(n) /\ calls[n].did = d

Secured(d) ==
  /\ d \in DOMAIN dids => ~Free(d)
  /\ d \in DOMAIN db /\ db[d] # None

ListsNested == DOMAIN dids \subseteq DOMAIN db /\ DOMAIN snap \subseteq DOMAIN db

CarriedSecured == \A n \in DOMAIN calls : Waiting(n) => Secured(calls[n].did)

InHand ==
  /\ lpc = "alloc_db" => did \in DOMAIN dids /\ ~Free(did)
  /\ lpc = "create" => Secured(did)
  /\ lpc \in {"alloc_db", "create", "rel_db"} => ~Carried(did)
  /\ lpc = "release" /\ ~dangling => ~Carried(calls[found].did)

SafePool == ListsNested /\ CarriedSecured /\ InHand /\ DidExclusive

MutexInv == did_mutex = "listener" <=> lpc \in {"alloc_db", "rel_db"}

PoolInv == MutexInv /\ (causes = {} => SafePool)

(* did_mutex is held by the listen thread exactly while it has changed the *)
(* list and not yet the table.                                             *)
LEMMA MutexStep == TypeOK /\ MutexInv /\ [Next]_vars => MutexInv'
<1> SUFFICES ASSUME TypeOK, MutexInv, [Next]_vars PROVE MutexInv'
  OBVIOUS
<1> USE DEF MutexInv
<1>1. CASE Network \/ Operator \/ UNCHANGED vars
  BY <1>1 DEF Network, Operator, ReceiveOrigin, ReceiveReturn, OperatorRelease,
     OperatorDelete, OperatorAdd, vars, pool, listener
<1>2. CASE Listen
  BY <1>2 DEF Listen, AllocateDid, NoDidAvailable, PersistAllocation, CreateCall,
     FinalNotFound, AdvanceCall, ReleaseDid, PersistRelease, Idle, Unlock, pool
<1>3. CASE Monitor
  BY <1>3 DEF Monitor, LoadDids, InstallDids, CleanStaleDids, CleanBlocks,
     ExpireCalls, Sleep, pool, listener
<1>4. CASE Restart
  BY <1>4 DEF Restart, Idle
<1> QED
  BY <1>1, <1>2, <1>3, <1>4 DEF Next

(* A step that leaves the calls' DIDs and stages, the holders and what the *)
(* listen thread has in hand as they are keeps the pool safe.              *)
LEMMA SafeFrame ==
  ASSUME SafePool, UNCHANGED <<dids, db, snap, calls, lpc, did, found>>,
         ~dangling' => ~dangling
  PROVE  SafePool'
BY DEF SafePool, ListsNested, CarriedSecured, InHand, DidExclusive, Waiting,
       Secured, Carried, Free

(* Nothing undoes a cause. *)
LEMMA CausesGrow == [Next]_vars => causes \subseteq causes'
BY DEF Next, Network, Listen, Monitor, Operator, vars, ReceiveOrigin,
   ReceiveReturn, OperatorRelease, OperatorDelete, OperatorAdd, AllocateDid,
   NoDidAvailable, PersistAllocation, CreateCall, FinalNotFound, AdvanceCall,
   ReleaseDid, PersistRelease, LoadDids, InstallDids, CleanStaleDids,
   CleanBlocks, ExpireCalls, Sleep, Restart, Blame

(* As long as none of the causes has happened, no step of either thread, of *)
(* an operator or of a restart makes the pool unsafe.                      *)
LEMMA SafeStep == TypeOK /\ PoolInv /\ [Next]_vars => (causes' = {} => SafePool')
<1> SUFFICES ASSUME TypeOK, PoolInv, [Next]_vars, causes' = {} PROVE SafePool'
  OBVIOUS
<1>p. PoolTypeOK /\ CallTypeOK /\ ListenerTypeOK /\ MonitorTypeOK
  BY DEF TypeOK
<1>m. MutexInv
  BY DEF PoolInv
<1>b. ASSUME NEW c, NEW yes, Blame(c, yes) PROVE causes = {} /\ ~yes
  BY <1>b DEF Blame
<1>s. SafePool
  BY CausesGrow DEF PoolInv
<1>t. ListsNested /\ CarriedSecured /\ InHand /\ DidExclusive
  BY <1>s DEF SafePool
<1>k. inv.to \in Numbers => CallKey(inv) # None
  BY DEF CallKey
<1>1. CASE Network
  <2>1. /\ UNCHANGED <<dids, db, snap, calls, did>>
        /\ lpc = "recv" /\ lpc' \in {"alloc", "stage"}
    BY <1>1 DEF Network, ReceiveOrigin, ReceiveReturn, pool, monitor
  <2> QED
    BY <2>1, <1>t DEF SafePool, ListsNested, CarriedSecured, InHand, DidExclusive,
       Waiting, Secured, Carried, Free
<1>2. CASE AllocateDid
  <2>1. PICK d \in FreeDids : dids' = WithEntry(d, CallKey(inv), TRUE) /\ did' = d
    BY <1>2 DEF AllocateDid
  <2>2. d \in DOMAIN dids /\ dids[d].holder = None
    BY <2>1 DEF FreeDids, Free
  <2>3. UNCHANGED <<db, snap, calls>> /\ lpc = "alloc" /\ lpc' = "alloc_db"
    BY <1>2 DEF AllocateDid, monitor
  <2>4. /\ DOMAIN dids' = DOMAIN dids
        /\ dids'[d].holder # None
        /\ \A e \in DOMAIN dids : e # d => dids'[e] = dids[e]
    BY <1>p, <1>k, <2>1, <2>2, <2>3 DEF WithEntry, ListenerTypeOK
  <2>5. ~Carried(d)
    BY <1>t, <2>2 DEF CarriedSecured, Carried, Secured, Free
  <2>6. ListsNested' /\ DidExclusive' /\ InHand'
    BY <1>t, <2>1, <2>2, <2>3, <2>4, <2>5 DEF ListsNested, DidExclusive, Waiting,
       InHand, Carried, Free
  <2>7. CarriedSecured'
    BY <1>t, <2>3, <2>4 DEF CarriedSecured, Waiting, Secured, Free
  <2> QED
    BY <2>6, <2>7 DEF SafePool
<1>3. CASE NoDidAvailable \/ FinalNotFound
  <2>1. UNCHANGED <<dids, db, snap, calls>> /\ lpc' = "recv"
    BY <1>3 DEF NoDidAvailable, FinalNotFound, Idle, pool, monitor
  <2> QED
    BY <2>1, <1>t DEF SafePool, ListsNested, CarriedSecured, InHand, DidExclusive,
       Waiting, Secured, Carried, Free
<1>4. CASE PersistAllocation
  <2>1. db' = WithRow(did, CallKey(inv))
    BY <1>4, <1>b DEF PersistAllocation
  <2>2. UNCHANGED <<dids, snap, calls, did, dangling>> /\ lpc = "alloc_db" /\ lpc' = "create"
    BY <1>4 DEF PersistAllocation, monitor
  <2>3. /\ DOMAIN db' = DOMAIN db /\ did \in DOMAIN db
        /\ db'[did] # None
        /\ \A e \in DOMAIN db : db[e] # None => db'[e] # None
    BY <1>p, <1>k, <1>t, <2>1, <2>2 DEF WithRow, ListenerTypeOK, InHand, ListsNested
  <2>4. ListsNested' /\ DidExclusive' /\ CarriedSecured'
    BY <1>t, <2>2, <2>3 DEF ListsNested, DidExclusive, CarriedSecured, Waiting,
       Secured, Free
  <2>5. InHand'
    BY <1>t, <2>2, <2>3 DEF InHand, Carried, Waiting, Secured, Free
  <2> QED
    BY <2>4, <2>5 DEF SafePool
<1>5. CASE CreateCall
  <2>1. /\ UNCHANGED <<dids, db, snap>> /\ lpc = "create" /\ lpc' = "recv"
        /\ ~dangling
    BY <1>5, <1>b DEF CreateCall, Idle, pool, monitor
  <2>2. DEFINE new == [call_id |-> CallKey(inv), header |-> inv.callId,
                       did |-> did, stage |-> 1, age |-> 0]
  <2>3. calls' = [n \in DOMAIN calls \cup {invites} |->
                    IF n = invites THEN new ELSE calls[n]]
    BY <1>5, <2>1 DEF CreateCall, ReadDid
  <2>4. \A n \in DOMAIN calls' :
          \/ n = invites /\ calls'[n].did = did
          \/ n # invites /\ n \in DOMAIN calls /\ calls'[n] = calls[n]
    BY <2>3
  <2>5. ~Carried(did) /\ Secured(did)
    BY <1>t, <2>1 DEF InHand
  <2>6. DidExclusive'
    BY <1>t, <2>4, <2>5 DEF DidExclusive, Carried, Waiting
  <2>7. CarriedSecured'
    BY <1>t, <2>1, <2>4, <2>5 DEF CarriedSecured, Waiting, Secured, Free
  <2>8. ListsNested' /\ InHand'
    BY <1>t, <2>1 DEF ListsNested, InHand
  <2> QED
    BY <2>6, <2>7, <2>8 DEF SafePool
<1>6. CASE AdvanceCall
  <2>1. /\ UNCHANGED <<dids, db, snap, did, found, dangling>>
        /\ lpc = "stage" /\ lpc' = "release"
        /\ (~dangling => calls[found].stage # 2)
    BY <1>6, <1>b DEF AdvanceCall, pool, monitor
  <2>2. CASE dangling
    <3>1. UNCHANGED calls
      BY <1>6, <2>2 DEF AdvanceCall
    <3> QED
      BY <1>t, <2>1, <2>2, <3>1 DEF SafePool, ListsNested, CarriedSecured, InHand,
         DidExclusive, Waiting, Secured, Carried, Free
  <2>3. CASE ~dangling
    <3>1. found \in DOMAIN calls /\ calls' = [calls EXCEPT ![found].stage = 2]
      BY <1>6, <1>p, <2>1, <2>3 DEF AdvanceCall, ListenerTypeOK
    <3>2. calls \in [DOMAIN calls -> CallState]
      BY <1>p DEF CallTypeOK
    <3>3. calls[found].stage = 1
      BY <2>1, <2>3, <3>1, <3>2 DEF CallState
    <3>4. /\ DOMAIN calls' = DOMAIN calls
          /\ calls'[found].stage = 2 /\ calls'[found].did = calls[found].did
          /\ \A n \in DOMAIN calls : n # found => calls'[n] = calls[n]
      BY <3>1, <3>2 DEF CallState
    <3>5. \A n \in DOMAIN calls : Waiting(n)' => n # found /\ Waiting(n)
      BY <3>1, <3>4 DEF Waiting
    <3>6. ~Carried(calls[found].did)'
      BY <1>t, <2>1, <3>1, <3>3, <3>4, <3>5 DEF Carried, DidExclusive, Waiting
    <3>7. InHand'
      BY <2>1, <3>4, <3>6 DEF InHand
    <3>8. CarriedSecured' /\ DidExclusive'
      BY <1>t, <2>1, <3>4, <3>5 DEF CarriedSecured, DidExclusive, Secured, Free
    <3> QED
      BY <1>t, <2>1, <3>7, <3>8 DEF SafePool, ListsNested
  <2> QED
    BY <2>2, <2>3
<1>7. CASE ReleaseDid
  <2>1. UNCHANGED <<db, snap, calls>> /\ lpc = "release" /\ ~dangling
    BY <1>7, <1>b DEF ReleaseDid, monitor
  <2>2. ~Carried(calls[found].did)
    BY <1>t, <2>1 DEF InHand
  <2>3. CASE UNCHANGED dids /\ lpc' = "recv"
    BY <1>t, <2>1, <2>3 DEF SafePool, ListsNested, CarriedSecured, InHand,
       DidExclusive, Waiting, Secured, Carried, Free
  <2>4. CASE /\ calls[found].did \in DOMAIN dids
             /\ dids' = WithEntry(calls[found].did, None, FALSE)
             /\ did' = calls[found].did
             /\ lpc' = "rel_db"
    <3>1. /\ DOMAIN dids' = DOMAIN dids
          /\ \A e \in DOMAIN dids : e # calls[found].did => dids'[e] = dids[e]
      BY <2>4 DEF WithEntry
    <3>2. CarriedSecured'
      BY <1>t, <2>1, <2>2, <3>1 DEF CarriedSecured, Carried, Waiting, Secured, Free
    <3> QED
      BY <1>t, <2>1, <2>2, <2>4, <3>1, <3>2 DEF SafePool, ListsNested, InHand,
         DidExclusive, Carried, Waiting
  <2> QED
    BY <1>7, <2>1, <2>3, <2>4 DEF ReleaseDid, ReadDid, Idle
<1>8. CASE PersistRelease
  <2>1. UNCHANGED <<dids, snap, calls>> /\ lpc = "rel_db" /\ lpc' = "recv"
    BY <1>8 DEF PersistRelease, Idle, monitor
  <2>2. /\ DOMAIN db' = DOMAIN db
        /\ \A e \in DOMAIN db : e # did => db'[e] = db[e]
    BY <1>8 DEF PersistRelease, WithRow
  <2>3. ~Carried(did)
    BY <1>t, <2>1 DEF InHand
  <2>4. CarriedSecured'
    BY <1>t, <2>1, <2>2, <2>3 DEF CarriedSecured, Carried, Waiting, Secured, Free
  <2> QED
    BY <1>t, <2>1, <2>2, <2>4 DEF SafePool, ListsNested, InHand, DidExclusive, Waiting
<1>9. CASE LoadDids
  <2>1. UNCHANGED <<dids, db, calls, lpc, did, found, dangling>> /\ snap' \in {snap, db}
    BY <1>9 DEF LoadDids, pool, listener
  <2> QED
    BY <1>t, <2>1 DEF SafePool, ListsNested, CarriedSecured, InHand, DidExclusive,
       Waiting, Secured, Carried, Free
<1>10. CASE InstallDids
  <2>1. /\ dids' = Loaded(snap) /\ snap' = Empty
        /\ UNCHANGED <<db, calls, lpc, did, found>>
        /\ did_mutex = "free" /\ (~dangling' => ~dangling)
        /\ \A d \in DOMAIN snap \cap DOMAIN db : snap[d] = None => db[d] = None
    BY <1>10, <1>b DEF InstallDids
  <2>2. lpc \notin {"alloc_db", "rel_db"}
    BY <1>m, <2>1 DEF MutexInv
  <2>3. \A d : Secured(d) => Secured(d)'
    BY <2>1 DEF Secured, Loaded, Free
  <2>4. ListsNested'
    BY <1>t, <2>1 DEF ListsNested, Loaded, Empty
  <2>5. CarriedSecured' /\ DidExclusive'
    BY <1>t, <2>1, <2>3 DEF CarriedSecured, DidExclusive, Waiting
  <2>6. InHand'
    BY <1>t, <2>1, <2>2, <2>3 DEF InHand, Carried, Waiting
  <2> QED
    BY <2>4, <2>5, <2>6 DEF SafePool
<1>11. CASE CleanStaleDids \/ CleanBlocks
  BY <1>11, <1>s, SafeFrame DEF CleanStaleDids, CleanBlocks, pool, listener
<1>12. CASE ExpireCalls
  <2>1. /\ UNCHANGED <<dids, db, snap, lpc, did, found>>
        /\ DOMAIN calls' \subseteq DOMAIN calls
        /\ \A n \in DOMAIN calls' : calls'[n] = calls[n]
        /\ (~dangling' => ~dangling)
    BY <1>12 DEF ExpireCalls, Expired, pool
  <2>2. \A n \in DOMAIN calls' : Waiting(n)' => Waiting(n)
    BY <2>1 DEF Waiting
  <2>3. \A d : Carried(d)' => Carried(d)
    BY <2>1, <2>2 DEF Carried
  <2>4. lpc = "release" /\ ~dangling' => calls'[found] = calls[found]
    BY <1>12, <1>p, <2>1 DEF ExpireCalls, Expired, ListenerTypeOK
  <2>5. InHand'
    BY <1>t, <2>1, <2>3, <2>4 DEF InHand, Secured, Free
  <2> QED
    BY <1>t, <2>1, <2>2, <2>5 DEF SafePool, ListsNested, CarriedSecured,
       DidExclusive, Secured, Free
<1>13. CASE Sleep
  <2>1. UNCHANGED <<db, snap, lpc, did, found, dangling>>
    BY <1>13 DEF Sleep, listener
  <2>2. /\ DOMAIN dids' = DOMAIN dids
        /\ \A d \in DOMAIN dids : dids'[d].holder = dids[d].holder
    BY <1>13, <1>p DEF Sleep, PoolTypeOK, Entry
  <2>3. /\ DOMAIN calls' = DOMAIN calls
        /\ \A n \in DOMAIN calls : /\ calls'[n].did = calls[n].did
                                   /\ calls'[n].stage = calls[n].stage
    BY <1>13, <1>p DEF Sleep, CallTypeOK, CallState
  <2>4. \A n \in DOMAIN calls : Waiting(n)' <=> Waiting(n)
    BY <2>3 DEF Waiting
  <2>5. \A d : Carried(d)' <=> Carried(d)
    BY <2>3, <2>4 DEF Carried
  <2>6. \A d : Secured(d)' <=> Secured(d)
    BY <2>1, <2>2 DEF Secured, Free
  <2>7. CarriedSecured' /\ DidExclusive'
    BY <1>t, <2>3, <2>4, <2>6 DEF CarriedSecured, DidExclusive
  <2>8. lpc = "release" /\ ~dangling => found \in DOMAIN calls
    BY <1>p DEF ListenerTypeOK
  <2>9. InHand'
    BY <1>t, <2>1, <2>2, <2>3, <2>5, <2>6, <2>8 DEF InHand, Free
  <2> QED
    BY <1>t, <2>1, <2>2, <2>7, <2>9 DEF SafePool, ListsNested
<1>14. ASSUME NEW d \in Dids, OperatorRelease(d) PROVE SafePool'
  <2>1. db[d] = None /\ d \in DOMAIN db /\ db' = WithRow(d, None)
    BY <1>14, <1>b DEF OperatorRelease
  <2>2. db' = db
    BY <1>p, <2>1 DEF WithRow, PoolTypeOK
  <2> QED
    BY <1>14, <1>s, <2>2, SafeFrame DEF OperatorRelease, listener, monitor
<1>15. ASSUME NEW d \in Dids, OperatorDelete(d) PROVE SafePool'
  BY <1>15, <1>b DEF OperatorDelete
<1>16. ASSUME NEW d \in Dids, OperatorAdd(d) PROVE SafePool'
  <2>1. /\ UNCHANGED <<dids, snap, calls, lpc, did, found, dangling>>
        /\ DOMAIN db \subseteq DOMAIN db'
        /\ \A e \in DOMAIN db : db'[e] = db[e]
    BY <1>16 DEF OperatorAdd, listener, monitor
  <2> QED
    BY <1>t, <2>1 DEF SafePool, ListsNested, CarriedSecured, InHand, DidExclusive,
       Waiting, Secured, Carried, Free
<1>17. CASE Restart
  <2>1. /\ DOMAIN calls' = {} /\ lpc' = "recv" /\ db' = db
        /\ DOMAIN dids' \subseteq DOMAIN db /\ DOMAIN snap' = {}
    BY <1>17 DEF Restart, Idle, Loaded, Empty
  <2> QED
    BY <2>1 DEF SafePool, ListsNested, CarriedSecured, InHand, DidExclusive
<1>18. CASE UNCHANGED vars
  BY <1>18, <1>s, SafeFrame DEF vars
<1> QED
  BY <1>1, <1>2, <1>3, <1>4, <1>5, <1>6, <1>7, <1>8, <1>9, <1>10, <1>11, <1>12,
     <1>13, <1>14, <1>15, <1>16, <1>17, <1>18 DEF Next, Listen, Monitor, Operator

(* Two calls share a DID only after one of the five causes: whatever the   *)
(* interleaving of the two threads, the number of DIDs, calls, failed      *)
(* reloads, lost releases and restarts.                                    *)
THEOREM Exclusive == Spec => []ExclusiveUnlessCaused
<1>1. Init => PoolInv
  BY DEF Init, PoolInv, MutexInv, SafePool, ListsNested, CarriedSecured, InHand,
     DidExclusive, Loaded, Empty
<1>2. TypeOK /\ PoolInv /\ [Next]_vars => PoolInv'
  BY MutexStep, SafeStep DEF PoolInv
<1>3. PoolInv => ExclusiveUnlessCaused
  BY DEF PoolInv, SafePool, ExclusiveUnlessCaused
<1> QED
  BY <1>1, <1>2, <1>3, TypeCorrect, PTL DEF Spec

-----------------------------------------------------------------------------
(* Why the SIP server implements the abstract pool.                        *)

(* Every step either opens one waiting call, or leaves the waiting calls   *)
(* what they are or fewer.                                                 *)
LEMMA LeaseStep ==
  TypeOK /\ [Next]_vars => CreateCall \/ Out' \subseteq Out
<1> SUFFICES ASSUME TypeOK, [Next]_vars, ~CreateCall PROVE Out' \subseteq Out
  OBVIOUS
<1>p. CallTypeOK /\ ListenerTypeOK
  BY DEF TypeOK
<1>1. ASSUME DOMAIN calls' \subseteq DOMAIN calls,
             \A n \in DOMAIN calls' :
               /\ calls'[n].did = calls[n].did
               /\ calls'[n].stage = calls[n].stage \/ calls'[n].stage = 2
      PROVE  Out' \subseteq Out
  <2>1. \A n \in DOMAIN calls' : Waiting(n)' => Waiting(n) /\ calls'[n].did = calls[n].did
    BY <1>1 DEF Waiting
  <2> QED
    BY <2>1, <1>1 DEF Out
<1>2. CASE UNCHANGED calls
  BY <1>2, <1>1
<1>3. CASE AdvanceCall
  <2>1. CASE dangling
    BY <1>3, <2>1, <1>1 DEF AdvanceCall
  <2>2. CASE ~dangling
    <3>1. calls' = [calls EXCEPT ![found].stage = 2]
      BY <1>3, <2>2 DEF AdvanceCall
    <3>2. \A n \in DOMAIN calls :
            /\ calls'[n].did = calls[n].did
            /\ calls'[n].stage = calls[n].stage \/ calls'[n].stage = 2
      BY <3>1, <1>p DEF CallTypeOK, CallState
    <3> QED
      BY <3>1, <3>2, <1>1
  <2> QED
    BY <2>1, <2>2
<1>4. CASE ExpireCalls
  <2>1. PICK gone \in SUBSET DOMAIN calls :
          calls' = [n \in DOMAIN calls \ gone |-> calls[n]]
    BY <1>4 DEF ExpireCalls, Expired
  <2> QED
    BY <2>1, <1>1
<1>5. CASE Sleep
  <2>1. calls' = [n \in DOMAIN calls |-> [calls[n] EXCEPT !.age = Older(@, CallLimit)]]
    BY <1>5 DEF Sleep
  <2>2. \A n \in DOMAIN calls : calls'[n].did = calls[n].did /\ calls'[n].stage = calls[n].stage
    BY <2>1, <1>p DEF CallTypeOK, CallState
  <2> QED
    BY <2>1, <2>2, <1>1
<1>6. CASE Restart
  <2>1. DOMAIN calls' = {}
    BY <1>6 DEF Restart, Empty
  <2> QED
    BY <2>1, <1>1
<1> QED
  BY <1>2, <1>3, <1>4, <1>5, <1>6 DEF Next, Network, Listen, Monitor, Operator, vars,
     ReceiveOrigin, ReceiveReturn, OperatorRelease, OperatorDelete, OperatorAdd,
     AllocateDid, NoDidAvailable, PersistAllocation, FinalNotFound, ReleaseDid,
     PersistRelease, LoadDids, InstallDids, CleanStaleDids, CleanBlocks

(* The call that an INVITE opens is not in the table before.               *)
Fresh == lpc \in {"alloc", "alloc_db", "create"} => invites \notin DOMAIN calls

LEMMA FreshStep == TypeOK /\ Fresh /\ [Next]_vars => Fresh'
<1> SUFFICES ASSUME TypeOK, Fresh, [Next]_vars PROVE Fresh'
  OBVIOUS
<1>p. DOMAIN calls \subseteq 1 .. invites /\ invites \in Nat
  BY SipServerAssumption DEF TypeOK, CallTypeOK, EnvTypeOK
<1> USE DEF Fresh
<1>1. CASE ReceiveOrigin
  BY <1>1, <1>p DEF ReceiveOrigin
<1>2. CASE Listen \/ ReceiveReturn
  BY <1>2 DEF Listen, ReceiveReturn, AllocateDid, NoDidAvailable, PersistAllocation,
     CreateCall, FinalNotFound, AdvanceCall, ReleaseDid, PersistRelease, Idle, env
<1>3. CASE ExpireCalls
  BY <1>3 DEF ExpireCalls
<1>4. CASE Monitor \/ Operator \/ UNCHANGED vars
  <2>1. CASE Sleep
    BY <2>1 DEF Sleep, listener, env
  <2> QED
    BY <1>3, <1>4, <2>1 DEF Monitor, Operator, vars, LoadDids, InstallDids,
       CleanStaleDids, CleanBlocks, OperatorRelease, OperatorDelete, OperatorAdd,
       listener, env
<1>5. CASE Restart
  BY <1>5 DEF Restart, Idle
<1> QED
  BY <1>1, <1>2, <1>4, <1>5 DEF Next, Network

(* Opening a call takes a DID that is not out, unless one of the causes    *)
(* has happened.                                                           *)
LEMMA OpenStep ==
  TypeOK /\ TypeOK' /\ Fresh /\ PoolInv' /\ CreateCall /\ causes' = {} =>
    Pool!Keep \/ Out' \subseteq Out
<1> SUFFICES ASSUME TypeOK, TypeOK', Fresh, PoolInv', CreateCall, causes' = {}
             PROVE  Pool!Keep \/ Out' \subseteq Out
  OBVIOUS
<1>p. CallTypeOK /\ ListenerTypeOK /\ CallTypeOK' /\ EnvTypeOK
  BY DEF TypeOK
<1>x. DidExclusive'
  BY DEF PoolInv, SafePool
<1>i. invites \in 1 .. MaxInvites
  <2>1. lpc = "create"
    BY DEF CreateCall
  <2>2. invites > 0 /\ invites \in 0 .. MaxInvites
    BY <2>1, <1>p DEF ListenerTypeOK, EnvTypeOK
  <2> QED
    BY <2>2, SipServerAssumption
<1>v. invites' = invites
  BY DEF CreateCall
<1>1. PICK read \in Dids \cup {NoDid} :
        calls' = [n \in DOMAIN calls \cup {invites} |->
            IF n = invites
            THEN [call_id |-> CallKey(inv), header |-> inv.callId, did |-> read,
                  stage |-> 1, age |-> 0]
            ELSE calls[n]]
  BY <1>p DEF CreateCall, ReadDid, ListenerTypeOK
<1>2. \A n \in DOMAIN calls \ {invites} :
        n \in DOMAIN calls' /\ calls'[n] = calls[n] /\ (Waiting(n)' <=> Waiting(n))
  BY <1>1 DEF Waiting
<1>f. invites \notin DOMAIN calls /\ DOMAIN calls' = DOMAIN calls \cup {invites}
  BY <1>1 DEF Fresh, CreateCall
<1>3. CASE read = NoDid
  <2>1. ~Waiting(invites)'
    BY <1>1, <1>3, <1>v DEF Waiting
  <2>2. \A n \in DOMAIN calls' : Waiting(n)' =>
          n \in DOMAIN calls /\ Waiting(n) /\ calls'[n] = calls[n]
    BY <2>1, <1>f, <1>2, <1>v
  <2> QED
    BY <2>2 DEF Out
<1>4. CASE read \in Dids
  <2>1. invites \in DOMAIN calls' /\ calls'[invites].did = read /\ calls'[invites].stage = 1
    BY <1>1
  <2>2. calls'[invites].did # NoDid
    BY <2>1, <1>4, SipServerAssumption DEF NoDid
  <2>3. \A n \in DOMAIN calls : Waiting(n) => calls[n].did # read
    <3> SUFFICES ASSUME NEW n \in DOMAIN calls, Waiting(n), calls[n].did = read
                 PROVE  FALSE
      OBVIOUS
    <3>1. n \in DOMAIN calls' /\ n # invites /\ calls'[n] = calls[n]
      BY <1>2, <1>f
    <3> QED
      BY <3>1, <2>1, <2>2, <1>x DEF DidExclusive, Waiting
  <2>4. Out' = Out \cup {[call |-> invites, did |-> read]}
    <3>1. invites' = invites /\ \A n \in DOMAIN calls' : Waiting(n)' <=> n = invites \/ Waiting(n)
      BY <1>2, <1>f, <1>v, <2>1, <2>2 DEF Waiting
    <3> QED
      BY <3>1, <1>2, <1>f, <2>1 DEF Out, Waiting
  <2>5. \A w \in Out : w.did # read /\ w.call # invites
    BY <2>3, <1>f DEF Out
  <2> QED
    BY <2>4, <2>5, <1>4, <1>i DEF Pool!Keep, Pool!Take
<1> QED
  BY <1>3, <1>4

(* The SIP server implements DidPool: for any constants and until one of   *)
(* the five causes, calls take DIDs that are not out, one at a time, and   *)
(* no other step of the program gives a call a DID.                        *)
THEOREM Implements == Spec => PoolKept
<1>1. Init => PoolInv /\ Fresh
  BY DEF Init, PoolInv, MutexInv, SafePool, ListsNested, CarriedSecured,
     InHand, DidExclusive, Loaded, Empty, Fresh
<1>2. TypeOK /\ PoolInv /\ Fresh /\ [Next]_vars => PoolInv' /\ Fresh'
  BY MutexStep, SafeStep, FreshStep DEF PoolInv
<1>3. Init => Pool!PoolInit
  BY DEF Init, Pool!PoolInit, Out, Empty
<1>4. TypeOK /\ TypeOK' /\ PoolInv' /\ Fresh /\ [Next]_vars =>
        [Pool!PoolNext]_<<Out, causes # {}>>
  <2> SUFFICES ASSUME TypeOK, TypeOK', PoolInv', Fresh, [Next]_vars
               PROVE  Pool!PoolNext
    OBVIOUS
  <2>1. CASE causes' = {}
    <3>1. causes = {}
      BY <2>1, CausesGrow
    <3>2. Pool!Keep \/ Out' \subseteq Out
      BY <2>1, LeaseStep, OpenStep
    <3> QED
      BY <2>1, <3>1, <3>2 DEF Pool!PoolNext, Pool!GiveBack
  <2>2. CASE causes' # {}
    <3>1. CallTypeOK' /\ EnvTypeOK'
      BY DEF TypeOK
    <3>2. DOMAIN calls' \subseteq 1 .. MaxInvites
      BY <3>1, SipServerAssumption DEF CallTypeOK, EnvTypeOK
    <3>3. \A n \in DOMAIN calls' : Waiting(n)' => calls'[n].did \in Dids
      BY <3>1 DEF CallTypeOK, CallState, Waiting
    <3>4. Out' \subseteq Pool!Lease
      BY <3>2, <3>3 DEF Out, Pool!Lease
    <3> QED
      BY <2>2, <3>4 DEF Pool!PoolNext, Pool!Break
  <2> QED
    BY <2>1, <2>2
<1> QED
  BY <1>1, <1>2, <1>3, <1>4, TypeCorrect, PTL DEF Spec, PoolKept, Pool!PoolSpec

(* What the refinement gives: as long as nothing has broken the pool, the  *)
(* DIDs that are out stand for one call each, and each call has one. The   *)
(* argument looks at DidPool only, not at the SIP server.                  *)
THEOREM Promised == Spec => []Pool!PoolExclusive
<1>1. Pool!PoolInit => Pool!PoolExclusive
  BY DEF Pool!PoolInit, Pool!PoolExclusive
<1>2. Pool!PoolExclusive /\ [Pool!PoolNext]_<<Out, causes # {}>> => Pool!PoolExclusive'
  <2> SUFFICES ASSUME Pool!PoolExclusive, [Pool!PoolNext]_<<Out, causes # {}>>, causes' = {}
               PROVE  \A v, w \in Out' : (v.did = w.did \/ v.call = w.call) => v = w
    BY DEF Pool!PoolExclusive
  <2>1. CASE UNCHANGED <<Out, causes # {}>>
    BY <2>1 DEF Pool!PoolExclusive
  <2>2. CASE causes = {} /\ Pool!Keep
    BY <2>2 DEF Pool!Keep, Pool!Take, Pool!PoolExclusive
  <2>3. CASE causes = {} /\ Pool!GiveBack
    BY <2>3 DEF Pool!GiveBack, Pool!PoolExclusive
  <2> QED
    BY <2>1, <2>2, <2>3 DEF Pool!PoolNext, Pool!Break
<1> QED
  BY <1>1, <1>2, Implements, PTL DEF PoolKept, Pool!PoolSpec

-----------------------------------------------------------------------------
(* Why a DID in use is accounted for.                                      *)
(*                                                                         *)
(* A row of dids is followed from the UPDATE that took it to the call that *)
(* carries it and to the UPDATE that frees it.  Only the listen thread,    *)
(* which does one thing at a time, moves it on; the monitor can only drop  *)
(* the call or free a node under the listen thread's hand, and both are    *)
(* remembered in lost.                                                     *)

Account(d) ==
  \/ \E n \in DOMAIN calls : Keeps(n, d)
  \/ lpc = "create" /\ did = d /\ CallKey(inv) = db[d]
  \/ lpc = "rel_db" /\ did = d
  \/ d \in lost

(* A step that keeps the table, the calls and what the listen thread has   *)
(* in hand, and forgets nothing that was lost, keeps the account.          *)
LEMMA AccountFrame ==
  ASSUME InUseIsAccountedFor, UNCHANGED <<db, calls>>, lost \subseteq lost',
         \/ UNCHANGED <<lpc, inv, did, found>> /\ (~dangling /\ lpc = "release" => ~dangling')
         \/ lpc \notin {"create", "release", "rel_db"}
  PROVE  InUseIsAccountedFor'
<1>1. \A n, d : Keeps(n, d) => Keeps(n, d)'
  BY DEF Keeps
<1> QED
  BY <1>1 DEF InUseIsAccountedFor, CallKey

(* Every step of either thread, of an operator or of a restart hands each  *)
(* DID in use on to the next that accounts for it.                         *)
LEMMA AccountStep ==
  TypeOK /\ Fresh /\ InUseIsAccountedFor /\ [Next]_vars => InUseIsAccountedFor'
<1> SUFFICES ASSUME TypeOK, Fresh, InUseIsAccountedFor, [Next]_vars
             PROVE  InUseIsAccountedFor'
  OBVIOUS
<1>p. PoolTypeOK /\ CallTypeOK /\ ListenerTypeOK
  BY DEF TypeOK
<1>c. \A n \in DOMAIN calls : calls[n] \in CallState
  BY <1>p DEF CallTypeOK
<1>i. \A d \in DOMAIN db : db[d] # None => Account(d)
  BY DEF InUseIsAccountedFor, Account
<1>s. SUFFICES ASSUME NEW d \in DOMAIN db', db'[d] # None
               PROVE  Account(d)'
  BY DEF InUseIsAccountedFor, Account
<1>1. CASE \/ ReceiveOrigin \/ ReceiveReturn \/ NoDidAvailable \/ FinalNotFound
           \/ AllocateDid \/ UNCHANGED vars
  <2>1. UNCHANGED <<db, calls, lost>>
    BY <1>1 DEF ReceiveOrigin, ReceiveReturn, NoDidAvailable, FinalNotFound,
       AllocateDid, vars, pool
  <2>2. \/ UNCHANGED <<lpc, inv, did, found, dangling>>
        \/ lpc \notin {"create", "release", "rel_db"}
    BY <1>1 DEF ReceiveOrigin, ReceiveReturn, NoDidAvailable, FinalNotFound,
       AllocateDid, vars
  <2>3. InUseIsAccountedFor'
    BY <2>1, <2>2, AccountFrame
  <2> QED
    BY <1>s, <2>3 DEF InUseIsAccountedFor, Account
<1>2. CASE LoadDids \/ InstallDids \/ CleanStaleDids \/ CleanBlocks
  <2>1. UNCHANGED <<db, calls, lpc, inv, did, found, lost>>
    BY <1>2 DEF LoadDids, InstallDids, CleanStaleDids, CleanBlocks, pool, listener
  <2>2. ~dangling /\ lpc = "release" => ~dangling'
    BY <1>2 DEF LoadDids, InstallDids, CleanStaleDids, CleanBlocks, listener
  <2>3. InUseIsAccountedFor'
    BY <2>1, <2>2, AccountFrame
  <2> QED
    BY <1>s, <2>3 DEF InUseIsAccountedFor, Account
<1>3. CASE PersistAllocation
  <2>1. /\ UNCHANGED <<calls, inv, did, found, dangling>>
        /\ lpc = "alloc_db" /\ lpc' = "create"
    BY <1>3 DEF PersistAllocation
  <2>2. PICK ok \in BOOLEAN : /\ db' = IF ok THEN WithRow(did, CallKey(inv)) ELSE db
                             /\ lost' = IF ok THEN lost \ {did} ELSE lost
    BY <1>3 DEF PersistAllocation
  <2>3. CASE ok /\ d = did
    BY <1>s, <2>1, <2>2, <2>3 DEF WithRow, Account, CallKey
  <2>4. CASE ~ok \/ d # did
    <3>1. d \in DOMAIN db /\ db'[d] = db[d] /\ (d \in lost => d \in lost')
      BY <1>s, <2>2, <2>4 DEF WithRow
    <3> QED
      BY <1>i, <1>s, <2>1, <3>1 DEF Account, Keeps
  <2> QED
    BY <2>3, <2>4
<1>4. CASE CreateCall
  <2>1. UNCHANGED <<db, invites>> /\ lpc = "create" /\ Account(d)
    BY <1>4, <1>i, <1>s DEF CreateCall, pool
  <2>2. PICK read \in ReadDid(did) :
          /\ calls' = [n \in DOMAIN calls \cup {invites} |->
               IF n = invites
               THEN [call_id |-> CallKey(inv), header |-> inv.callId, did |-> read,
                     stage |-> 1, age |-> 0]
               ELSE calls[n]]
          /\ lost' = lost \cup ({did} \ {read})
    BY <1>4 DEF CreateCall
  <2>3. CASE \E n \in DOMAIN calls : Keeps(n, d)
    <3>1. PICK n \in DOMAIN calls : Keeps(n, d)
      BY <2>3
    <3>2. n \in DOMAIN calls' /\ calls'[n] = calls[n]
      BY <2>1, <2>2 DEF Fresh
    <3> QED
      BY <2>1, <3>1, <3>2 DEF Account, Keeps
  <2>4. CASE did = d /\ CallKey(inv) = db[d] /\ read = d
    <3>1. /\ invites \in DOMAIN calls' /\ calls'[invites].did = d
          /\ calls'[invites].stage = 1 /\ calls'[invites].call_id = CallKey(inv)
      BY <2>2, <2>4
    <3> QED
      BY <2>1, <2>4, <3>1 DEF Account, Keeps
  <2>5. CASE d \in lost \/ (did = d /\ read # d)
    BY <2>2, <2>5 DEF Account
  <2> QED
    BY <2>1, <2>3, <2>4, <2>5 DEF Account
<1>5. CASE AdvanceCall
  <2>1. /\ UNCHANGED <<db, inv, did, found, dangling, lost>>
        /\ lpc = "stage" /\ lpc' = "release"
    BY <1>5 DEF AdvanceCall, pool
  <2>2. CASE \E n \in DOMAIN calls : Keeps(n, d)
    <3>1. PICK n \in DOMAIN calls : Keeps(n, d)
      BY <2>2
    <3>2. CASE dangling \/ n # found
      <4>1. n \in DOMAIN calls' /\ calls'[n] = calls[n]
        BY <1>5, <1>p, <3>2 DEF AdvanceCall, CallTypeOK
      <4> QED
        BY <2>1, <3>1, <4>1 DEF Account, Keeps
    <3>3. CASE ~dangling /\ n = found
      <4>1. /\ found \in DOMAIN calls' /\ calls'[found].did = calls[found].did
            /\ calls'[found].call_id = calls[found].call_id
        BY <1>5, <1>p, <1>c, <3>1, <3>3 DEF AdvanceCall, CallState, CallTypeOK
      <4> QED
        BY <2>1, <3>1, <3>3, <4>1 DEF Account, Keeps
    <3> QED
      BY <3>2, <3>3
  <2> QED
    BY <1>i, <1>s, <2>1, <2>2 DEF Account
<1>6. CASE ReleaseDid
  <2>1. UNCHANGED <<db, calls>> /\ lpc = "release" /\ Account(d)
    BY <1>6, <1>i, <1>s DEF ReleaseDid
  <2>2. PICK read \in ReadDid(IF dangling THEN NoDid ELSE calls[found].did) :
          \/ did' = read /\ lpc' = "rel_db" /\ UNCHANGED lost
          \/ lost' = lost \cup ({read} \cap DOMAIN db)
    BY <1>6 DEF ReleaseDid
  <2>3. CASE \E n \in DOMAIN calls : Keeps(n, d)
    <3>1. PICK n \in DOMAIN calls : Keeps(n, d)
      BY <2>3
    <3>2. CASE calls[n].stage = 1
      BY <2>1, <3>1, <3>2 DEF Account, Keeps
    <3>3. CASE ~dangling /\ n = found
      <4>1. read = d
        BY <2>2, <3>1, <3>3 DEF Keeps, ReadDid
      <4> QED
        BY <1>s, <2>1, <2>2, <4>1 DEF Account
    <3> QED
      BY <3>1, <3>2, <3>3 DEF Keeps
  <2>4. CASE d \in lost
    BY <2>2, <2>4 DEF Account
  <2> QED
    BY <2>1, <2>3, <2>4 DEF Account
<1>7. CASE PersistRelease
  <2>1. UNCHANGED calls /\ lpc = "rel_db"
    BY <1>7 DEF PersistRelease
  <2>2. PICK ok \in BOOLEAN : /\ db' = IF ok THEN WithRow(did, None) ELSE db
                             /\ lost' = IF ok THEN lost \ {did} ELSE lost \cup {did}
    BY <1>7 DEF PersistRelease
  <2>3. d \in DOMAIN db /\ db'[d] = db[d] /\ (d = did => ~ok)
    BY <1>s, <2>2 DEF WithRow
  <2>4. d = did \/ d \in lost => d \in lost'
    BY <2>2, <2>3
  <2> QED
    BY <1>i, <1>s, <2>1, <2>3, <2>4 DEF Account, Keeps
<1>8. CASE ExpireCalls
  <2>1. UNCHANGED <<db, lpc, inv, did, found>> /\ Account(d)
    BY <1>8, <1>i, <1>s DEF ExpireCalls, pool
  <2>2. /\ calls' = [n \in DOMAIN calls \ Expired |-> calls[n]]
        /\ dangling' = (dangling \/ (lpc \in {"stage", "release"} /\ found \in Expired))
        /\ lost' = lost \cup {calls[n].did : n \in {n \in Expired :
                               calls[n].stage = 1 \/ (lpc = "release" /\ n = found)}}
    BY <1>8 DEF ExpireCalls
  <2>3. CASE \E n \in DOMAIN calls : Keeps(n, d)
    <3>1. PICK n \in DOMAIN calls : Keeps(n, d)
      BY <2>3
    <3>2. CASE n \in Expired
      BY <2>2, <3>1, <3>2 DEF Account, Keeps
    <3>3. CASE n \notin Expired
      <4>1. /\ n \in DOMAIN calls' /\ calls'[n] = calls[n]
            /\ (n = found /\ ~dangling => ~dangling')
        BY <2>2, <3>3
      <4> QED
        BY <2>1, <3>1, <4>1 DEF Account, Keeps
    <3> QED
      BY <3>2, <3>3
  <2> QED
    BY <2>1, <2>2, <2>3 DEF Account, CallKey
<1>9. CASE Sleep
  <2>1. UNCHANGED <<db, lpc, inv, did, found, dangling, lost>> /\ Account(d)
    BY <1>9, <1>i, <1>s DEF Sleep, listener
  <2>2. /\ DOMAIN calls' = DOMAIN calls
        /\ \A n \in DOMAIN calls :
             /\ calls'[n].did = calls[n].did /\ calls'[n].stage = calls[n].stage
             /\ calls'[n].call_id = calls[n].call_id
    BY <1>9, <1>c DEF Sleep, CallState
  <2> QED
    BY <2>1, <2>2 DEF Account, Keeps, CallKey
<1>10. CASE Operator
  <2>1. UNCHANGED <<calls, lpc, inv, did, found, dangling>>
    BY <1>10 DEF Operator, OperatorRelease, OperatorDelete, OperatorAdd, listener
  <2>2. d \in DOMAIN db /\ db'[d] = db[d] /\ (d \in lost => d \in lost')
    BY <1>10, <1>s DEF Operator, OperatorRelease, OperatorDelete, OperatorAdd, WithRow
  <2> QED
    BY <1>i, <1>s, <2>1, <2>2 DEF Account, Keeps, CallKey
<1>11. CASE Restart
  BY <1>11, <1>s DEF Restart, Account
<1> QED
  BY <1>1, <1>2, <1>3, <1>4, <1>5, <1>6, <1>7, <1>8, <1>9, <1>10, <1>11
     DEF Next, Network, Listen, Monitor

(* Whatever the interleaving, the failures, the operators and the limits:  *)
(* a DID the table says is in use is carried by a waiting call of that     *)
(* number, or in the hand of the listen thread, or was lost in one of the  *)
(* five ways.                                                              *)
THEOREM Accounted == Spec => []InUseIsAccountedFor
<1>1. Init => Fresh /\ InUseIsAccountedFor
  BY DEF Init, Fresh, InUseIsAccountedFor
<1>2. TypeOK /\ Fresh /\ InUseIsAccountedFor /\ [Next]_vars =>
        Fresh' /\ InUseIsAccountedFor'
  BY FreshStep, AccountStep
<1> QED
  BY <1>1, <1>2, TypeCorrect, PTL DEF Spec

-----------------------------------------------------------------------------
(* Why an allocation survives a reload and a restart.                      *)
(*                                                                         *)
(* Between the change of the list and the UPDATE the listen thread holds   *)
(* did_mutex, so the node it changed is still there and still says what    *)
(* the UPDATE will write; without operators every node has its row.        *)

InTransit ==
  /\ lpc = "alloc_db" => did \in DOMAIN dids /\ dids[did].holder = CallKey(inv)
  /\ lpc = "rel_db" => did \in DOMAIN dids /\ ~dids[did].timed

RowsKept == edits = 0 => DOMAIN db = Dids

DurableInv == MutexInv /\ InTransit /\ RowsKept /\ AllocationDurable

(* release_did writes one node, which has no allocation time then, and     *)
(* keeps the mutex; or it knows no such DID.                               *)
LEMMA ReleaseWrites ==
  ASSUME ReleaseDid
  PROVE  /\ db' = db /\ lpc = "release"
         /\ \/ /\ lpc' = "rel_db" /\ did' \in DOMAIN dids /\ DOMAIN dids' = DOMAIN dids
               /\ ~dids'[did'].timed
               /\ \A d \in DOMAIN dids : d # did' => dids'[d] = dids[d]
            \/ lpc' = "recv" /\ dids' = dids
<1>1. PICK read :
        \/ /\ read \in DOMAIN dids
           /\ dids' = WithEntry(read, None, FALSE)
           /\ did' = read /\ lpc' = "rel_db"
        \/ Idle /\ UNCHANGED dids
  BY DEF ReleaseDid
<1>2. db' = db /\ lpc = "release"
  BY DEF ReleaseDid
<1>3. CASE Idle /\ UNCHANGED dids
  BY <1>2, <1>3 DEF Idle
<1>4. CASE /\ read \in DOMAIN dids
           /\ dids' = WithEntry(read, None, FALSE)
           /\ did' = read /\ lpc' = "rel_db"
  <2>1. /\ DOMAIN dids' = DOMAIN dids
        /\ dids'[read] = [holder |-> None, timed |-> FALSE, age |-> 0]
        /\ \A d \in DOMAIN dids : d # read => dids'[d] = dids[d]
    BY <1>4 DEF WithEntry
  <2>2. ~dids'[read].timed
    BY <2>1
  <2> QED
    BY <1>2, <1>4, <2>1, <2>2
<1> QED
  BY <1>1, <1>3, <1>4

(* No reload replaces the list between its change and the UPDATE.          *)
LEMMA InTransitStep == TypeOK /\ MutexInv /\ InTransit /\ [Next]_vars => InTransit'
<1> SUFFICES ASSUME TypeOK, MutexInv, InTransit, [Next]_vars PROVE InTransit'
  OBVIOUS
<1>1. CASE UNCHANGED <<dids, lpc, inv, did>>
  BY <1>1 DEF InTransit, CallKey
<1>2. CASE lpc' \notin {"alloc_db", "rel_db"}
  BY <1>2 DEF InTransit
<1>3. CASE AllocateDid
  BY <1>3 DEF AllocateDid, InTransit, FreeDids, WithEntry, CallKey
<1>4. CASE ReleaseDid
  BY <1>4, ReleaseWrites DEF InTransit
<1>5. CASE InstallDids
  BY <1>5, <1>2 DEF InstallDids, MutexInv
<1>6. CASE Sleep
  <2>1. \A d \in DOMAIN dids : dids[d] \in Entry
    BY DEF TypeOK, PoolTypeOK
  <2>2. /\ UNCHANGED <<lpc, inv, did>> /\ DOMAIN dids' = DOMAIN dids
        /\ \A d \in DOMAIN dids : /\ dids'[d].timed = dids[d].timed
                                  /\ dids'[d].holder = dids[d].holder
    BY <1>6, <2>1 DEF Sleep, listener, Entry
  <2> QED
    BY <2>2 DEF InTransit, CallKey
<1>7. CASE Network \/ Operator \/ UNCHANGED vars
  BY <1>7, <1>1, <1>2 DEF Network, Operator, ReceiveOrigin, ReceiveReturn,
     OperatorRelease, OperatorDelete, OperatorAdd, vars, pool, listener
<1>8. CASE Listen
  BY <1>8, <1>2, <1>3, <1>4 DEF Listen, NoDidAvailable, PersistAllocation, CreateCall,
     FinalNotFound, AdvanceCall, PersistRelease, Idle
<1>9. CASE Monitor
  BY <1>9, <1>1, <1>5, <1>6 DEF Monitor, LoadDids, CleanStaleDids, CleanBlocks,
     ExpireCalls, pool, listener
<1>10. CASE Restart
  BY <1>10, <1>2 DEF Restart, Idle
<1> QED
  BY <1>7, <1>8, <1>9, <1>10 DEF Next

(* Only an operator adds or takes away rows of the table.                  *)
LEMMA RowsStep == TypeOK /\ RowsKept /\ [Next]_vars => RowsKept'
<1> SUFFICES ASSUME TypeOK, RowsKept, [Next]_vars PROVE RowsKept'
  OBVIOUS
<1>1. edits \in Nat
  BY DEF TypeOK, EnvTypeOK
<1>2. CASE Operator
  <2>1. edits' = edits + 1
    BY <1>2 DEF Operator, OperatorRelease, OperatorDelete, OperatorAdd
  <2> QED
    BY <1>1, <2>1 DEF RowsKept
<1>3. CASE PersistAllocation \/ PersistRelease
  BY <1>3 DEF PersistAllocation, PersistRelease, WithRow, RowsKept
<1>4. CASE UNCHANGED <<db, edits>>
  BY <1>4 DEF RowsKept
<1> QED
  BY <1>2, <1>3, <1>4 DEF Next, Network, Listen, Monitor, vars, ReceiveOrigin,
     ReceiveReturn, AllocateDid, NoDidAvailable, CreateCall, FinalNotFound,
     AdvanceCall, ReleaseDid, LoadDids, InstallDids, CleanStaleDids, CleanBlocks,
     ExpireCalls, Sleep, Restart, pool, env

(* Failed queries and edits are counted.                                   *)
LEMMA CountersGrow ==
  ASSUME TypeOK, [Next]_vars
  PROVE  /\ failures' = 0 => failures = 0
         /\ edits' = 0 => edits = 0
<1>1. /\ failures \in Nat /\ edits \in Nat /\ invites \in Nat
      /\ DOMAIN calls \subseteq 1 .. invites
  BY DEF TypeOK, EnvTypeOK, CallTypeOK
<1>e. ExpireCalls => (failures' = 0 => failures = 0)
  BY <1>1, FailuresGrow DEF ExpireCalls
<1>2. ASSUME NEW ok, Query(ok) PROVE failures' = 0 => failures = 0
  BY <1>1, <1>2 DEF Query
<1>3. failures' = 0 => failures = 0
  BY <1>e, <1>2 DEF Next, Network, Listen, Monitor, Operator, vars, ReceiveOrigin,
     ReceiveReturn, OperatorRelease, OperatorDelete, OperatorAdd, AllocateDid,
     NoDidAvailable, PersistAllocation, CreateCall, FinalNotFound, AdvanceCall,
     ReleaseDid, PersistRelease, LoadDids, InstallDids, CleanStaleDids,
     CleanBlocks, Sleep, Restart, env
<1>4. edits' = edits \/ edits' = edits + 1
  BY DEF Next, Network, Listen, Monitor, Operator, vars, ReceiveOrigin,
     ReceiveReturn, OperatorRelease, OperatorDelete, OperatorAdd, AllocateDid,
     NoDidAvailable, PersistAllocation, CreateCall, FinalNotFound, AdvanceCall,
     ReleaseDid, PersistRelease, LoadDids, InstallDids, CleanStaleDids,
     CleanBlocks, ExpireCalls, Sleep, Restart, env
<1> QED
  BY <1>1, <1>3, <1>4

(* Each UPDATE writes what the list says of the DID; no other step touches *)
(* a node with an allocation time.                                         *)
LEMMA DurableStep ==
  TypeOK /\ DurableInv /\ [Next]_vars => AllocationDurable'
<1> SUFFICES ASSUME TypeOK, DurableInv, [Next]_vars, failures' = 0, edits' = 0
             PROVE  \A d \in DOMAIN dids' :
                      dids'[d].timed /\ ~(lpc' = "alloc_db" /\ did' = d) =>
                        d \in DOMAIN db' /\ db'[d] = dids'[d].holder
  BY DEF AllocationDurable
<1>0. failures = 0 /\ edits = 0
  BY CountersGrow
<1>p. PoolTypeOK /\ failures \in Nat /\ edits \in Nat
  BY DEF TypeOK, EnvTypeOK
<1>i. InTransit
  BY DEF DurableInv
<1>a. \A d \in DOMAIN dids :
        dids[d].timed /\ ~(lpc = "alloc_db" /\ did = d) =>
          d \in DOMAIN db /\ db[d] = dids[d].holder
  BY <1>0 DEF DurableInv, AllocationDurable
<1>q. ASSUME NEW ok, Query(ok) PROVE ok
  BY <1>0, <1>q DEF Query
<1>1. CASE UNCHANGED <<db, dids, lpc, did>>
  BY <1>1, <1>a
<1>2. CASE UNCHANGED <<db, dids>> /\ lpc # "alloc_db"
  BY <1>2, <1>a
<1>3. CASE AllocateDid
  <2>1. PICK d \in FreeDids : dids' = WithEntry(d, CallKey(inv), TRUE) /\ did' = d
    BY <1>3 DEF AllocateDid
  <2>2. UNCHANGED db /\ lpc = "alloc" /\ lpc' = "alloc_db"
    BY <1>3 DEF AllocateDid
  <2> QED
    BY <1>a, <2>1, <2>2 DEF WithEntry
<1>4. CASE PersistAllocation
  <2>1. /\ UNCHANGED <<dids, did>> /\ lpc = "alloc_db" /\ lpc' = "create"
        /\ db' = WithRow(did, CallKey(inv))
    BY <1>4, <1>q DEF PersistAllocation
  <2>2. did \in DOMAIN db
    BY <1>0, <1>i, <1>p, <2>1 DEF InTransit, PoolTypeOK, DurableInv, RowsKept
  <2> QED
    BY <1>a, <1>i, <2>1, <2>2 DEF WithRow, InTransit
<1>5. CASE ReleaseDid
  BY <1>5, <1>a, ReleaseWrites
<1>6. CASE PersistRelease
  <2>1. /\ UNCHANGED dids /\ lpc = "rel_db"
        /\ db' = WithRow(did, None)
    BY <1>6, <1>q DEF PersistRelease
  <2> QED
    BY <1>a, <1>i, <2>1 DEF WithRow, InTransit
<1>7. CASE InstallDids \/ Restart
  <2>1. \A table : \A d \in DOMAIN Loaded(table) : ~Loaded(table)[d].timed
    BY DEF Loaded
  <2>2. \A d \in DOMAIN Empty : FALSE
    BY DEF Empty
  <2>3. \E table : dids' \in {Loaded(table), Empty}
    BY <1>7 DEF InstallDids, Restart
  <2> QED
    BY <2>1, <2>2, <2>3
<1>8. CASE Sleep
  <2>1. \A d \in DOMAIN dids : dids[d] \in Entry
    BY <1>p DEF PoolTypeOK
  <2>2. /\ UNCHANGED <<db, lpc, did>> /\ DOMAIN dids' = DOMAIN dids
        /\ \A d \in DOMAIN dids : /\ dids'[d].timed = dids[d].timed
                                  /\ dids'[d].holder = dids[d].holder
    BY <1>8, <2>1 DEF Sleep, listener, Entry
  <2> QED
    BY <1>a, <2>2
<1>9. CASE Operator
  BY <1>0, <1>9 DEF Operator, OperatorRelease, OperatorDelete, OperatorAdd
<1>10. CASE Network \/ UNCHANGED vars
  BY <1>10, <1>1, <1>2 DEF Network, ReceiveOrigin, ReceiveReturn, vars, pool
<1>11. CASE NoDidAvailable \/ CreateCall \/ FinalNotFound \/ AdvanceCall
  BY <1>11, <1>2 DEF NoDidAvailable, CreateCall, FinalNotFound, AdvanceCall, pool
<1>12. CASE LoadDids \/ CleanStaleDids \/ CleanBlocks \/ ExpireCalls
  BY <1>12, <1>1 DEF LoadDids, CleanStaleDids, CleanBlocks, ExpireCalls, pool, listener
<1> QED
  BY <1>3, <1>4, <1>5, <1>6, <1>7, <1>8, <1>9, <1>10, <1>11, <1>12
     DEF Next, Listen, Monitor

(* Without failed queries and without operators, the row of a DID taken    *)
(* since the last reload says for which call it is held, from the moment   *)
(* allocate_did returns: for any number of DIDs, calls, reloads, restarts. *)
THEOREM Durable == Spec => []AllocationDurable
<1>1. Init => DurableInv
  BY DEF Init, DurableInv, MutexInv, InTransit, RowsKept, AllocationDurable, Loaded
<1>2. TypeOK /\ DurableInv /\ [Next]_vars => DurableInv'
  BY MutexStep, InTransitStep, RowsStep, DurableStep DEF DurableInv
<1>3. DurableInv => AllocationDurable
  BY DEF DurableInv
<1> QED
  BY <1>1, <1>2, <1>3, TypeCorrect, PTL DEF Spec

-----------------------------------------------------------------------------
(* Why the stage of a call is on record.                                   *)
(*                                                                         *)
(* The UPDATE of process_invite_final names the call by the To header of   *)
(* its INVITE; that is the key of the call that was found, and of its row. *)

FoundMatches == lpc = "stage" /\ ~dangling => calls[found].call_id = CallKey(inv)

OnRecord(n) == /\ n \in DOMAIN records
               /\ records[n].call_id = calls[n].call_id
               /\ calls[n].stage = 2 => records[n].stage = 2

RecordInv == FoundMatches /\ (failures = 0 => \A n \in DOMAIN calls : OnRecord(n))

(* The call the listen thread has found keeps its key until it is freed.   *)
LEMMA FoundStep == TypeOK /\ FoundMatches /\ [Next]_vars => FoundMatches'
<1> SUFFICES ASSUME TypeOK, FoundMatches, [Next]_vars PROVE FoundMatches'
  OBVIOUS
<1>p. CallTypeOK /\ ListenerTypeOK
  BY DEF TypeOK
<1>1. CASE UNCHANGED <<calls, listener>>
  BY <1>1 DEF FoundMatches, CallKey, listener
<1>2. CASE lpc' # "stage"
  BY <1>2 DEF FoundMatches
<1>3. CASE ReceiveReturn
  BY <1>3 DEF ReceiveReturn, Matching, FoundMatches, CallKey
<1>4. CASE InstallDids
  BY <1>4 DEF InstallDids, FoundMatches, CallKey
<1>5. CASE ExpireCalls
  BY <1>5, <1>p DEF ExpireCalls, Expired, FoundMatches, ListenerTypeOK, CallKey
<1>6. CASE Sleep
  BY <1>6, <1>p DEF Sleep, FoundMatches, listener, CallKey, ListenerTypeOK,
     CallTypeOK, CallState
<1>7. CASE ReceiveOrigin \/ Listen \/ Restart
  BY <1>7, <1>2 DEF ReceiveOrigin, Listen, Restart, AllocateDid, NoDidAvailable,
     PersistAllocation, CreateCall, FinalNotFound, AdvanceCall, ReleaseDid,
     PersistRelease, Idle
<1>8. CASE \/ LoadDids \/ CleanStaleDids \/ CleanBlocks \/ Operator
           \/ UNCHANGED vars
  BY <1>8, <1>1 DEF LoadDids, CleanStaleDids, CleanBlocks, Operator, OperatorRelease,
     OperatorDelete, OperatorAdd, vars, listener
<1> QED
  BY <1>3, <1>4, <1>5, <1>6, <1>7, <1>8 DEF Next, Network, Monitor

(* The row of a call changes only with the call, or to stage 2 early.      *)
LEMMA RecordStep ==
  TypeOK /\ RecordInv /\ [Next]_vars =>
    (failures' = 0 => \A n \in DOMAIN calls' : OnRecord(n)')
<1> SUFFICES ASSUME TypeOK, RecordInv, [Next]_vars, failures' = 0,
                    NEW n \in DOMAIN calls'
             PROVE  OnRecord(n)'
  OBVIOUS
<1>0. failures = 0 /\ failures \in Nat
  BY CountersGrow DEF TypeOK, EnvTypeOK
<1>p. CallTypeOK /\ ListenerTypeOK
  BY DEF TypeOK
<1>r. /\ \A m \in DOMAIN records : records[m] \in CallRecord
      /\ \A m \in DOMAIN calls : calls[m] \in CallState
  BY <1>p DEF CallTypeOK
<1>a. \A m \in DOMAIN calls : OnRecord(m)
  BY <1>0 DEF RecordInv
<1>f. FoundMatches
  BY DEF RecordInv
<1>q. ASSUME NEW ok, Query(ok) PROVE ok
  BY <1>0, <1>q DEF Query
<1>1. CASE UNCHANGED <<calls, records>>
  BY <1>1, <1>a DEF OnRecord
<1>2. CASE CreateCall
  <2>1. PICK read :
          /\ calls' = [m \in DOMAIN calls \cup {invites} |->
               IF m = invites
               THEN [call_id |-> CallKey(inv), header |-> inv.callId, did |-> read,
                     stage |-> 1, age |-> 0]
               ELSE calls[m]]
          /\ records' = [m \in DOMAIN records \cup {invites} |->
               IF m = invites
               THEN [call_id |-> CallKey(inv), stage |-> 1, status |-> "routing"]
               ELSE records[m]]
    BY <1>2, <1>q DEF CreateCall
  <2>2. CASE n = invites
    BY <2>1, <2>2 DEF OnRecord
  <2>3. CASE n # invites
    BY <1>a, <2>1, <2>3 DEF OnRecord
  <2> QED
    BY <2>2, <2>3
<1>3. CASE AdvanceCall
  <2>1. records' = [m \in DOMAIN records |->
          IF m \in Rows({CallKey(inv)})
          THEN [records[m] EXCEPT !.stage = 2] ELSE records[m]]
    BY <1>3, <1>q DEF AdvanceCall
  <2>2. /\ DOMAIN records' = DOMAIN records
        /\ \A m \in DOMAIN records :
             /\ records'[m].call_id = records[m].call_id
             /\ records[m].stage = 2 => records'[m].stage = 2
             /\ records[m].call_id = CallKey(inv) => records'[m].stage = 2
    BY <1>r, <2>1 DEF Rows, CallRecord
  <2>3. CASE dangling
    BY <1>3, <1>a, <2>2, <2>3 DEF AdvanceCall, OnRecord
  <2>4. CASE ~dangling
    <3>1. found \in DOMAIN calls /\ calls[found].call_id = CallKey(inv)
      BY <1>3, <1>p, <1>f, <2>4 DEF AdvanceCall, ListenerTypeOK, FoundMatches
    <3>2. calls' = [calls EXCEPT ![found].stage = 2]
      BY <1>3, <2>4 DEF AdvanceCall
    <3>3. /\ n \in DOMAIN calls /\ calls'[n].call_id = calls[n].call_id
          /\ n # found => calls'[n] = calls[n]
      BY <1>r, <3>2 DEF CallState
    <3> QED
      BY <1>a, <2>2, <3>1, <3>3 DEF OnRecord
  <2> QED
    BY <2>3, <2>4
<1>4. CASE ExpireCalls
  <2>1. /\ n \in DOMAIN calls /\ calls'[n] = calls[n]
        /\ DOMAIN records' = DOMAIN records
        /\ \A m \in DOMAIN records : /\ records'[m].call_id = records[m].call_id
                                      /\ records'[m].stage = records[m].stage
    BY <1>4, <1>r DEF ExpireCalls, Expired, CallRecord
  <2> QED
    BY <1>a, <2>1 DEF OnRecord
<1>5. CASE Sleep
  <2>1. /\ n \in DOMAIN calls /\ calls'[n].call_id = calls[n].call_id
        /\ calls'[n].stage = calls[n].stage /\ UNCHANGED records
    BY <1>5, <1>r DEF Sleep, CallState
  <2> QED
    BY <1>a, <2>1 DEF OnRecord
<1>6. CASE Restart
  BY <1>6 DEF Restart, Empty
<1> QED
  BY <1>1, <1>2, <1>3, <1>4, <1>5, <1>6 DEF Next, Network, Listen, Monitor, Operator,
     vars, ReceiveOrigin, ReceiveReturn, OperatorRelease, OperatorDelete,
     OperatorAdd, AllocateDid, NoDidAvailable, PersistAllocation, FinalNotFound,
     ReleaseDid, PersistRelease, LoadDids, InstallDids, CleanStaleDids, CleanBlocks

(* While queries work, every call of the table has its row in call_records *)
(* and the row of a call that has its return leg says stage 2, although    *)
(* the UPDATE goes by a key that several calls may share.                  *)
THEOREM Recorded == Spec => []StageRecorded
<1>1. Init => RecordInv
  BY DEF Init, RecordInv, FoundMatches, Empty
<1>2. TypeOK /\ RecordInv /\ [Next]_vars => RecordInv'
  BY FoundStep, RecordStep DEF RecordInv
<1>3. RecordInv => StageRecorded
  BY DEF RecordInv, OnRecord, StageRecorded
<1> QED
  BY <1>1, <1>2, <1>3, TypeCorrect, PTL DEF Spec

-----------------------------------------------------------------------------
(* Why a row is free before it is taken again.                             *)
(*                                                                         *)
(* A DID that is free in the list is free in the table as well, but for    *)
(* the one whose release is on its way there; and the row an allocation on *)
(* its way will write is still free.                                       *)

RowIsFree(d) == \/ Free(d) /\ ~(lpc = "rel_db" /\ did = d)
                \/ lpc = "alloc_db" /\ did = d

FreeInv ==
  InStep => \A d \in DOMAIN dids \cap DOMAIN db : RowIsFree(d) => db[d] = None

LEMMA InStepBefore == TypeOK /\ [Next]_vars /\ InStep' => InStep
BY CountersGrow, CausesGrow DEF InStep

(* The list and the table part in no step of a thread, an operator or a    *)
(* restart, while queries work and results are not too old.                *)
LEMMA FreeStep == TypeOK /\ MutexInv /\ InTransit /\ FreeInv /\ [Next]_vars => FreeInv'
<1> SUFFICES ASSUME TypeOK, MutexInv, InTransit, FreeInv, [Next]_vars, InStep',
                    NEW d \in DOMAIN dids', d \in DOMAIN db', RowIsFree(d)'
             PROVE  db'[d] = None
  BY DEF FreeInv
<1>0. InStep
  BY InStepBefore
<1>1. d \in DOMAIN dids /\ d \in DOMAIN db /\ RowIsFree(d) => db[d] = None
  BY <1>0 DEF FreeInv
<1>q. ASSUME NEW ok, Query(ok) PROVE ok
  <2>1. failures = 0 /\ failures' = 0
    BY <1>0 DEF InStep
  <2> QED
    BY <1>q, <2>1 DEF Query
<1>2. CASE UNCHANGED <<db, dids, lpc, did>>
  BY <1>1, <1>2 DEF RowIsFree, Free
<1>3. CASE UNCHANGED <<db, dids>> /\ {lpc, lpc'} \cap {"alloc_db", "rel_db"} = {}
  BY <1>1, <1>3 DEF RowIsFree, Free
<1>4. CASE AllocateDid
  <2>1. PICK e \in FreeDids : dids' = WithEntry(e, CallKey(inv), TRUE) /\ did' = e
    BY <1>4 DEF AllocateDid
  <2>2. lpc = "alloc" /\ lpc' = "alloc_db" /\ UNCHANGED db
    BY <1>4 DEF AllocateDid
  <2>3. d \in DOMAIN dids /\ (d = e \/ dids'[d] = dids[d])
    BY <2>1 DEF WithEntry
  <2>4. RowIsFree(d)
    BY <2>1, <2>2, <2>3 DEF RowIsFree, Free, FreeDids
  <2> QED
    BY <1>1, <2>2, <2>3, <2>4
<1>5. CASE PersistAllocation
  <2>1. /\ lpc = "alloc_db" /\ lpc' = "create" /\ UNCHANGED <<dids, did, inv>>
        /\ db' = WithRow(did, CallKey(inv))
    BY <1>5, <1>q DEF PersistAllocation
  <2>2. did \in DOMAIN dids /\ dids[did].holder = CallKey(inv)
    BY <2>1 DEF InTransit
  <2>3. CallKey(inv) # None
    BY <2>1, SipServerAssumption DEF TypeOK, ListenerTypeOK, CallKey
  <2>4. d # did
    BY <2>1, <2>2, <2>3 DEF RowIsFree, Free
  <2> QED
    BY <1>1, <2>1, <2>4 DEF RowIsFree, Free, WithRow
<1>6. CASE ReleaseDid
  BY <1>1, <1>6, ReleaseWrites DEF RowIsFree, Free
<1>7. CASE PersistRelease
  <2>1. /\ lpc = "rel_db" /\ lpc' = "recv" /\ UNCHANGED dids
        /\ db' = WithRow(did, None)
    BY <1>7, <1>q DEF PersistRelease, Idle
  <2> QED
    BY <1>1, <2>1 DEF RowIsFree, Free, WithRow
<1>8. CASE InstallDids
  <2>1. /\ did_mutex = "free" /\ dids' = Loaded(snap) /\ UNCHANGED <<db, lpc>>
        /\ Blame("stale snapshot", \E e \in DOMAIN snap \cap DOMAIN db :
                                     snap[e] = None /\ db[e] # None)
    BY <1>8 DEF InstallDids
  <2>2. lpc' \notin {"alloc_db", "rel_db"}
    BY <2>1 DEF MutexInv
  <2>3. \A e \in DOMAIN snap \cap DOMAIN db : snap[e] = None => db[e] = None
    BY <2>1 DEF Blame, InStep
  <2>4. d \in DOMAIN snap /\ snap[d] = None
    BY <2>1, <2>2 DEF RowIsFree, Free, Loaded
  <2> QED
    BY <2>1, <2>3, <2>4
<1>9. CASE Sleep
  <2>1. \A e \in DOMAIN dids : dids[e] \in Entry
    BY DEF TypeOK, PoolTypeOK
  <2>2. /\ UNCHANGED <<db, lpc, did>> /\ DOMAIN dids' = DOMAIN dids
        /\ \A e \in DOMAIN dids : dids'[e].holder = dids[e].holder
    BY <1>9, <2>1 DEF Sleep, listener, Entry
  <2> QED
    BY <1>1, <2>2 DEF RowIsFree, Free
<1>10. CASE Operator
  <2>1. UNCHANGED <<dids, lpc, did>>
    BY <1>10 DEF Operator, OperatorRelease, OperatorDelete, OperatorAdd, listener
  <2>2. PICK x \in Dids : \/ db' = WithRow(x, None)
                         \/ db' = [e \in DOMAIN db \ {x} |-> db[e]]
                         \/ db' = [e \in DOMAIN db \cup {x} |->
                                    IF e = x THEN None ELSE db[e]]
    BY <1>10 DEF Operator, OperatorRelease, OperatorDelete, OperatorAdd
  <2>3. db'[d] = None \/ (d \in DOMAIN db /\ db'[d] = db[d])
    BY <2>2 DEF WithRow
  <2> QED
    BY <1>1, <2>1, <2>3 DEF RowIsFree, Free
<1>11. CASE Restart
  <2>1. dids' = Loaded(db) /\ UNCHANGED db /\ lpc' = "recv"
    BY <1>11, <1>q DEF Restart, Idle
  <2> QED
    BY <2>1 DEF RowIsFree, Free, Loaded
<1>12. CASE Network \/ UNCHANGED vars
  BY <1>12, <1>2, <1>3 DEF Network, ReceiveOrigin, ReceiveReturn, vars, pool
<1>13. CASE NoDidAvailable \/ CreateCall \/ FinalNotFound \/ AdvanceCall
  BY <1>13, <1>3 DEF NoDidAvailable, CreateCall, FinalNotFound, AdvanceCall, pool, Idle
<1>14. CASE LoadDids \/ CleanStaleDids \/ CleanBlocks \/ ExpireCalls
  BY <1>14, <1>2 DEF LoadDids, CleanStaleDids, CleanBlocks, ExpireCalls, pool, listener
<1> QED
  BY <1>4, <1>5, <1>6, <1>7, <1>8, <1>9, <1>10, <1>11, <1>12, <1>13, <1>14
     DEF Next, Listen, Monitor

(* Four statements write a row: an allocation takes one that is free, and  *)
(* the other three leave it free.                                          *)
LEMMA RowStep ==
  ASSUME TypeOK, InTransit, FreeInv, [Next]_vars, InStep',
         NEW d \in DOMAIN db, d \in DOMAIN db', db'[d] # db[d]
  PROVE  None \in {db[d], db'[d]}
<1>1. CASE PersistAllocation
  <2>1. lpc = "alloc_db"
    BY <1>1 DEF PersistAllocation
  <2>2. d = did
    BY <1>1 DEF PersistAllocation, WithRow
  <2>3. InStep /\ did \in DOMAIN dids
    BY <2>1, InStepBefore DEF InTransit
  <2>4. db[d] = None
    BY <2>1, <2>2, <2>3 DEF FreeInv, RowIsFree
  <2> QED
    BY <2>4
<1>2. CASE PersistRelease \/ Operator
  BY <1>2 DEF PersistRelease, Operator, OperatorRelease, OperatorDelete, OperatorAdd,
     WithRow
<1>3. CASE UNCHANGED db
  BY <1>3
<1> QED
  BY <1>1, <1>2, <1>3 DEF Next, Network, Listen, Monitor, vars, ReceiveOrigin,
     ReceiveReturn, AllocateDid, NoDidAvailable, CreateCall, FinalNotFound,
     AdvanceCall, ReleaseDid, LoadDids, InstallDids, CleanStaleDids, CleanBlocks,
     ExpireCalls, Sleep, Restart, pool

(* While queries work and no reload was older than an allocation, no step  *)
(* moves a row of dids from one number to another: for any number of DIDs, *)
(* calls and restarts, and whatever operators do to the rows.              *)
THEOREM RowsPass == Spec => PassesThroughFree
<1>1. Init => MutexInv /\ InTransit /\ FreeInv
  BY DEF Init, MutexInv, InTransit, FreeInv, RowIsFree, Loaded
<1>2. TypeOK /\ MutexInv /\ InTransit /\ FreeInv /\ [Next]_vars =>
        MutexInv' /\ InTransit' /\ FreeInv'
  BY MutexStep, InTransitStep, FreeStep
<1>3. TypeOK /\ InTransit /\ FreeInv /\ [Next]_vars =>
        [InStep' => \A d \in DOMAIN db \cap DOMAIN db' :
                      db'[d] # db[d] => None \in {db[d], db'[d]}]_vars
  BY RowStep
<1> QED
  BY <1>1, <1>2, <1>3, TypeCorrect, PTL DEF Spec, PassesThroughFree

=============================================================================

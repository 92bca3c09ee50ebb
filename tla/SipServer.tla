------------------------------ MODULE SipServer ------------------------------
(***************************************************************************)
(* The SIP server of src/sip/sip_server_dynamic.c: the DID pool, the table *)
(* of active calls and the two threads that work on them.                  *)
(*                                                                         *)
(* The listen thread takes one INVITE at a time.  An INVITE from an origin *)
(* provider takes a DID out of the pool and opens a call (stage 1).  The   *)
(* INVITE that comes back from the intermediate provider moves the call to *)
(* stage 2 and returns the DID.  The monitor thread wakes every 30 s,      *)
(* replaces the in-memory list of DIDs by what the database holds, looks   *)
(* for stale DIDs and drops calls older than an hour.  Operators edit the  *)
(* dids table from other processes; a query may fail; the process may be   *)
(* restarted.                                                              *)
(*                                                                         *)
(* Abstractions.  A look-up of a provider or a route may succeed or fail   *)
(* at will; an INVITE that is rejected changes nothing here and is not a   *)
(* step.  Of a DID we keep the call it is held for (in_use, call_id,       *)
(* destination and original_ani are always written together) and its age.  *)
(* Time is counted in sleeps of the monitor (30 s).                        *)
(***************************************************************************)
EXTENDS Naturals, FiniteSets

CONSTANTS
  Dids,           \* dids.id, numbered in the order of "ORDER BY did"
  Numbers,        \* values of the To header
  CallIds,        \* values of the Call-ID header
  None,           \* not a number: the DID is free
  StaleLimit,     \* 300 s, in sleeps of the monitor
  CallLimit,      \* 3600 s, in sleeps of the monitor
  MaxInvites,     \* bound: INVITEs that reach the pool or the call table
  MaxFailures,    \* bound: queries that fail
  MaxEdits,       \* bound: commands an operator enters
  MaxRestarts     \* bound: restarts of the process

ASSUME SipServerAssumption ==
  /\ Dids \subseteq Nat \ {0}
  /\ None \notin Numbers
  /\ StaleLimit \in Nat /\ CallLimit \in Nat
  /\ StaleLimit <= CallLimit
  /\ MaxInvites \in Nat /\ MaxFailures \in Nat
  /\ MaxEdits \in Nat /\ MaxRestarts \in Nat

VARIABLES
  db,         \* table dids: the call each row is held for
  records,    \* table call_records, one row per call opened
  dids,       \* server->dids, replaced by every reload
  did_mutex,  \* who holds it
  calls,      \* server->active_calls, indexed by the INVITE that opened them
  lpc,        \* where the listen thread is
  inv,        \* the INVITE it handles
  did,        \* the DID it has selected
  found,      \* the call it has found
  dangling,   \* the node its pointer names has been freed
  mpc,        \* where the monitor thread is
  snap,       \* the result of its query
  kept,       \* history: reloads in a row that kept the old list
  causes,     \* history: what has gone wrong with the pool so far
  lost,       \* history: DIDs whose call will not give them back
  invites, failures, edits, restarts

pool     == <<db, dids, did_mutex>>
listener == <<lpc, inv, did, found, dangling>>
monitor  == <<mpc, snap, kept>>
env      == <<invites, failures, edits, restarts>>
vars     == <<db, records, dids, did_mutex, calls, lpc, inv, did, found,
              dangling, mpc, snap, kept, causes, lost, invites, failures,
              edits, restarts>>

-----------------------------------------------------------------------------

Holder   == Numbers \cup {None}
Invite   == [callId : CallIds \cup {None}, to : Numbers \cup {None}]
NoInvite == [callId |-> None, to |-> None]
NoDid    == 0                       \* no DID, or a string that is none
Entry    == [holder : Holder, timed : BOOLEAN, age : 0 .. StaleLimit + 1]
CallState == [call_id : Numbers, header : CallIds, did : Dids \cup {NoDid},
              stage : {1, 2}, age : 0 .. CallLimit + 1]
CallRecord == [call_id : Numbers, stage : {1, 2}, status : {"routing", "timeout"}]
Cause == {"lost update", "stale snapshot", "freed pointer",
          "second release", "operator"}
Empty == [x \in {} |-> None]

PoolTypeOK ==
  /\ DOMAIN db \subseteq Dids /\ db \in [DOMAIN db -> Holder]
  /\ DOMAIN dids \subseteq Dids /\ dids \in [DOMAIN dids -> Entry]
  /\ did_mutex \in {"free", "listener", "monitor"}

CallTypeOK ==
  /\ DOMAIN calls \subseteq 1 .. invites /\ calls \in [DOMAIN calls -> CallState]
  /\ DOMAIN records \subseteq 1 .. invites
  /\ records \in [DOMAIN records -> CallRecord]

ListenerTypeOK ==
  /\ lpc \in {"recv", "alloc", "alloc_db", "create", "stage", "release", "rel_db"}
  /\ inv \in Invite
  /\ lpc # "recv" => inv.to \in Numbers /\ inv.callId \in CallIds /\ invites > 0
  /\ did \in Dids \cup {NoDid}
  /\ found \in 0 .. invites
  /\ dangling \in BOOLEAN
  /\ lpc \in {"stage", "release"} /\ ~dangling => found \in DOMAIN calls

MonitorTypeOK ==
  /\ mpc \in {"load", "install", "clean", "stuck", "expire", "sleep"}
  /\ DOMAIN snap \subseteq Dids /\ snap \in [DOMAIN snap -> Holder]
  /\ kept \in 0 .. StaleLimit + 1

EnvTypeOK ==
  /\ causes \subseteq Cause
  /\ invites \in 0 .. MaxInvites /\ failures \in 0 .. MaxFailures
  /\ edits \in 0 .. MaxEdits /\ restarts \in 0 .. MaxRestarts

LostTypeOK == lost \subseteq Dids \cup {NoDid}

TypeOK ==
  /\ PoolTypeOK /\ CallTypeOK /\ ListenerTypeOK /\ MonitorTypeOK
  /\ EnvTypeOK /\ LostTypeOK

-----------------------------------------------------------------------------
(* Slips one could make in the helpers below, each with the helper's name  *)
(* first.  No specification uses them: put in place of the helper, each    *)
(* breaks one of the properties at the end of this module.                 *)

Free(d) == dids[d].holder = None

CallKey_Missing(m) == None
WithRow_NoWhere(d, h) == [e \in DOMAIN db |-> h]
Loaded_BadTime(table) ==
  [d \in DOMAIN table |-> [holder |-> table[d], timed |-> table[d] # None,
                           age |-> StaleLimit + 1]]
Loaded_AllFree(table) ==
  [d \in DOMAIN table |-> [holder |-> None, timed |-> FALSE, age |-> 0]]
FreeDids_AlsoInUse == DOMAIN dids
Unlock_Missing == UNCHANGED did_mutex
Rows_FirstOnly(keys) ==
  {n \in DOMAIN records :
     /\ records[n].call_id \in keys
     /\ \A m \in DOMAIN records : records[m].call_id \in keys => n <= m}

-----------------------------------------------------------------------------
(* Helpers *)

(* extract_sip_header returns one static buffer, so call_id, from and to   *)
(* all read as the header extracted last, To.                              *)
CallKey(m) == m.to

(* db_query: the statement runs, or the connection is lost (or the server  *)
(* rejects the statement) and the caller gets NULL.                        *)
Query(ok) ==
  /\ ok \/ failures < MaxFailures
  /\ failures' = IF ok THEN failures ELSE failures + 1

(* UPDATE dids SET ... WHERE id = d: no row, no effect. *)
WithRow(d, h) == [e \in DOMAIN db |-> IF e = d THEN h ELSE db[e]]

WithEntry(d, h, t) ==
  [e \in DOMAIN dids |->
     IF e = d THEN [holder |-> h, timed |-> t, age |-> 0] ELSE dids[e]]

(* A list just built from a result: allocated_at is never read back. *)
Loaded(table) ==
  [d \in DOMAIN table |-> [holder |-> table[d], timed |-> FALSE, age |-> 0]]

FreeDids == {d \in DOMAIN dids : Free(d)}

(* in_use && allocated_at > 0 && now - allocated_at > 300 *)
Stale(d) == ~Free(d) /\ dids[d].timed /\ dids[d].age > StaleLimit

(* WHERE call_id = key: every row written for a call with that key. *)
Rows(keys) == {n \in DOMAIN records : records[n].call_id \in keys}

Matching(key) == {n \in DOMAIN calls : calls[n].call_id = key}

(* The strings a read through a freed node may yield. *)
ReadDid(value) == IF dangling THEN Dids \cup {NoDid} ELSE {value}

Blame(cause, yes) == causes' = IF yes THEN causes \cup {cause} ELSE causes

(* pthread_mutex_unlock(&server->did_mutex) *)
Unlock == did_mutex' = "free"

Idle ==
  /\ lpc' = "recv" /\ inv' = NoInvite
  /\ did' = NoDid /\ found' = 0 /\ dangling' = FALSE

-----------------------------------------------------------------------------
(* sip_server_create after the tables were filled, sip_server_start.       *)

Init ==
  /\ db = [d \in Dids |-> None]
  /\ dids = Loaded(db)
  /\ records = Empty /\ calls = Empty /\ snap = Empty
  /\ did_mutex = "free"
  /\ lpc = "recv" /\ inv = NoInvite /\ did = NoDid /\ found = 0
  /\ dangling = FALSE
  /\ mpc = "load" /\ kept = 0 /\ causes = {} /\ lost = {}
  /\ invites = 0 /\ failures = 0 /\ edits = 0 /\ restarts = 0

-----------------------------------------------------------------------------
(* The listen thread: an INVITE from an origin provider *)

ReceiveOrigin ==
  /\ lpc = "recv" /\ invites < MaxInvites
  /\ invites' = invites + 1
  /\ inv' \in [callId : CallIds, to : Numbers]
  /\ lpc' = "alloc"
  /\ UNCHANGED <<pool, records, calls, did, found, dangling, monitor, causes, lost,
                 failures, edits, restarts>>

(* The first free DID is marked, with did_mutex held until the UPDATE ends. *)
AllocateDid ==
  /\ lpc = "alloc" /\ did_mutex = "free"
  /\ \E d \in FreeDids :
       /\ \A e \in FreeDids : d <= e
       /\ dids' = WithEntry(d, CallKey(inv), TRUE)
       /\ did' = d
  /\ did_mutex' = "listener"
  /\ lpc' = "alloc_db"
  /\ UNCHANGED <<db, records, calls, inv, found, dangling, monitor,
                 causes, lost, env>>

NoDidAvailable ==
  /\ lpc = "alloc" /\ did_mutex = "free" /\ FreeDids = {}
  /\ Idle
  /\ UNCHANGED <<pool, records, calls, monitor, causes, lost, env>>

(* Nobody looks at what db_query returned. *)
PersistAllocation ==
  /\ lpc = "alloc_db"
  /\ \E ok \in BOOLEAN :
       /\ Query(ok)
       /\ db' = IF ok THEN WithRow(did, CallKey(inv)) ELSE db
       /\ Blame("lost update", ~ok)
       /\ lost' = IF ok THEN lost \ {did} ELSE lost
  /\ Unlock
  /\ lpc' = "create"
  /\ UNCHANGED <<records, dids, calls, inv, did, found, dangling, monitor,
                 invites, edits, restarts>>

(* did->did is read after did_mutex was released; the call is prepended to *)
(* active_calls and its row inserted.                                      *)
CreateCall ==
  /\ lpc = "create"
  /\ \E read \in ReadDid(did), ok \in BOOLEAN :
       /\ Query(ok)
       /\ calls' = [n \in DOMAIN calls \cup {invites} |->
            IF n = invites
            THEN [call_id |-> CallKey(inv), header |-> inv.callId, did |-> read,
                  stage |-> 1, age |-> 0]
            ELSE calls[n]]
       /\ records' = [n \in DOMAIN records \cup (IF ok THEN {invites} ELSE {}) |->
            IF n = invites
            THEN [call_id |-> CallKey(inv), stage |-> 1, status |-> "routing"]
            ELSE records[n]]
       /\ lost' = lost \cup ({did} \ {read})
  /\ Blame("freed pointer", dangling)
  /\ Idle
  /\ UNCHANGED <<pool, monitor, invites, edits, restarts>>

-----------------------------------------------------------------------------
(* The listen thread: the INVITE that comes back from the intermediate *)

(* active_calls is searched from its head: the latest match wins. *)
ReceiveReturn ==
  /\ lpc = "recv" /\ invites < MaxInvites
  /\ invites' = invites + 1
  /\ inv' \in [callId : CallIds, to : Numbers]
  /\ \E n \in Matching(CallKey(inv')) :
       /\ \A m \in Matching(CallKey(inv')) : m <= n
       /\ found' = n
  /\ lpc' = "stage"
  /\ UNCHANGED <<pool, records, calls, did, dangling, monitor, causes, lost,
                 failures, edits, restarts>>

FinalNotFound ==
  /\ lpc = "stage"
  /\ Idle
  /\ UNCHANGED <<pool, records, calls, monitor, causes, lost, env>>

(* found_call->stage is written without call_mutex; if the node was freed  *)
(* the write reaches no call.                                              *)
AdvanceCall ==
  /\ lpc = "stage"
  /\ calls' = IF dangling THEN calls ELSE [calls EXCEPT ![found].stage = 2]
  /\ \E ok \in BOOLEAN :
       /\ Query(ok)
       /\ records' = [n \in DOMAIN records |->
            IF ok /\ n \in Rows({CallKey(inv)})
            THEN [records[n] EXCEPT !.stage = 2] ELSE records[n]]
  /\ Blame("second release", ~dangling /\ calls[found].stage = 2)
  /\ lpc' = "release"
  /\ UNCHANGED <<pool, inv, did, found, dangling, monitor, lost, invites, edits,
                 restarts>>

(* release_did looks the DID up by its number; whose it is does not count. *)
ReleaseDid ==
  /\ lpc = "release" /\ did_mutex = "free"
  /\ \E read \in ReadDid(IF dangling THEN NoDid ELSE calls[found].did) :
       \/ /\ read \in DOMAIN dids
          /\ dids' = WithEntry(read, None, FALSE)
          /\ did_mutex' = "listener"
          /\ did' = read
          /\ lpc' = "rel_db"
          /\ UNCHANGED <<inv, found, dangling, lost>>
       \/ /\ read \notin DOMAIN dids
          /\ Idle
          /\ lost' = lost \cup ({read} \cap DOMAIN db)
          /\ UNCHANGED <<dids, did_mutex>>
  /\ Blame("freed pointer", dangling)
  /\ UNCHANGED <<db, records, calls, monitor, env>>

PersistRelease ==
  /\ lpc = "rel_db"
  /\ \E ok \in BOOLEAN :
       /\ Query(ok)
       /\ db' = IF ok THEN WithRow(did, None) ELSE db
       /\ lost' = IF ok THEN lost \ {did} ELSE lost \cup {did}
  /\ Unlock
  /\ Idle
  /\ UNCHANGED <<records, dids, calls, monitor, causes, invites, edits, restarts>>

-----------------------------------------------------------------------------
(* The monitor thread *)

(* The query of load_dids_from_db, before did_mutex is taken.  No rows and *)
(* no answer are the same NULL, and the old list stays.                    *)
LoadDids ==
  /\ mpc = "load"
  /\ \E ok \in BOOLEAN :
       /\ Query(ok)
       /\ \/ /\ ok /\ DOMAIN db # {}
             /\ snap' = db /\ mpc' = "install"
             /\ UNCHANGED kept
          \/ /\ ~ok \/ DOMAIN db = {}
             /\ kept' = IF kept > StaleLimit THEN kept ELSE kept + 1
             /\ mpc' = "clean"
             /\ UNCHANGED snap
  /\ UNCHANGED <<pool, records, calls, listener, causes, lost, invites, edits,
                 restarts>>

(* The old list is freed, also under the feet of the listen thread. *)
InstallDids ==
  /\ mpc = "install" /\ did_mutex = "free"
  /\ dids' = Loaded(snap)
  /\ snap' = Empty /\ kept' = 0
  /\ dangling' = (dangling \/ lpc = "create")
  /\ Blame("stale snapshot", \E d \in DOMAIN snap \cap DOMAIN db :
                               snap[d] = None /\ db[d] # None)
  /\ mpc' = "clean"
  /\ UNCHANGED <<db, records, did_mutex, calls, lpc, inv, did, found, lost, env>>

CleanStaleDids ==
  /\ mpc = "clean" /\ did_mutex = "free"
  /\ \A d \in DOMAIN dids : ~Stale(d)
  /\ mpc' = "expire"
  /\ UNCHANGED <<pool, records, calls, listener, snap, kept, causes, lost, env>>

(* release_did locks the mutex its caller holds. *)
CleanBlocks ==
  /\ mpc = "clean" /\ did_mutex = "free"
  /\ \E d \in DOMAIN dids : Stale(d)
  /\ did_mutex' = "monitor"
  /\ mpc' = "stuck"
  /\ UNCHANGED <<db, dids, records, calls, listener, snap, kept, causes, lost,
                 env>>

(* Calls opened more than an hour ago are freed, with an UPDATE for each;  *)
(* their DID is not released.                                              *)
Expired == {n \in DOMAIN calls : calls[n].age > CallLimit}

ExpireCalls ==
  /\ mpc = "expire"
  /\ calls' = [n \in DOMAIN calls \ Expired |-> calls[n]]
  /\ dangling' = (dangling \/ (lpc \in {"stage", "release"} /\ found \in Expired))
  /\ lost' = lost \cup {calls[n].did : n \in {n \in Expired :
                         calls[n].stage = 1 \/ (lpc = "release" /\ n = found)}}
  /\ \E failed \in SUBSET Expired :
       /\ failures' = failures + Cardinality(failed)
       /\ failures' <= MaxFailures
       /\ records' = [n \in DOMAIN records |->
            IF n \in Rows({calls[m].call_id : m \in Expired \ failed})
            THEN [records[n] EXCEPT !.status = "timeout"] ELSE records[n]]
  /\ mpc' = "sleep"
  /\ UNCHANGED <<pool, lpc, inv, did, found, snap, kept, causes, invites, edits,
                 restarts>>

(* sleep(30) *)
Older(age, limit) == IF age > limit THEN age ELSE age + 1

Sleep ==
  /\ mpc = "sleep"
  /\ dids' = [d \in DOMAIN dids |->
       IF dids[d].timed THEN [dids[d] EXCEPT !.age = Older(@, StaleLimit)] ELSE dids[d]]
  /\ calls' = [n \in DOMAIN calls |-> [calls[n] EXCEPT !.age = Older(@, CallLimit)]]
  /\ mpc' = "load"
  /\ UNCHANGED <<db, did_mutex, records, listener, snap, kept, causes, lost, env>>

-----------------------------------------------------------------------------
(* Operators and restarts *)

(* did release <number> *)
OperatorRelease(d) ==
  /\ edits < MaxEdits /\ d \in DOMAIN db
  /\ edits' = edits + 1
  /\ db' = WithRow(d, None)
  /\ Blame("operator", db[d] # None)
  /\ lost' = lost \ {d}
  /\ UNCHANGED <<dids, did_mutex, records, calls, listener, monitor, invites,
                 failures, restarts>>

(* did delete <number>; in_use is not looked at *)
OperatorDelete(d) ==
  /\ edits < MaxEdits /\ d \in DOMAIN db
  /\ edits' = edits + 1
  /\ db' = [e \in DOMAIN db \ {d} |-> db[e]]
  /\ Blame("operator", TRUE)
  /\ lost' = lost \ {d}
  /\ UNCHANGED <<dids, did_mutex, records, calls, listener, monitor, invites,
                 failures, restarts>>

(* did add <number> <country> *)
OperatorAdd(d) ==
  /\ edits < MaxEdits /\ d \in Dids \ DOMAIN db
  /\ edits' = edits + 1
  /\ db' = [e \in DOMAIN db \cup {d} |-> IF e = d THEN None ELSE db[e]]
  /\ UNCHANGED <<dids, did_mutex, records, calls, listener, monitor, causes, lost,
                 invites, failures, restarts>>

(* The process ends at any point and starts again on the same database. *)
Restart ==
  /\ restarts < MaxRestarts
  /\ restarts' = restarts + 1
  /\ \E ok \in BOOLEAN :
       /\ Query(ok)
       /\ dids' = IF ok THEN Loaded(db) ELSE Empty
  /\ did_mutex' = "free" /\ calls' = Empty
  /\ Idle
  /\ lost' = {d \in DOMAIN db : db[d] # None}
  /\ mpc' = "load" /\ snap' = Empty /\ kept' = 0
  /\ UNCHANGED <<db, records, causes, invites, edits>>

-----------------------------------------------------------------------------

Listen ==
  \/ AllocateDid \/ NoDidAvailable \/ PersistAllocation \/ CreateCall
  \/ FinalNotFound \/ AdvanceCall \/ ReleaseDid \/ PersistRelease

Monitor ==
  \/ LoadDids \/ InstallDids \/ CleanStaleDids \/ CleanBlocks
  \/ ExpireCalls \/ Sleep

Network == ReceiveOrigin \/ ReceiveReturn

Operator == \E d \in Dids : OperatorRelease(d) \/ OperatorDelete(d) \/ OperatorAdd(d)

Next == Network \/ Listen \/ Monitor \/ Operator \/ Restart

Spec == Init /\ [][Next]_vars

(* Both threads are scheduled.  A thread that waits for did_mutex gets it  *)
(* if it is released again and again: the other thread holds it for one    *)
(* pass over the list and then sleeps or waits for a datagram.  A monitor  *)
(* that has locked it against itself is never enabled again, and nothing   *)
(* is assumed of it.                                                       *)
FairSpec == Spec /\ SF_vars(Listen) /\ SF_vars(Monitor)

-----------------------------------------------------------------------------
(* Properties *)

(* A DID is held for at most one call at a time: two calls that both wait  *)
(* for their return leg never carry the same DID (allocate_did skips DIDs  *)
(* in use).                                                                *)
Waiting(n) == n \in DOMAIN calls /\ calls[n].stage = 1 /\ calls[n].did # NoDid

DidExclusive ==
  \A m, n \in DOMAIN calls :
    Waiting(m) /\ Waiting(n) /\ calls[m].did = calls[n].did => m = n

(* The DID pool keeps calls apart as long as none of five things has       *)
(* happened: an allocation that did not reach the database, a reload that  *)
(* installed a result older than an allocation, a read through a freed     *)
(* node, a second return leg for the same call, an operator taking away a  *)
(* DID in use.  Failed releases, failed reloads, expired calls, restarts   *)
(* and calls to the same number are harmless to it.                        *)
ExclusiveUnlessCaused == causes = {} => DidExclusive

(* The same as a refinement: until one of the causes, the SIP server is a  *)
(* DidPool.  Calls take DIDs one at a time, none that is out, and every    *)
(* other step only returns some.                                           *)
Out == {[call |-> n, did |-> calls[n].did] : n \in {n \in DOMAIN calls : Waiting(n)}}

Pool == INSTANCE DidPool
          WITH Calls <- 1 .. MaxInvites, out <- Out, broken <- (causes # {})

PoolKept == Pool!PoolSpec

(* A DID the table says is in use is accounted for: a call of that number  *)
(* carries it and waits for its return leg, or the INVITE being handled is *)
(* about to open that call or to give the DID back, or it is lost in one   *)
(* of five ways: its call expired, its release failed, or found no node,   *)
(* its call read another DID through a freed node, or the process was      *)
(* restarted.                                                              *)
(* No other interleaving of handlers, reloads, failures and commands       *)
(* leaves a row that nobody will free.                                     *)
Keeps(n, d) ==
  /\ calls[n].did = d /\ calls[n].call_id = db[d]
  /\ calls[n].stage = 1 \/ (lpc = "release" /\ ~dangling /\ n = found)

InUseIsAccountedFor ==
  \A d \in DOMAIN db : db[d] # None =>
    \/ \E n \in DOMAIN calls : Keeps(n, d)
    \/ lpc = "create" /\ did = d /\ CallKey(inv) = db[d]
    \/ lpc = "rel_db" /\ did = d
    \/ d \in lost

(* As long as every query works and no operator interferes, a DID taken    *)
(* since the last reload is held for the same call in the database once    *)
(* allocate_did has returned: the next reload, or a restart, will not hand *)
(* it out again.                                                           *)
AllocationDurable ==
  failures = 0 /\ edits = 0 =>
    \A d \in DOMAIN dids :
      dids[d].timed /\ ~(lpc = "alloc_db" /\ did = d) =>
        d \in DOMAIN db /\ db[d] = dids[d].holder

(* A row of the table never passes from one number to another directly: it *)
(* is free in between, so nobody who reads the table misses a release.     *)
(* The UPDATE of allocate_did takes the row without looking at it; that it *)
(* is free follows from the list in memory, as long as queries work and no *)
(* reload was older than an allocation, whatever operators do.             *)
InStep == failures = 0 /\ "stale snapshot" \notin causes

PassesThroughFree ==
  [][InStep' => \A d \in DOMAIN db \cap DOMAIN db' :
                  db'[d] # db[d] => None \in {db[d], db'[d]}]_vars

(* The monitor blocks on its own mutex only after more reloads in a row    *)
(* than StaleLimit kept the old list: while reloads succeed the stale      *)
(* cleanup finds nothing, because a fresh list has no allocation times.    *)
BlocksOnlyWithoutReloads == mpc = "stuck" => kept > StaleLimit

(* While queries work, a call that has its return leg is in stage 2 in     *)
(* call_records too, restarts included.                                    *)
StageRecorded ==
  failures = 0 =>
    \A n \in DOMAIN calls :
      n \in DOMAIN records /\ (calls[n].stage = 2 => records[n].stage = 2)

(* Every INVITE that is taken up is answered: the listen thread comes back *)
(* to recvfrom, unless the monitor has locked did_mutex against itself.    *)
InviteAnswered == lpc # "recv" ~> lpc = "recv" \/ mpc = "stuck"

(* When INVITEs and operators pause, the list in memory and the table come *)
(* to agree and stay so, whatever reloads overlapped allocations and       *)
(* whatever queries failed, or else the monitor has locked itself out and  *)
(* reloads no more.  Only a table without rows stays unnoticed: the reload *)
(* takes it for a failed query.                                            *)
PoolsAgree ==
  DOMAIN db # {} =>
    /\ DOMAIN dids = DOMAIN db
    /\ \A d \in DOMAIN dids : dids[d].holder = db[d]

PoolsConverge == <>[](PoolsAgree \/ mpc = "stuck")

(* "Reload data from database every 30 seconds": the monitor queries the   *)
(* dids table again and again.                                             *)
KeepsReloading == []<>(mpc = "load")

=============================================================================

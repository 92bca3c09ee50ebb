----------------------------- MODULE ProviderTable -----------------------------
(***************************************************************************)
(* The providers the SIP server of sip_server_dynamic.c routes by: a list  *)
(* in memory, made from the table providers by the monitor thread every    *)
(* 30 s, and read by the listen thread when an INVITE of an origin comes.  *)
(* The listen thread takes provider_mutex for each search and releases it  *)
(* with a pointer into the list in its hand; a reload frees the list.      *)
(*                                                                         *)
(* An entry of the list is its count of calls, current_calls, which goes   *)
(* up with each call, is never taken down, and is 0 again after a reload:  *)
(* no statement writes the column it is read from.  The order of the list  *)
(* (role, name) is left out, so of two providers with equally many calls   *)
(* either may be found first.  The commands that edit the table are other  *)
(* processes; their other steps are in ProviderFiles.  A restart of the    *)
(* program is one of the initial states.                                   *)
(*                                                                         *)
(* The same monitor thread goes on to the DIDs and the calls, which        *)
(* SipServer models; here that part of its loop is one step, which may     *)
(* leave the thread locked out by its own did_mutex for ever.              *)
(***************************************************************************)
EXTENDS Naturals, FiniteSets

CONSTANTS
    Origins, Intermediates, Finals,   \* the providers of each role
    Capacity,      \* the capacity of each provider
    None, Freed,   \* no provider; a pointer into a list that was freed
    MaxCalls,      \* bound: INVITEs
    MaxEdits,      \* bound: INSERTs and DELETEs of the operators
    MaxFailures    \* bound: reloads whose query fails

Providers == Origins \cup Intermediates \cup Finals
Pointers == Providers \cup {None, Freed}

ASSUME ProviderTableAssumption ==
    /\ Origins \cap Intermediates = {}
    /\ Capacity \in [Providers -> Nat]
    /\ None \notin Providers /\ Freed \notin Providers /\ None # Freed
    /\ MaxCalls \in Nat /\ MaxEdits \in Nat /\ MaxFailures \in Nat

VARIABLES
    table,      \* the active rows of table providers
    list,       \* server->providers: provider |-> current_calls
    lpc,        \* where the listen thread is in handle_sip_invite
    source,     \* source_provider
    chosen,     \* intermediate
    mpc,        \* where the monitor thread is
    result,     \* the rows its query has returned
    sent,       \* history: calls sent to each intermediate since the last reload
    stray,      \* history: since then, a freed entry named or counted a call
    calls, edits, failures

listen  == <<lpc, source, chosen>>
monitor == <<mpc, result>>
history == <<sent, stray>>
vars == <<table, list, lpc, source, chosen, mpc, result, sent, stray, calls,
          edits, failures>>

TypeOK == /\ table \subseteq Providers
          /\ DOMAIN list \subseteq Providers /\ list \in [DOMAIN list -> Nat]
          /\ lpc \in {"idle", "intermediate", "final", "did", "count"}
          /\ source \in Pointers /\ chosen \in Pointers
          /\ chosen \in Intermediates => chosen \in DOMAIN list
          /\ mpc \in {"sleep", "install", "dids", "stuck"}
          /\ result \subseteq Providers
          /\ sent \in [Intermediates -> Nat] /\ stray \in BOOLEAN
          /\ calls \in 0..MaxCalls /\ edits \in 0..MaxEdits
          /\ failures \in 0..MaxFailures

-----------------------------------------------------------------------------
(* Slips one could make in the helpers below, each with the helper's name  *)
(* first.  No specification uses them: put in place of the helper, each    *)
(* breaks one of the properties at the end of this module.                 *)

\* A list that is appended to instead of replaced.
Loaded_Appended(rows) ==
    [p \in DOMAIN list \cup rows |-> IF p \in DOMAIN list THEN list[p] ELSE 0]

\* Counts that outlive the reload, in the absence of anything that lowers them.
Loaded_Counted(rows) == [p \in rows |-> IF p \in DOMAIN list THEN list[p] ELSE 0]

\* A last entry that is given an id no row has.
Loaded_NoRow(rows) == [p \in rows \cup {None} |-> 0]

\* A search that does not compare with the capacity.
Available_Always(role) == DOMAIN list \cap role

\* A search that takes the first provider below its capacity.
Least_First(found) == found

-----------------------------------------------------------------------------
(* Helpers *)

\* The list made from the rows of a query.
Loaded(rows) == [p \in rows |-> 0]

Available(role) == {p \in DOMAIN list \cap role : list[p] < Capacity[p]}

Least(found) == {p \in found : \A q \in found : list[p] <= list[q]}

\* current_calls++ of one entry.
Counted(counts, p) == [counts EXCEPT ![p] = @ + 1]

\* What current_calls++ through a pointer makes of the list: memory that was
\* freed may belong to any entry of the new list by now, or to none.
Increments(counts, pointer) ==
    IF pointer = Freed THEN {counts} \cup {Counted(counts, p) : p \in DOMAIN counts}
    ELSE {Counted(counts, pointer)}

\* The ids an entry may show: its own, or, once it is freed, any or none.
Shown(pointer) == IF pointer = Freed THEN Providers \cup {None} ELSE {pointer}

-----------------------------------------------------------------------------

Init == /\ table \in SUBSET Providers
        /\ \E rows \in {table, {}} : list = [p \in rows |-> 0]
        /\ lpc = "idle" /\ source = None /\ chosen = None
        /\ mpc = "sleep" /\ result = {}
        /\ sent = [i \in Intermediates |-> 0] /\ stray = FALSE
        /\ calls = 0 /\ edits = 0 /\ failures = 0

-----------------------------------------------------------------------------
(* The listen thread: handle_sip_invite, the first leg *)

\* The INVITE is over, with or without a call.
Answer == lpc' = "idle" /\ source' = None /\ chosen' = None

\* find_provider_by_ip; an address of no provider is refused and changes
\* nothing.
ReceiveInvite(p) == /\ lpc = "idle" /\ calls < MaxCalls
                    /\ p \in DOMAIN list
                    /\ lpc' = "intermediate" /\ source' = p
                    /\ calls' = calls + 1
                    /\ UNCHANGED <<table, list, chosen, monitor, history, edits,
                                   failures>>

\* The role of the source is read, then find_provider_by_role("intermediate").
FindIntermediate ==
    /\ lpc = "intermediate" /\ source \in Origins \cup {Freed}
    /\ \E i \in Least(Available(Intermediates)) : chosen' = i
    /\ lpc' = "final"
    /\ UNCHANGED <<table, list, source, monitor, history, calls, edits, failures>>

\* 503, or the source is no origin: the return leg, which counts no calls, or
\* 501.
NotRouted ==
    /\ lpc = "intermediate"
    /\ \/ source \notin Origins
       \/ Available(Intermediates) = {}
    /\ Answer
    /\ UNCHANGED <<table, list, monitor, history, calls, edits, failures>>

\* find_provider_by_role("final"), which only has to find one.
FindFinal ==
    /\ lpc = "final"
    /\ IF Available(Finals) # {} THEN lpc' = "did" /\ UNCHANGED <<source, chosen>>
       ELSE Answer
    /\ UNCHANGED <<table, list, monitor, history, calls, edits, failures>>

\* allocate_did takes did_mutex, which a monitor that is stuck keeps.
NoDidAvailable ==
    /\ lpc = "did" /\ mpc # "stuck"
    /\ Answer
    /\ UNCHANGED <<table, list, monitor, history, calls, edits, failures>>

\* A DID was allocated: the call is created with the id of the intermediate.
CreateCall ==
    /\ lpc = "did" /\ mpc # "stuck"
    /\ \E i \in Shown(chosen) :
          sent' = IF i \in Intermediates THEN Counted(sent, i) ELSE sent
    /\ stray' = (stray \/ chosen = Freed)
    /\ lpc' = "count"
    /\ UNCHANGED <<table, list, source, chosen, monitor, calls, edits, failures>>

\* source_provider->current_calls++, intermediate->current_calls++.
CountCall ==
    /\ lpc = "count"
    /\ \E counts \in Increments(list, source) : list' \in Increments(counts, chosen)
    /\ stray' = (stray \/ Freed \in {source, chosen})
    /\ Answer
    /\ UNCHANGED <<table, monitor, sent, calls, edits, failures>>

-----------------------------------------------------------------------------
(* The monitor thread: load_providers_from_db *)

\* The query.  Without a row, as after a failure, there is no result and the
\* list stays.
LoadProviders ==
    /\ mpc = "sleep"
    /\ \/ table # {} /\ mpc' = "install" /\ result' = table /\ UNCHANGED failures
       \/ table = {} /\ mpc' = "dids" /\ UNCHANGED <<result, failures>>
       \/ /\ failures < MaxFailures /\ failures' = failures + 1
          /\ mpc' = "dids" /\ UNCHANGED result
    /\ UNCHANGED <<table, list, listen, history, calls, edits>>

\* Under provider_mutex the old list is freed and the new one made.
InstallProviders ==
    /\ mpc = "install"
    /\ list' = Loaded(result)
    /\ source' = IF source = None THEN None ELSE Freed
    /\ chosen' = IF chosen = None THEN None ELSE Freed
    /\ sent' = [i \in Intermediates |-> 0] /\ stray' = FALSE
    /\ mpc' = "dids" /\ result' = {}
    /\ UNCHANGED <<table, lpc, calls, edits, failures>>

\* The rest of the loop: DIDs, stale DIDs, old calls, sleep.
FinishPass ==
    /\ mpc = "dids" /\ mpc' = "sleep"
    /\ UNCHANGED <<table, list, listen, result, history, calls, edits, failures>>

\* The stale cleanup releases a DID with did_mutex held.
BlockOnDids ==
    /\ mpc = "dids" /\ mpc' = "stuck"
    /\ UNCHANGED <<table, list, listen, result, history, calls, edits, failures>>

-----------------------------------------------------------------------------
(* The operators, in processes of their own *)

Edit == edits < MaxEdits /\ edits' = edits + 1

InsertProvider(p) == /\ Edit
                     /\ p \notin table /\ table' = table \cup {p}
                     /\ UNCHANGED <<list, listen, monitor, history, calls, failures>>

DeleteProvider(p) == /\ Edit
                     /\ p \in table /\ table' = table \ {p}
                     /\ UNCHANGED <<list, listen, monitor, history, calls, failures>>

-----------------------------------------------------------------------------

Invite == FindIntermediate \/ NotRouted \/ FindFinal \/ NoDidAvailable
          \/ CreateCall \/ CountCall

Monitor == LoadProviders \/ InstallProviders \/ FinishPass \/ BlockOnDids

Next == \/ \E p \in Providers : ReceiveInvite(p)
        \/ Invite \/ Monitor
        \/ \E p \in Providers : InsertProvider(p) \/ DeleteProvider(p)

Spec == Init /\ [][Next]_vars

\* Both threads are scheduled.  They wait for each other for no longer than a
\* pass over the list, unless the monitor gets stuck: then it takes no step any
\* more, and the listen thread none that needs did_mutex.
FairSpec == Spec /\ WF_vars(Invite) /\ WF_vars(Monitor)

-----------------------------------------------------------------------------
(* Properties *)

\* "Find the provider with the specified role that has the least current
\* calls": between two reloads the calls go evenly to the intermediates, one
\* being more than one call ahead of another only when the other is full,
\* unless a pointer was used after its entry was freed.
Balanced ==
    ~stray =>
        \A i, j \in DOMAIN list \cap Intermediates :
            sent[i] <= sent[j] + 1 \/ sent[j] >= Capacity[j]

\* Between two reloads no intermediate is sent more than one call above its
\* capacity, freed entries included: the one call is that whose provider was
\* chosen from the list before.
SentBounded == \A i \in Intermediates : sent[i] <= Capacity[i] + 1

\* The list settles on the table, unless the table becomes empty, which the
\* monitor takes for a failed query, or the monitor locks itself out in the
\* part of its loop that is about DIDs.
ListConverges == <>[](table = {} \/ DOMAIN list = table \/ mpc = "stuck")

\* Capacity comes back: as long as the table has an intermediate that can take
\* calls, the server finds one below its capacity again and again, although
\* nothing counts a call down when it ends.  Only the reload brings it back, so
\* it ends with a monitor that is stuck.
CapacityReturns ==
    \/ []<>(\A i \in table \cap Intermediates : Capacity[i] = 0)
    \/ []<>(Available(Intermediates) # {})
    \/ <>(mpc = "stuck")
=============================================================================

------------------------------ MODULE Routing ------------------------------
(***************************************************************************)
(* What the files of a route make of a call.  route_cmd.c keeps the        *)
(* routes, two generators write one file per route, each into a tree of    *)
(* its own, and FreeSWITCH reads one of the trees:                         *)
(*   "dialplan"  fs_generate_module2_dialplan.c, after every route         *)
(*               command; its files run route_handler_corrected.lua        *)
(*   "conf"      fs_xml_generator.c, when a daemon or a shell starts; its  *)
(*               files run route_handler.lua and are never removed.        *)
(*                                                                         *)
(* A file has two extensions: one takes the numbers of the route's         *)
(* pattern and runs the stage "origin", the other takes every number and   *)
(* runs the return stage.  Both test network_addr with break="never",      *)
(* which sets variables and refuses nobody.  FreeSWITCH, external, takes   *)
(* the first extension that matches, in the order of the files' names, and *)
(* merges blanks when it splits the arguments, so that an empty one moves  *)
(* the next up.                                                            *)
(*                                                                         *)
(* Abstractions.  A pattern is the set of numbers it matches.  A command   *)
(* writes its files in one step (Dialplan has the steps), a handler        *)
(* allocates or releases in one (RouteHandler has those), and queries      *)
(* work.  Providers are their uuids: one added again is another one.       *)
(***************************************************************************)
EXTENDS Naturals

CONSTANTS
  Providers,   \* uuids
  None,
  Numbers,     \* numbers calls are made to
  Dids,        \* those of the pool
  Ids,         \* route ids, as places in the order of the files' names
  Patterns,    \* what patterns may match
  Offered,     \* bound: the routes an operator may add
  Calls,
  Trees        \* which trees FreeSWITCH may read

Provider == Providers \cup {None}
Route == [pattern : Patterns, origin : Provider, inter : Provider, final : Provider]

ASSUME RoutingAssumption ==
  /\ None \notin Providers /\ None \notin Numbers
  /\ Dids \subseteq Numbers /\ Ids \subseteq Nat
  /\ Patterns \subseteq SUBSET Numbers /\ Offered \subseteq Route
  /\ Trees \subseteq {"dialplan", "conf"}

VARIABLES
  reads,       \* the tree FreeSWITCH reads
  providers,   \* table providers
  owner,       \* dids.provider_id
  mapped,      \* dids.destination of those in use
  routes,      \* table routes: pattern and the three foreign keys
  files,       \* the files of both trees
  loaded,      \* what FreeSWITCH has parsed
  leg          \* each call: the leg of it that is at S2, or out

vars == <<reads, providers, owner, mapped, routes, files, loaded, leg>>

-----------------------------------------------------------------------------

RouteTable == UNION {[S -> Route] : S \in SUBSET Ids}

NoRoutes == [i \in {} |-> None]
NoRoute == [pattern |-> {}, origin |-> None, inter |-> None, final |-> None]

(* odd: what set this call apart from the flow S1-S2-S3-S2-S4; plan: the   *)
(* route that sent it out; asked: what the caller dialled                  *)
Leg == [at : {"idle", "in", "out", "final", "over"}, number : Numbers \cup {None},
        asked : Numbers \cup {None}, sent : Provider,
        plan : Route \cup {NoRoute},
        odd : SUBSET {"pattern", "unsent", "moved", "taken", "simple"}]

TypeOK ==
  /\ reads \in Trees /\ providers \subseteq Providers
  /\ owner \in [Dids -> Provider] /\ mapped \in [Dids -> Numbers \cup {None}]
  /\ routes \in RouteTable /\ loaded \in RouteTable
  /\ DOMAIN files = {"dialplan", "conf"}
  /\ \A t \in DOMAIN files : files[t] \in RouteTable
  /\ leg \in [Calls -> Leg]
  /\ \A c \in Calls : leg[c].at # "idle" => leg[c].number \in Numbers
  /\ \A d \in Dids : owner[d] \in providers \cup {None}

-----------------------------------------------------------------------------
(* Slips one could make in the helpers below, each with the helper's name  *)
(* first.  No specification uses them: put in place of the helper, each    *)
(* breaks one of the properties at the end of this module.                 *)

Available_InUse(p) == {d \in Dids : p # None /\ owner[d] = p}
Emptied_Routes(p) ==
  [i \in DOMAIN routes |->
     IF p \in {routes[i].origin, routes[i].inter, routes[i].final} THEN NoRoute
     ELSE routes[i]]
BackArguments_AsOrigin(r) == [next |-> r.final, final |-> r.inter]

-----------------------------------------------------------------------------
(* Helpers *)

(* argv[3] and argv[4] of the scripts, of the last two arguments written   *)
Arguments(first, second) ==
  [next |-> IF first = None THEN second ELSE first,
   final |-> IF first = None THEN None ELSE second]

OriginArguments(r) == Arguments(r.inter, r.final)
BackArguments(r)   == Arguments(r.origin, r.final)

(* No row matches a provider that was deleted, or an empty uuid. *)
Available(p) == {d \in Dids : p # None /\ owner[d] = p /\ mapped[d] = None}

(* The second extension of the first file takes what the first leaves. *)
First == CHOOSE i \in DOMAIN loaded : \A j \in DOMAIN loaded : i <= j
Taking == loaded[First]

(* ON DELETE SET NULL *)
Emptied(p) ==
  [i \in DOMAIN routes |->
     LET Key(k) == IF k = p THEN None ELSE k
         r == routes[i]
     IN [r EXCEPT !.origin = Key(@), !.inter = Key(@), !.final = Key(@)]]

(* a generator writes the files of all routes and FreeSWITCH reloads;      *)
(* without routes the query has no result, and nothing is written          *)
Generated(tree) == [files EXCEPT ![tree] =
  [i \in DOMAIN @ \cup DOMAIN routes' |->
     IF i \in DOMAIN routes' THEN routes'[i] ELSE @[i]]]

-----------------------------------------------------------------------------

Init ==
  /\ reads \in Trees /\ providers = Providers
  /\ owner \in [Dids -> {r.inter : r \in Offered}] /\ mapped = [d \in Dids |-> None]
  /\ routes = NoRoutes /\ loaded = NoRoutes
  /\ files = [t \in {"dialplan", "conf"} |-> NoRoutes]
  /\ leg = [c \in Calls |-> [at |-> "idle", number |-> None, asked |-> None,
                             sent |-> None, plan |-> NoRoute, odd |-> {}]]

-----------------------------------------------------------------------------
(* The commands *)

(* The three providers exist, another role than the expected one is only   *)
(* warned of, and the intermediate one has DIDs.  SERIAL ids are not given *)
(* twice; a new one may come anywhere among the names: route_10.xml comes  *)
(* before route_9.xml.                                                     *)
AddRoute(i) ==
  /\ i \notin DOMAIN routes \cup DOMAIN loaded
  /\ i \notin DOMAIN files["dialplan"] \cup DOMAIN files["conf"]
  /\ \E r \in Offered :
       /\ {r.origin, r.inter, r.final} \subseteq providers
       /\ \E d \in Dids : owner[d] = r.inter
       /\ routes' = [j \in DOMAIN routes \cup {i} |-> IF j = i THEN r ELSE routes[j]]
  /\ files' = Generated("dialplan") /\ loaded' = files'[reads]
  /\ UNCHANGED <<reads, providers, owner, mapped, leg>>

(* the file of the tree "dialplan" goes with the row *)
DeleteRoute(i) ==
  /\ i \in DOMAIN routes
  /\ routes' = [j \in DOMAIN routes \ {i} |-> routes[j]]
  /\ files' = [Generated("dialplan") EXCEPT !["dialplan"] =
                 [j \in DOMAIN @ \ {i} |-> @[j]]]
  /\ loaded' = files'[reads]
  /\ UNCHANGED <<reads, providers, owner, mapped, leg>>

ReloadRoutes ==
  /\ routes # NoRoutes /\ UNCHANGED routes
  /\ files' = Generated("dialplan") /\ loaded' = files'[reads]
  /\ UNCHANGED <<reads, providers, owner, mapped, leg>>

(* a daemon or a shell starts: sync_freeswitch_with_database *)
Synchronize ==
  /\ UNCHANGED routes
  /\ files' = Generated("conf") /\ loaded' = files'[reads]
  /\ UNCHANGED <<reads, providers, owner, mapped, leg>>

(* provider delete: the rows that refer to it lose it, the files do not;   *)
(* FreeSWITCH reloads them                                                 *)
DeleteProvider(p) ==
  /\ p \in providers
  /\ providers' = providers \ {p}
  /\ routes' = Emptied(p)
  /\ owner' = [d \in Dids |-> IF owner[d] = p THEN None ELSE owner[d]]
  /\ loaded' = files[reads]
  /\ UNCHANGED <<reads, mapped, files, leg>>

-----------------------------------------------------------------------------
(* The calls *)

(* The test of the address refuses nobody, so a caller may as well dial a  *)
(* number of the pool.                                                     *)
Place(c) ==
  /\ leg[c].at = "idle"
  /\ \E n \in Numbers :
       leg' = [leg EXCEPT ![c].at = "in", ![c].number = n, ![c].asked = n]
  /\ UNCHANGED <<reads, providers, owner, mapped, routes, files, loaded>>

(* no extension takes it, or its handler rejects it *)
Reject(c) ==
  /\ leg[c].at = "in"
  /\ \/ loaded = NoRoutes
     \/ /\ loaded # NoRoutes /\ reads = "dialplan" /\ leg[c].number \notin Taking.pattern
        /\ leg[c].number \in Dids => mapped[leg[c].number] = None
  /\ leg' = [leg EXCEPT ![c].at = "over"]
  /\ UNCHANGED <<reads, providers, owner, mapped, routes, files, loaded>>

Outward(c, number) ==
  leg' = [leg EXCEPT ![c].at = "out", ![c].number = number,
            ![c].sent = OriginArguments(Taking).next, ![c].plan = Taking,
            ![c].odd = @ \cup (IF leg[c].plan # NoRoute THEN {"pattern"} ELSE {})
                         \cup (IF reads = "conf" THEN {"simple"} ELSE {})]

(* stage "origin" of route_handler_corrected.lua *)
Allocate(c) ==
  /\ leg[c].at = "in" /\ reads = "dialplan" /\ loaded # NoRoutes
  /\ leg[c].number \in Taking.pattern
  /\ \E d \in Available(OriginArguments(Taking).next) :
       /\ mapped' = [mapped EXCEPT ![d] = leg[c].number]
       /\ Outward(c, d)
  /\ UNCHANGED <<reads, providers, owner, routes, files, loaded>>

NoneAvailable(c) ==
  /\ leg[c].at = "in" /\ reads = "dialplan" /\ loaded # NoRoutes
  /\ leg[c].number \in Taking.pattern
  /\ Available(OriginArguments(Taking).next) = {}
  /\ leg' = [leg EXCEPT ![c].at = "over"]
  /\ UNCHANGED <<reads, providers, owner, mapped, routes, files, loaded>>

(* stage "origin" of route_handler.lua: the number stays as it is *)
PassOn(c) ==
  /\ leg[c].at = "in" /\ reads = "conf" /\ loaded # NoRoutes
  /\ leg[c].number \in Taking.pattern
  /\ Outward(c, leg[c].number)
  /\ UNCHANGED <<reads, providers, owner, mapped, routes, files, loaded>>

(* the others that were sent out with the number this one comes with       *)
Robbed(c) ==
  {b \in Calls \ {c} : leg[b].at \in {"in", "out"} /\ leg[b].plan # NoRoute
                        /\ leg[b].number = leg[c].number}

Astray(c) == IF leg[c].plan = NoRoute THEN {"unsent"}
             ELSE IF leg[c].plan # Taking THEN {"moved"} ELSE {}

Forward(c, number, robbed) ==
  leg' = [b \in Calls |->
    IF b = c THEN [leg[c] EXCEPT !.at = "final", !.number = number,
                                 !.sent = BackArguments(Taking).final,
                                 !.odd = @ \cup Astray(c)]
    ELSE IF b \in robbed THEN [leg[b] EXCEPT !.odd = @ \cup {"taken"}]
    ELSE leg[b]]

(* the return stages: the first restores the number the DID stands for,    *)
(* whoever comes with it, and frees it                                     *)
Restore(c) ==
  /\ leg[c].at = "in" /\ reads = "dialplan" /\ loaded # NoRoutes
  /\ leg[c].number \in Dids \ Taking.pattern
  /\ mapped[leg[c].number] # None
  /\ mapped' = [mapped EXCEPT ![leg[c].number] = None]
  /\ Forward(c, mapped[leg[c].number], Robbed(c))
  /\ UNCHANGED <<reads, providers, owner, routes, files, loaded>>

ForwardAsIs(c) ==
  /\ leg[c].at = "in" /\ reads = "conf" /\ loaded # NoRoutes
  /\ leg[c].number \notin Taking.pattern
  /\ Forward(c, leg[c].number, {})
  /\ UNCHANGED <<reads, providers, owner, mapped, routes, files, loaded>>

(* S3, external: it sends the call back to S2, or the call ends there. *)
BringBack(c) ==
  /\ leg[c].at = "out" /\ leg[c].sent # None
  /\ leg' = [leg EXCEPT ![c].at = "in"]
  /\ UNCHANGED <<reads, providers, owner, mapped, routes, files, loaded>>

EndOutside(c) ==
  /\ leg[c].at = "out"
  /\ leg' = [leg EXCEPT ![c].at = "over"]
  /\ UNCHANGED <<reads, providers, owner, mapped, routes, files, loaded>>

-----------------------------------------------------------------------------

Command ==
  \/ \E i \in Ids : AddRoute(i) \/ DeleteRoute(i)
  \/ \E p \in Providers : DeleteProvider(p)
  \/ ReloadRoutes \/ Synchronize

Handle(c) ==
  \/ Reject(c) \/ Allocate(c) \/ NoneAvailable(c) \/ PassOn(c) \/ Restore(c)
  \/ ForwardAsIs(c)

Outside(c) == BringBack(c) \/ EndOutside(c)

Next == Command \/ \E c \in Calls : Place(c) \/ Handle(c) \/ Outside(c)

Spec == Init /\ [][Next]_vars

(* FreeSWITCH handles a leg it got, and S3 brings a call back or ends it. *)
FairSpec == Spec /\ \A c \in Calls : WF_vars(Handle(c)) /\ WF_vars(Outside(c))

-----------------------------------------------------------------------------
(* Properties *)

(* S1-S2-S3-S2-S4: a call goes out to the intermediate provider of the     *)
(* route that took it, and comes to its final provider with the number     *)
(* that was dialled; unless the pattern takes the DID too, the files       *)
(* changed while it was out, no route sent it out at all, another call     *)
(* took its DID, or FreeSWITCH reads the tree of the simple script.  A     *)
(* provider that was deleted empties an argument, and the others move up:  *)
(* without the intermediate one the call goes out to the final one,        *)
(* without the origin one it goes nowhere in the end, and its number is    *)
(* right all the same.  And a DID is taken from a call only if somebody    *)
(* has dialled a number of the pool: of calls to other numbers none takes  *)
(* another's DID, whatever patterns, providers and files become meanwhile. *)
ToIntermediate(l) ==
  l.sent = l.plan.inter \/ (l.plan.inter = None /\ l.sent = l.plan.final)
ToFinal(l) ==
  l.sent = l.plan.final \/ (l.plan.origin = None /\ l.sent = None)

FollowsRoute ==
  /\ \A c \in Calls : leg[c].odd = {} =>
       /\ leg[c].at = "out" => ToIntermediate(leg[c])
       /\ leg[c].at = "final" => ToFinal(leg[c]) /\ leg[c].number = leg[c].asked
  /\ (\E c \in Calls : "taken" \in leg[c].odd) =>
       \E c \in Calls : leg[c].asked \in Dids

(* A call ends: also one whose DID the pattern takes for another call, on  *)
(* and on until the pool is empty; in the tree "conf" nothing stops it.    *)
CallsEnd ==
  \A c \in Calls :
    leg[c].at = "in" /\ reads = "dialplan" ~> leg[c].at \in {"final", "over"}

(* "Route is now active and ready to handle Module 2 call flow": a call to *)
(* a number of a route's pattern is not turned away as unknown.            *)
RoutesServe ==
  [][\A c \in Calls : Reject(c) =>
       \A i \in DOMAIN routes : leg[c].number \notin routes[i].pattern]_vars
=============================================================================

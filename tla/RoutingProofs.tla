--------------------------- MODULE RoutingProofs ---------------------------
(***************************************************************************)
(* For any number of providers, numbers, routes and calls: the tables, the *)
(* files and the calls keep their types, and a call nothing sets apart     *)
(* from the documented flow follows the route that took it.                *)
(***************************************************************************)
EXTENDS Routing, WellFoundedInduction, TLAPS

-----------------------------------------------------------------------------
(***************************************************************************)
(* The first file, and what is written in one.                             *)
(***************************************************************************)

\* A table of routes is a function to Route on some of the ids.
LEMMA TableShape ==
  ASSUME NEW f
  PROVE  f \in RouteTable <=> DOMAIN f \subseteq Ids /\ f \in [DOMAIN f -> Route]
BY DEF RouteTable

\* A set of numbers that is not empty has a least one.
LEMMA LeastExists ==
  ASSUME NEW S, S \subseteq Nat, S # {}
  PROVE  \E i \in S : \A j \in S : i <= j
<1>1. PICK i \in S : \A j \in S : <<j, i>> \notin OpToRel(<, Nat)
  BY NatLessThanWellFounded, WFMin
<1>2. ASSUME NEW j \in S PROVE i <= j
  <2>1. ~ (j < i)
    BY <1>1, <1>2 DEF OpToRel
  <2>2. i \in Nat /\ j \in Nat
    BY <1>2
  <2>. QED
    BY <2>1, <2>2
<1>. QED
  BY <1>2

\* The first file is one of those loaded, and its route is a route.
LEMMA FirstLoaded ==
  ASSUME TypeOK, loaded # NoRoutes
  PROVE  First \in DOMAIN loaded /\ Taking \in Route
<1>1. DOMAIN loaded \subseteq Nat /\ loaded \in [DOMAIN loaded -> Route]
  BY TableShape, RoutingAssumption DEF TypeOK
<1>2. DOMAIN loaded # {}
  BY <1>1 DEF NoRoutes
<1>3. \E i \in DOMAIN loaded : \A j \in DOMAIN loaded : i <= j
  BY <1>1, <1>2, LeastExists
<1>4. First \in DOMAIN loaded
  BY <1>3 DEF First
<1>. QED
  BY <1>1, <1>4 DEF Taking

\* Both arguments are providers; when the first one is there, both stand
\* where the script expects them, and else the second has moved up.
LEMMA ArgumentsPlace ==
  ASSUME NEW first \in Provider, NEW second \in Provider
  PROVE  /\ Arguments(first, second).next \in Provider
         /\ Arguments(first, second).final \in Provider
         /\ first # None => /\ Arguments(first, second).next = first
                           /\ Arguments(first, second).final = second
         /\ first = None => /\ Arguments(first, second).next = second
                           /\ Arguments(first, second).final = None
BY DEF Arguments, Provider

\* What either generator leaves on disk is typed, when the routes are.
LEMMA GeneratedTyped ==
  ASSUME TypeOK, routes' \in RouteTable, NEW tree \in {"dialplan", "conf"}
  PROVE  /\ DOMAIN Generated(tree) = {"dialplan", "conf"}
         /\ \A t \in {"dialplan", "conf"} : Generated(tree)[t] \in RouteTable
<1> DEFINE old == files[tree]
           new == [i \in DOMAIN old \cup DOMAIN routes' |->
                     IF i \in DOMAIN routes' THEN routes'[i] ELSE old[i]]
<1>1. /\ DOMAIN old \subseteq Ids /\ old \in [DOMAIN old -> Route]
      /\ DOMAIN routes' \subseteq Ids /\ routes' \in [DOMAIN routes' -> Route]
  <2>1. old \in RouteTable
    BY DEF TypeOK
  <2>. QED
    BY <2>1, TableShape
<1>2. new \in RouteTable
  <2>1. new \in [DOMAIN old \cup DOMAIN routes' -> Route]
    BY <1>1
  <2>. QED
    BY <1>1, <2>1 DEF RouteTable
<1>3. Generated(tree) = [files EXCEPT ![tree] = new]
  BY DEF Generated
<1>. QED
  BY <1>2, <1>3 DEF TypeOK

-----------------------------------------------------------------------------
(***************************************************************************)
(* Types.                                                                  *)
(***************************************************************************)

\* A call that goes out has the fields of the route that took it.
LEMMA OutwardFields ==
  ASSUME TypeOK, loaded # NoRoutes, NEW c \in Calls, NEW n \in Numbers, Outward(c, n)
  PROVE  /\ leg' \in [Calls -> Leg]
         /\ \A b \in Calls \ {c} : leg'[b] = leg[b]
         /\ leg'[c].at = "out" /\ leg'[c].number = n /\ leg'[c].asked = leg[c].asked
         /\ leg'[c].plan = Taking
         /\ reads = "conf" => leg'[c].odd # {}
         /\ leg'[c].odd = {} =>
              leg[c].plan = NoRoute /\ ToIntermediate(leg'[c])
         /\ "taken" \in leg'[c].odd => "taken" \in leg[c].odd
<1> DEFINE args == OriginArguments(Taking)
<1>1. Taking \in Route /\ Taking.inter \in Provider /\ Taking.final \in Provider
  BY FirstLoaded DEF Route
<1>2. /\ args.next \in Provider
      /\ args.next = Taking.inter \/ (Taking.inter = None /\ args.next = Taking.final)
  BY <1>1, ArgumentsPlace DEF OriginArguments
<1>3. leg[c] \in Leg
  BY DEF TypeOK
<1> HIDE DEF args
<1>4. leg' = [leg EXCEPT ![c].at = "out", ![c].number = n,
               ![c].sent = args.next, ![c].plan = Taking,
               ![c].odd = @ \cup (IF leg[c].plan # NoRoute THEN {"pattern"} ELSE {})
                            \cup (IF reads = "conf" THEN {"simple"} ELSE {})]
  BY DEF Outward, args
<1>5. leg \in [Calls -> Leg]
  BY DEF TypeOK
<1>. QED
  BY <1>1, <1>2, <1>3, <1>4, <1>5 DEF Leg, ToIntermediate

\* A call that goes to its final provider has the fields of the first file;
\* of the others, those robbed are marked.
LEMMA ForwardFields ==
  ASSUME TypeOK, loaded # NoRoutes, NEW c \in Calls, NEW n \in Numbers,
         NEW R \in SUBSET Calls, Forward(c, n, R)
  PROVE  /\ leg' \in [Calls -> Leg]
         /\ \A b \in Calls \ {c} :
              /\ leg'[b].at = leg[b].at /\ leg'[b].number = leg[b].number
              /\ leg'[b].asked = leg[b].asked /\ leg'[b].plan = leg[b].plan
              /\ leg'[b].sent = leg[b].sent
              /\ (b \in R => leg'[b].odd = leg[b].odd \cup {"taken"})
              /\ (b \notin R => leg'[b].odd = leg[b].odd)
         /\ leg'[c].at = "final" /\ leg'[c].number = n /\ leg'[c].asked = leg[c].asked
         /\ leg'[c].odd = {} => /\ leg[c].odd = {} /\ leg[c].plan # NoRoute
                                /\ ToFinal(leg'[c])
         /\ "taken" \in leg'[c].odd => "taken" \in leg[c].odd
<1> DEFINE args == BackArguments(Taking)
<1>1. Taking \in Route /\ Taking.origin \in Provider /\ Taking.final \in Provider
  BY FirstLoaded DEF Route
<1>2. /\ args.final \in Provider
      /\ args.final = Taking.final \/ (Taking.origin = None /\ args.final = None)
  BY <1>1, ArgumentsPlace DEF BackArguments
<1>3. leg \in [Calls -> Leg] /\ \A b \in Calls : leg[b] \in Leg
  BY DEF TypeOK
<1> HIDE DEF args
<1> DEFINE here == [leg[c] EXCEPT !.at = "final", !.number = n, !.sent = args.final,
                                  !.odd = @ \cup Astray(c)]
           marked(b) == [leg[b] EXCEPT !.odd = @ \cup {"taken"}]
<1>4. leg' = [b \in Calls |-> IF b = c THEN here
                              ELSE IF b \in R THEN marked(b) ELSE leg[b]]
  BY DEF Forward, args
<1>5. /\ here \in Leg
      /\ here.at = "final" /\ here.number = n /\ here.asked = leg[c].asked
      /\ here.plan = leg[c].plan /\ here.sent = args.final
      /\ here.odd = leg[c].odd \cup Astray(c)
  BY <1>2, <1>3 DEF Leg, Astray
<1>6. ASSUME NEW b \in Calls
      PROVE  /\ marked(b) \in Leg
             /\ marked(b).at = leg[b].at /\ marked(b).number = leg[b].number
             /\ marked(b).asked = leg[b].asked /\ marked(b).plan = leg[b].plan
             /\ marked(b).sent = leg[b].sent
             /\ marked(b).odd = leg[b].odd \cup {"taken"}
  BY <1>3 DEF Leg
<1>7. leg'[c] = here
  BY <1>4
<1>8. here.odd = {} => leg[c].odd = {} /\ leg[c].plan = Taking /\ leg[c].plan # NoRoute
  BY <1>5 DEF Astray
<1>9. "taken" \in here.odd => "taken" \in leg[c].odd
  BY <1>2, <1>5 DEF Astray
<1> HIDE DEF here, marked
<1>10. leg' \in [Calls -> Leg]
  BY <1>3, <1>4, <1>5, <1>6
<1>11. ASSUME NEW b \in Calls \ {c}
       PROVE  leg'[b] = IF b \in R THEN marked(b) ELSE leg[b]
  BY <1>4
<1>12. ASSUME NEW b \in Calls \ {c}
       PROVE  /\ leg'[b].at = leg[b].at /\ leg'[b].number = leg[b].number
              /\ leg'[b].asked = leg[b].asked /\ leg'[b].plan = leg[b].plan
              /\ leg'[b].sent = leg[b].sent
              /\ (b \in R => leg'[b].odd = leg[b].odd \cup {"taken"})
              /\ (b \notin R => leg'[b].odd = leg[b].odd)
  <2>1. CASE b \in R
    BY <1>6, <1>11, <2>1
  <2>2. CASE b \notin R
    BY <1>11, <2>2
  <2>. QED
    BY <2>1, <2>2
<1>13. leg'[c].at = "final" /\ leg'[c].number = n /\ leg'[c].asked = leg[c].asked
  BY <1>5, <1>7
<1>14. leg'[c].odd = {} => /\ leg[c].odd = {} /\ leg[c].plan # NoRoute
                           /\ ToFinal(leg'[c])
  BY <1>2, <1>5, <1>7, <1>8 DEF ToFinal
<1>15. "taken" \in leg'[c].odd => "taken" \in leg[c].odd
  BY <1>7, <1>9
<1>. QED
  BY <1>10, <1>12, <1>13, <1>14, <1>15

\* Of what the lemma says, the types.
LEMMA ForwardTypes ==
  ASSUME TypeOK, loaded # NoRoutes, NEW c \in Calls, NEW n \in Numbers,
         NEW R \in SUBSET Calls, Forward(c, n, R)
  PROVE  /\ leg' \in [Calls -> Leg] /\ leg'[c].number \in Numbers
         /\ \A b \in Calls \ {c} :
              leg'[b].at = leg[b].at /\ leg'[b].number = leg[b].number
<1>1. leg' \in [Calls -> Leg] /\ leg'[c].number = n
  BY ForwardFields
<1>2. ASSUME NEW b \in Calls \ {c}
      PROVE  leg'[b].at = leg[b].at /\ leg'[b].number = leg[b].number
  BY ForwardFields
<1>. QED
  BY <1>1, <1>2

\* A step that only moves a call leaves its other fields.
LEMMA MoveFields ==
  ASSUME TypeOK, NEW c \in Calls, NEW a \in {"in", "over"},
         leg' = [leg EXCEPT ![c].at = a]
  PROVE  /\ leg' \in [Calls -> Leg]
         /\ \A b \in Calls \ {c} : leg'[b] = leg[b]
         /\ leg'[c].at = a /\ leg'[c].number = leg[c].number
         /\ leg'[c].asked = leg[c].asked /\ leg'[c].odd = leg[c].odd
         /\ leg'[c].plan = leg[c].plan /\ leg'[c].sent = leg[c].sent
<1>1. leg \in [Calls -> Leg] /\ leg[c] \in Leg
  BY DEF TypeOK
<1>. QED
  BY <1>1 DEF Leg

\* A step of a call that leaves the tables alone keeps the types, when the
\* legs and the DIDs have theirs.
LEMMA CallTyped ==
  ASSUME TypeOK, NEW c \in Calls, leg' \in [Calls -> Leg],
         \A b \in Calls \ {c} :
           leg'[b].at = leg[b].at /\ leg'[b].number = leg[b].number,
         leg'[c].number \in Numbers,
         mapped' \in [Dids -> Numbers \cup {None}],
         UNCHANGED <<reads, providers, owner, routes, files, loaded>>
  PROVE  TypeOK'
<1>1. \A b \in Calls : leg'[b].at # "idle" => leg'[b].number \in Numbers
  BY DEF TypeOK
<1>. QED
  BY <1>1 DEF TypeOK

\* A command that regenerates a tree keeps the types, when the routes do.
LEMMA WriteTyped ==
  ASSUME TypeOK, routes' \in RouteTable, NEW tree \in {"dialplan", "conf"},
         files' = Generated(tree), loaded' = files'[reads],
         UNCHANGED <<reads, providers, owner, mapped, leg>>
  PROVE  TypeOK'
<1>1. reads \in {"dialplan", "conf"}
  BY RoutingAssumption DEF TypeOK
<1>2. /\ DOMAIN files' = {"dialplan", "conf"}
      /\ \A t \in {"dialplan", "conf"} : files'[t] \in RouteTable
  BY GeneratedTyped
<1>. QED
  BY <1>1, <1>2 DEF TypeOK

\* A deleted provider leaves routes of the same ids.
LEMMA EmptiedTyped ==
  ASSUME TypeOK, NEW p \in Providers
  PROVE  Emptied(p) \in RouteTable
<1>1. DOMAIN routes \subseteq Ids /\ routes \in [DOMAIN routes -> Route]
  BY TableShape DEF TypeOK
<1>2. ASSUME NEW i \in DOMAIN routes
      PROVE  LET Key(k) == IF k = p THEN None ELSE k
             IN [routes[i] EXCEPT !.origin = Key(@), !.inter = Key(@), !.final = Key(@)]
                  \in Route
  <2>1. routes[i] \in Route
    BY <1>1, <1>2
  <2>. QED
    BY <2>1 DEF Route, Provider
<1>3. Emptied(p) \in [DOMAIN routes -> Route]
  BY <1>2 DEF Emptied
<1>. QED
  BY <1>1, <1>3 DEF RouteTable

\* One step of a command or of a call keeps every variable in its type.
LEMMA TypeStep == TypeOK /\ [Next]_vars => TypeOK'
<1> SUFFICES ASSUME TypeOK, [Next]_vars PROVE TypeOK'
  OBVIOUS
<1>1. ASSUME NEW i \in Ids, AddRoute(i) PROVE TypeOK'
  <2>1. PICK r \in Offered :
          routes' = [j \in DOMAIN routes \cup {i} |-> IF j = i THEN r ELSE routes[j]]
    BY <1>1 DEF AddRoute
  <2>2. DOMAIN routes \subseteq Ids /\ routes \in [DOMAIN routes -> Route]
    BY TableShape DEF TypeOK
  <2>3. routes' \in [DOMAIN routes \cup {i} -> Route]
    BY <2>1, <2>2, RoutingAssumption
  <2>4. routes' \in RouteTable
    BY <2>2, <2>3 DEF RouteTable
  <2>. QED
    BY <1>1, <2>4, WriteTyped DEF AddRoute
<1>2. ASSUME NEW i \in Ids, DeleteRoute(i) PROVE TypeOK'
  <2> DEFINE kept == [j \in DOMAIN Generated("dialplan")["dialplan"] \ {i} |->
                        Generated("dialplan")["dialplan"][j]]
  <2>1. DOMAIN routes \subseteq Ids /\ routes \in [DOMAIN routes -> Route]
    BY TableShape DEF TypeOK
  <2>2. routes' \in [DOMAIN routes \ {i} -> Route]
    BY <1>2, <2>1 DEF DeleteRoute
  <2>3. routes' \in RouteTable
    BY <2>1, <2>2 DEF RouteTable
  <2>4. /\ DOMAIN Generated("dialplan") = {"dialplan", "conf"}
        /\ \A t \in {"dialplan", "conf"} : Generated("dialplan")[t] \in RouteTable
    BY <2>3, GeneratedTyped
  <2>5. kept \in RouteTable
    <3>1. /\ DOMAIN Generated("dialplan")["dialplan"] \subseteq Ids
          /\ Generated("dialplan")["dialplan"]
               \in [DOMAIN Generated("dialplan")["dialplan"] -> Route]
      BY <2>4, TableShape
    <3>2. kept \in [DOMAIN Generated("dialplan")["dialplan"] \ {i} -> Route]
      BY <3>1
    <3>. QED
      BY <3>1, <3>2 DEF RouteTable
  <2>6. files' = [Generated("dialplan") EXCEPT !["dialplan"] = kept]
    BY <1>2 DEF DeleteRoute
  <2>7. /\ DOMAIN files' = {"dialplan", "conf"}
        /\ \A t \in {"dialplan", "conf"} : files'[t] \in RouteTable
    <3> HIDE DEF kept
    <3>. QED
      BY <2>4, <2>5, <2>6
  <2>8. loaded' \in RouteTable
    <3>1. reads \in {"dialplan", "conf"} /\ loaded' = files'[reads]
      BY <1>2, RoutingAssumption DEF DeleteRoute, TypeOK
    <3>. QED
      BY <2>7, <3>1
  <2>9. UNCHANGED <<reads, providers, owner, mapped, leg>>
    BY <1>2 DEF DeleteRoute
  <2>. QED
    BY <2>3, <2>7, <2>8, <2>9 DEF TypeOK
<1>3. CASE ReloadRoutes
  BY <1>3, WriteTyped DEF ReloadRoutes, TypeOK
<1>4. CASE Synchronize
  BY <1>4, WriteTyped DEF Synchronize, TypeOK
<1>5. ASSUME NEW p \in Providers, DeleteProvider(p) PROVE TypeOK'
  <2>1. routes' \in RouteTable
    BY <1>5, EmptiedTyped DEF DeleteProvider
  <2>2. loaded' \in RouteTable
    BY <1>5, RoutingAssumption DEF DeleteProvider, TypeOK
  <2>3. /\ providers' \subseteq Providers /\ owner' \in [Dids -> Provider]
        /\ \A d \in Dids : owner'[d] \in providers' \cup {None}
    BY <1>5 DEF DeleteProvider, TypeOK, Provider
  <2>. QED
    BY <1>5, <2>1, <2>2, <2>3 DEF DeleteProvider, TypeOK
<1>6. ASSUME NEW c \in Calls, Place(c) PROVE TypeOK'
  <2>1. PICK n \in Numbers :
          leg' = [leg EXCEPT ![c].at = "in", ![c].number = n, ![c].asked = n]
    BY <1>6 DEF Place
  <2>2. leg \in [Calls -> Leg] /\ leg[c] \in Leg
    BY DEF TypeOK
  <2>3. /\ leg' \in [Calls -> Leg]
        /\ \A b \in Calls \ {c} : leg'[b] = leg[b]
        /\ leg'[c].number \in Numbers
    BY <2>1, <2>2 DEF Leg
  <2>. QED
    BY <1>6, <2>3, CallTyped DEF Place, TypeOK
<1>7. ASSUME NEW c \in Calls, Handle(c) PROVE TypeOK'
  <2>0. leg[c].at = "in" => leg[c].number \in Numbers
    BY DEF TypeOK
  <2>1. CASE Reject(c)
    BY <2>0, <2>1, MoveFields, CallTyped DEF Reject, TypeOK
  <2>2. CASE Allocate(c)
    <3>1. PICK d \in Dids :
            mapped' = [mapped EXCEPT ![d] = leg[c].number] /\ Outward(c, d)
      BY <2>2 DEF Allocate, Available
    <3>2. leg[c].number \in Numbers /\ loaded # NoRoutes /\ d \in Numbers
      BY <2>0, <2>2, RoutingAssumption DEF Allocate
    <3>3. mapped' \in [Dids -> Numbers \cup {None}]
      BY <3>1, <3>2 DEF TypeOK
    <3>4. /\ leg' \in [Calls -> Leg] /\ leg'[c].number \in Numbers
          /\ \A b \in Calls \ {c} : leg'[b] = leg[b]
      BY <3>1, <3>2, OutwardFields
    <3>. QED
      BY <2>2, <3>3, <3>4, CallTyped DEF Allocate
  <2>3. CASE NoneAvailable(c)
    BY <2>0, <2>3, MoveFields, CallTyped DEF NoneAvailable, TypeOK
  <2>4. CASE PassOn(c)
    <3>1. /\ leg' \in [Calls -> Leg] /\ leg'[c].number \in Numbers
          /\ \A b \in Calls \ {c} : leg'[b] = leg[b]
      BY <2>0, <2>4, OutwardFields DEF PassOn
    <3>. QED
      BY <2>4, <3>1, CallTyped DEF PassOn, TypeOK
  <2>5. CASE Restore(c)
    <3>1. leg[c].number \in Dids /\ mapped[leg[c].number] \in Numbers
      BY <2>5 DEF Restore, TypeOK
    <3>2. mapped' \in [Dids -> Numbers \cup {None}]
      BY <2>5, <3>1 DEF Restore, TypeOK
    <3>3. /\ leg' \in [Calls -> Leg] /\ leg'[c].number \in Numbers
          /\ \A b \in Calls \ {c} :
               leg'[b].at = leg[b].at /\ leg'[b].number = leg[b].number
      <4>1. Forward(c, mapped[leg[c].number], Robbed(c)) /\ loaded # NoRoutes
        BY <2>5 DEF Restore
      <4>2. Robbed(c) \in SUBSET Calls
        BY DEF Robbed
      <4>. QED
        BY <3>1, <4>1, <4>2, ForwardTypes
    <3>. QED
      BY <2>5, <3>2, <3>3, CallTyped DEF Restore
  <2>6. CASE ForwardAsIs(c)
    <3>1. /\ leg' \in [Calls -> Leg] /\ leg'[c].number \in Numbers
          /\ \A b \in Calls \ {c} :
               leg'[b].at = leg[b].at /\ leg'[b].number = leg[b].number
      <4>1. /\ Forward(c, leg[c].number, {}) /\ loaded # NoRoutes
            /\ leg[c].number \in Numbers /\ {} \in SUBSET Calls
        BY <2>0, <2>6 DEF ForwardAsIs
      <4>. QED
        BY <4>1, ForwardTypes
    <3>. QED
      BY <2>6, <3>1, CallTyped DEF ForwardAsIs, TypeOK
  <2>. QED
    BY <1>7, <2>1, <2>2, <2>3, <2>4, <2>5, <2>6 DEF Handle
<1>8. ASSUME NEW c \in Calls, Outside(c) PROVE TypeOK'
  <2>0. leg[c].at = "out" => leg[c].number \in Numbers
    BY DEF TypeOK
  <2>1. CASE BringBack(c)
    BY <2>0, <2>1, MoveFields, CallTyped DEF BringBack, TypeOK
  <2>2. CASE EndOutside(c)
    BY <2>0, <2>2, MoveFields, CallTyped DEF EndOutside, TypeOK
  <2>. QED
    BY <1>8, <2>1, <2>2 DEF Outside
<1>9. CASE UNCHANGED vars
  BY <1>9 DEF vars, TypeOK
<1>. QED
  BY <1>1, <1>2, <1>3, <1>4, <1>5, <1>6, <1>7, <1>8, <1>9 DEF Next, Command

\* Every start of the system is typed.
LEMMA TypeInit == Init => TypeOK
<1> SUFFICES ASSUME Init PROVE TypeOK
  OBVIOUS
<1>1. NoRoutes \in RouteTable
  <2>1. NoRoutes \in [{} -> Route]
    BY DEF NoRoutes
  <2>. QED
    BY <2>1 DEF RouteTable
<1>2. owner \in [Dids -> Provider] /\ \A d \in Dids : owner[d] \in providers \cup {None}
  <2>1. \A r \in Offered : r.inter \in Provider
    BY RoutingAssumption DEF Route
  <2>. QED
    BY <2>1 DEF Init, Provider
<1>3. leg \in [Calls -> Leg] /\ \A c \in Calls : leg[c].at = "idle"
  BY DEF Init, Leg, Provider
<1>. QED
  BY <1>1, <1>2, <1>3 DEF Init, TypeOK

\* The tables, the files and the calls keep their types: for any routes,
\* numbers and calls, in the order any commands come.
THEOREM TypeCorrect == Spec => []TypeOK
<1>. QED
  BY TypeInit, TypeStep, PTL DEF Spec

-----------------------------------------------------------------------------
(***************************************************************************)
(* A call follows its route.  One that a route has sent out, and that      *)
(* nothing sets apart, carries a DID that stands for the number dialled.   *)
(* As long as nobody has dialled a number of the pool, every call that was *)
(* sent out has a DID of its own, so that none takes another's.  The       *)
(* simple script sets every call apart that it sends out.                  *)
(***************************************************************************)

Sent(c) == leg[c].at \in {"in", "out"} /\ leg[c].plan # NoRoute

NoOutsider == \A c \in Calls : leg[c].asked \notin Dids

Unsent == \A c \in Calls :
            /\ leg[c].at = "idle" => leg[c].plan = NoRoute /\ leg[c].asked = None
            /\ leg[c].at = "in" /\ leg[c].plan = NoRoute => leg[c].number = leg[c].asked
            /\ leg[c].at = "out" => leg[c].plan # NoRoute
SimpleOdd == \A c \in Calls : Sent(c) /\ reads = "conf" => leg[c].odd # {}
StandsFor == \A c \in Calls : Sent(c) /\ leg[c].odd = {} =>
               /\ leg[c].number \in Dids /\ leg[c].asked \in Numbers
               /\ mapped[leg[c].number] = leg[c].asked
OwnDid == NoOutsider /\ reads = "dialplan" =>
            \A c \in Calls : Sent(c) =>
              /\ leg[c].number \in Dids /\ mapped[leg[c].number] # None
              /\ \A b \in Calls : Sent(b) /\ leg[b].number = leg[c].number => b = c
FollowsPlan == \A c \in Calls : leg[c].odd = {} =>
       /\ leg[c].at = "out" => ToIntermediate(leg[c])
       /\ leg[c].at = "final" => ToFinal(leg[c]) /\ leg[c].number = leg[c].asked
NoneTaken == NoOutsider => \A c \in Calls : "taken" \notin leg[c].odd

FlowInv == /\ TypeOK /\ Unsent /\ SimpleOdd /\ StandsFor /\ OwnDid
           /\ FollowsPlan /\ NoneTaken

\* The property is the last two parts.
LEMMA FlowFollows == FlowInv => FollowsRoute
BY DEF FlowInv, FollowsPlan, NoneTaken, NoOutsider, FollowsRoute

\* A call that only moves, to S2 or to its end, keeps the invariant.
LEMMA MoveFlow ==
  ASSUME FlowInv, TypeOK', NEW c \in Calls, leg[c].at \in {"in", "out"},
         NEW a \in {"in", "over"}, a = "in" => leg[c].at = "out",
         leg' = [leg EXCEPT ![c].at = a], UNCHANGED <<reads, mapped>>
  PROVE  FlowInv'
<1>1. TypeOK
  BY DEF FlowInv
<1>2. /\ \A b \in Calls \ {c} : leg'[b] = leg[b]
      /\ leg'[c].at = a /\ leg'[c].number = leg[c].number
      /\ leg'[c].asked = leg[c].asked /\ leg'[c].odd = leg[c].odd
      /\ leg'[c].plan = leg[c].plan
  BY <1>1, MoveFields
<1>3. \A b \in Calls : /\ Sent(b)' => Sent(b)
                       /\ leg'[b].number = leg[b].number /\ leg'[b].asked = leg[b].asked
                       /\ leg'[b].odd = leg[b].odd /\ leg'[b].plan = leg[b].plan
  BY <1>2 DEF Sent
<1>4. Unsent'
  BY <1>2 DEF FlowInv, Unsent
<1>5. (SimpleOdd /\ StandsFor)'
  BY <1>3 DEF FlowInv, SimpleOdd, StandsFor
<1>6. (OwnDid /\ NoneTaken)'
  BY <1>3 DEF FlowInv, OwnDid, NoneTaken, NoOutsider
<1>7. FollowsPlan'
  BY <1>2 DEF FlowInv, FollowsPlan
<1>. QED
  BY <1>4, <1>5, <1>6, <1>7 DEF FlowInv

\* Init: no call is under way.
LEMMA FlowInit == Init => FlowInv
<1> SUFFICES ASSUME Init PROVE FlowInv
  OBVIOUS
<1>1. \A c \in Calls : /\ leg[c].at = "idle" /\ leg[c].plan = NoRoute
                       /\ leg[c].asked = None /\ leg[c].odd = {}
  BY DEF Init
<1>2. Unsent /\ SimpleOdd /\ StandsFor /\ OwnDid
  BY <1>1 DEF Unsent, SimpleOdd, StandsFor, OwnDid, Sent
<1>3. FollowsPlan /\ NoneTaken
  BY <1>1 DEF FollowsPlan, NoneTaken
<1>. QED
  BY <1>2, <1>3, TypeInit DEF FlowInv

\* A route whose pattern takes a number is a route.
LEMMA TakingRoute ==
  ASSUME NEW n, n \in Taking.pattern
  PROVE  Taking # NoRoute
BY DEF NoRoute

\* A call is placed: it has not been sent out.
LEMMA PlaceFlow ==
  ASSUME FlowInv, TypeOK', NEW c \in Calls, Place(c)
  PROVE  FlowInv'
<1>1. PICK n \in Numbers :
        leg' = [leg EXCEPT ![c].at = "in", ![c].number = n, ![c].asked = n]
  BY DEF Place
<1>2. leg \in [Calls -> Leg] /\ leg[c] \in Leg
  BY DEF FlowInv, TypeOK
<1>3. /\ \A b \in Calls \ {c} : leg'[b] = leg[b]
      /\ leg'[c].at = "in" /\ leg'[c].number = n /\ leg'[c].asked = n
      /\ leg'[c].odd = leg[c].odd /\ leg'[c].plan = leg[c].plan
  BY <1>1, <1>2 DEF Leg
<1>4. leg[c].plan = NoRoute /\ leg[c].asked \notin Dids /\ UNCHANGED <<reads, mapped>>
  BY RoutingAssumption DEF FlowInv, Unsent, Place
<1>5. NoOutsider' => NoOutsider
  BY <1>3, <1>4 DEF NoOutsider
<1>6. \A b \in Calls : Sent(b)' => b # c /\ Sent(b) /\ leg'[b] = leg[b]
  BY <1>3, <1>4 DEF Sent
<1>7. Unsent'
  BY <1>3 DEF FlowInv, Unsent
<1>8. (SimpleOdd /\ StandsFor)'
  BY <1>4, <1>6 DEF FlowInv, SimpleOdd, StandsFor
<1>9. OwnDid'
  BY <1>4, <1>5, <1>6 DEF FlowInv, OwnDid
<1>10. NoneTaken'
  BY <1>3, <1>5 DEF FlowInv, NoneTaken
<1>11. FollowsPlan'
  BY <1>3 DEF FlowInv, FollowsPlan
<1>. QED
  BY <1>7, <1>8, <1>9, <1>10, <1>11 DEF FlowInv

\* A DID is given that nobody has.
LEMMA AllocateFlow ==
  ASSUME FlowInv, TypeOK', NEW c \in Calls, Allocate(c)
  PROVE  FlowInv'
<1>1. PICK d \in Dids :
        /\ mapped[d] = None
        /\ mapped' = [mapped EXCEPT ![d] = leg[c].number] /\ Outward(c, d)
  BY DEF Allocate, Available
<1>2. /\ leg[c].at = "in" /\ leg[c].number \in Numbers /\ d \in Numbers
      /\ loaded # NoRoutes /\ reads # "conf" /\ reads' = reads
      /\ TypeOK /\ Taking # NoRoute
  BY RoutingAssumption, TakingRoute DEF FlowInv, TypeOK, Allocate
<1>3. /\ \A b \in Calls \ {c} : leg'[b] = leg[b]
      /\ leg'[c].at = "out" /\ leg'[c].number = d /\ leg'[c].asked = leg[c].asked
      /\ leg'[c].plan = Taking
      /\ leg'[c].odd = {} => leg[c].plan = NoRoute /\ ToIntermediate(leg'[c])
      /\ "taken" \in leg'[c].odd => "taken" \in leg[c].odd
  BY <1>1, <1>2, OutwardFields
<1>4. /\ mapped'[d] = leg[c].number /\ leg[c].number # None
      /\ \A e \in Dids \ {d} : mapped'[e] = mapped[e]
  BY <1>1, <1>2, RoutingAssumption DEF TypeOK
<1>5. \A b \in Calls \ {c} : Sent(b)' => Sent(b)
  BY <1>3 DEF Sent
<1>6. NoOutsider' => NoOutsider
  BY <1>3 DEF NoOutsider
<1>7. Unsent'
  BY <1>2, <1>3 DEF FlowInv, Unsent
<1>8. SimpleOdd'
  BY <1>2 DEF SimpleOdd
<1>9. StandsFor'
  <2>1. ASSUME NEW b \in Calls \ {c}, Sent(b)', leg'[b].odd = {}
        PROVE  /\ leg'[b].number \in Dids /\ leg'[b].asked \in Numbers
               /\ mapped'[leg'[b].number] = leg'[b].asked
    <3>1. /\ leg[b].number \in Dids /\ leg[b].asked \in Numbers
          /\ mapped[leg[b].number] = leg[b].asked
      BY <1>3, <1>5, <2>1 DEF FlowInv, StandsFor
    <3>2. leg[b].number # d
      BY <1>1, <3>1, RoutingAssumption
    <3>. QED
      BY <1>3, <1>4, <3>1, <3>2
  <2>2. leg'[c].odd = {} => leg[c].number = leg[c].asked
    BY <1>2, <1>3 DEF FlowInv, Unsent
  <2>3. leg'[c].odd = {} => leg'[c].asked \in Numbers /\ mapped'[d] = leg'[c].asked
    BY <1>2, <1>3, <1>4, <2>2
  <2>. QED
    BY <1>3, <2>1, <2>3 DEF StandsFor
<1>10. OwnDid'
  <2> SUFFICES ASSUME NoOutsider', reads' = "dialplan"
               PROVE  \A e \in Calls : Sent(e)' =>
                        /\ leg'[e].number \in Dids /\ mapped'[leg'[e].number] # None
                        /\ \A b \in Calls :
                             Sent(b)' /\ leg'[b].number = leg'[e].number => b = e
    BY DEF OwnDid
  <2>1. \A e \in Calls : Sent(e) =>
          /\ leg[e].number \in Dids /\ mapped[leg[e].number] # None
          /\ \A b \in Calls : Sent(b) /\ leg[b].number = leg[e].number => b = e
    BY <1>2, <1>6 DEF FlowInv, OwnDid
  <2>2. \A b \in Calls \ {c} : Sent(b)' =>
          leg[b].number \in Dids \ {d} /\ mapped[leg[b].number] # None
    BY <1>1, <1>5, <2>1
  <2>. QED
    BY <1>3, <1>4, <1>5, <2>1, <2>2
<1>11. FollowsPlan'
  BY <1>3 DEF FlowInv, FollowsPlan
<1>12. NoneTaken'
  BY <1>3, <1>6 DEF FlowInv, NoneTaken
<1>. QED
  BY <1>7, <1>8, <1>9, <1>10, <1>11, <1>12 DEF FlowInv

\* The simple script sends a call out with the number it came with.
LEMMA PassOnFlow ==
  ASSUME FlowInv, TypeOK', NEW c \in Calls, PassOn(c)
  PROVE  FlowInv'
<1>1. /\ leg[c].at = "in" /\ leg[c].number \in Numbers /\ reads = "conf"
      /\ UNCHANGED <<reads, mapped>> /\ loaded # NoRoutes /\ TypeOK
      /\ Outward(c, leg[c].number) /\ Taking # NoRoute
  BY TakingRoute DEF FlowInv, TypeOK, PassOn
<1>2. /\ \A b \in Calls \ {c} : leg'[b] = leg[b]
      /\ leg'[c].at = "out" /\ leg'[c].asked = leg[c].asked
      /\ leg'[c].plan = Taking /\ leg'[c].odd # {}
      /\ "taken" \in leg'[c].odd => "taken" \in leg[c].odd
  BY <1>1, OutwardFields
<1>3. \A b \in Calls \ {c} : Sent(b)' => Sent(b)
  BY <1>2 DEF Sent
<1>4. Unsent'
  BY <1>1, <1>2 DEF FlowInv, Unsent
<1>5. (SimpleOdd /\ StandsFor)'
  BY <1>1, <1>2, <1>3 DEF FlowInv, SimpleOdd, StandsFor
<1>6. OwnDid'
  BY <1>1 DEF OwnDid
<1>7. FollowsPlan'
  BY <1>2 DEF FlowInv, FollowsPlan
<1>8. NoneTaken'
  BY <1>2 DEF FlowInv, NoneTaken, NoOutsider
<1>. QED
  BY <1>4, <1>5, <1>6, <1>7, <1>8 DEF FlowInv

\* A DID is freed by whoever comes with it; the calls that have it are marked.
LEMMA RestoreFlow ==
  ASSUME FlowInv, TypeOK', NEW c \in Calls, Restore(c)
  PROVE  FlowInv'
<1> DEFINE d == leg[c].number
<1>1. /\ leg[c].at = "in" /\ d \in Dids /\ reads' = reads /\ reads # "conf"
      /\ mapped' = [mapped EXCEPT ![d] = None] /\ mapped[d] # None
      /\ Forward(c, mapped[d], Robbed(c)) /\ mapped[d] \in Numbers
      /\ loaded # NoRoutes /\ TypeOK /\ Robbed(c) \in SUBSET Calls
  BY DEF FlowInv, Restore, TypeOK, Robbed
<1>2. /\ \A b \in Calls \ {c} :
           /\ leg'[b].at = leg[b].at /\ leg'[b].number = leg[b].number
           /\ leg'[b].asked = leg[b].asked /\ leg'[b].plan = leg[b].plan
           /\ leg'[b].sent = leg[b].sent
           /\ b \in Robbed(c) => leg'[b].odd = leg[b].odd \cup {"taken"}
           /\ b \notin Robbed(c) => leg'[b].odd = leg[b].odd
      /\ leg'[c].at = "final" /\ leg'[c].number = mapped[d]
      /\ leg'[c].asked = leg[c].asked
      /\ leg'[c].odd = {} => /\ leg[c].odd = {} /\ leg[c].plan # NoRoute
                             /\ ToFinal(leg'[c])
      /\ "taken" \in leg'[c].odd => "taken" \in leg[c].odd
  BY <1>1, ForwardFields
<1>3. \A e \in Dids \ {d} : mapped'[e] = mapped[e]
  BY <1>1 DEF TypeOK
<1>4. \A b \in Calls : Sent(b)' => b \in Calls \ {c} /\ Sent(b)
  BY <1>2 DEF Sent
<1>5. \A b \in Calls \ {c} : Sent(b) /\ leg[b].number = d => b \in Robbed(c)
  BY DEF Sent, Robbed
<1>6. NoOutsider' => NoOutsider
  BY <1>2 DEF NoOutsider
<1>7. Unsent'
  BY <1>2 DEF FlowInv, Unsent
<1>8. SimpleOdd'
  BY <1>1 DEF SimpleOdd
<1>9. StandsFor'
  <2>1. ASSUME NEW b \in Calls, Sent(b)', leg'[b].odd = {}
        PROVE  /\ leg'[b].number \in Dids /\ leg'[b].asked \in Numbers
               /\ mapped'[leg'[b].number] = leg'[b].asked
    <3>1. b \in Calls \ {c} /\ Sent(b)
      BY <1>4, <2>1
    <3>2. b \notin Robbed(c) /\ leg[b].odd = {}
      BY <1>2, <2>1, <3>1
    <3>3. leg[b].number # d
      BY <1>5, <3>1, <3>2
    <3>4. /\ leg[b].number \in Dids /\ leg[b].asked \in Numbers
          /\ mapped[leg[b].number] = leg[b].asked
      BY <3>1, <3>2 DEF FlowInv, StandsFor
    <3>. QED
      BY <1>2, <1>3, <3>1, <3>3, <3>4
  <2>. QED
    BY <2>1 DEF StandsFor
<1>10. ASSUME NoOutsider, reads = "dialplan"
       PROVE  \A b \in Calls \ {c} : Sent(b) =>
                /\ leg[b].number \in Dids \ {d} /\ mapped[leg[b].number] # None
                /\ \A a \in Calls : Sent(a) /\ leg[a].number = leg[b].number => a = b
  <2>1. leg[c].plan # NoRoute
    BY <1>1, <1>10 DEF FlowInv, Unsent, NoOutsider
  <2>2. Sent(c)
    BY <1>1, <2>1 DEF Sent
  <2>. QED
    BY <1>10, <2>2 DEF FlowInv, OwnDid
<1>11. reads = "dialplan"
  BY <1>1, RoutingAssumption DEF TypeOK
<1>12. OwnDid'
  <2> SUFFICES ASSUME NoOutsider'
               PROVE  \A e \in Calls : Sent(e)' =>
                        /\ leg'[e].number \in Dids /\ mapped'[leg'[e].number] # None
                        /\ \A b \in Calls :
                             Sent(b)' /\ leg'[b].number = leg'[e].number => b = e
    BY DEF OwnDid
  <2>1. \A b \in Calls \ {c} : Sent(b) =>
          /\ leg[b].number \in Dids \ {d} /\ mapped[leg[b].number] # None
          /\ \A a \in Calls : Sent(a) /\ leg[a].number = leg[b].number => a = b
    BY <1>6, <1>10, <1>11
  <2>2. ASSUME NEW e \in Calls, Sent(e)'
        PROVE  leg'[e].number \in Dids /\ mapped'[leg'[e].number] # None
    <3>1. e \in Calls \ {c} /\ Sent(e)
      BY <1>4, <2>2
    <3>2. leg[e].number \in Dids \ {d} /\ mapped[leg[e].number] # None
      BY <2>1, <3>1
    <3>3. leg'[e].number = leg[e].number
      BY <1>2, <3>1
    <3>. QED
      BY <1>3, <3>2, <3>3
  <2>3. ASSUME NEW e \in Calls, Sent(e)', NEW b \in Calls, Sent(b)',
               leg'[b].number = leg'[e].number
        PROVE  b = e
    BY <1>2, <1>4, <2>1, <2>3
  <2>. QED
    BY <2>2, <2>3
<1>13. FollowsPlan'
  <2>1. leg'[c].odd = {} => leg'[c].number = leg'[c].asked
    BY <1>1, <1>2 DEF FlowInv, StandsFor, Sent
  <2>2. \A b \in Calls \ {c} : leg'[b].odd = {} => leg[b].odd = {}
    BY <1>2
  <2>3. ASSUME NEW b \in Calls \ {c}
        PROVE  /\ ToIntermediate(leg'[b]) <=> ToIntermediate(leg[b])
               /\ ToFinal(leg'[b]) <=> ToFinal(leg[b])
    BY <1>2 DEF ToIntermediate, ToFinal
  <2>. QED
    BY <1>2, <2>1, <2>2, <2>3 DEF FlowInv, FollowsPlan
<1>14. NoneTaken'
  <2> SUFFICES ASSUME NoOutsider'
               PROVE  \A b \in Calls : "taken" \notin leg'[b].odd
    BY DEF NoneTaken
  <2>1. \A b \in Calls : "taken" \notin leg[b].odd
    BY <1>6 DEF FlowInv, NoneTaken
  <2>2. \A b \in Calls \ {c} : b \notin Robbed(c)
    BY <1>6, <1>10, <1>11 DEF Robbed, Sent
  <2>. QED
    BY <1>2, <2>1, <2>2
<1>. QED
  BY <1>7, <1>8, <1>9, <1>12, <1>13, <1>14 DEF FlowInv

\* The simple script sends no call to a final provider that it sent out
\* without setting it apart.
LEMMA AsIsFlow ==
  ASSUME FlowInv, TypeOK', NEW c \in Calls, ForwardAsIs(c)
  PROVE  FlowInv'
<1>1. /\ leg[c].at = "in" /\ leg[c].number \in Numbers /\ reads = "conf"
      /\ UNCHANGED <<reads, mapped>> /\ Forward(c, leg[c].number, {})
      /\ loaded # NoRoutes /\ TypeOK /\ {} \in SUBSET Calls
  BY DEF FlowInv, ForwardAsIs, TypeOK
<1>2. /\ \A b \in Calls \ {c} :
           /\ leg'[b].at = leg[b].at /\ leg'[b].number = leg[b].number
           /\ leg'[b].asked = leg[b].asked /\ leg'[b].plan = leg[b].plan
           /\ leg'[b].sent = leg[b].sent /\ leg'[b].odd = leg[b].odd
      /\ leg'[c].at = "final" /\ leg'[c].asked = leg[c].asked
      /\ leg'[c].odd = {} => leg[c].odd = {} /\ leg[c].plan # NoRoute
      /\ "taken" \in leg'[c].odd => "taken" \in leg[c].odd
  <2>1. ASSUME NEW b \in Calls \ {c}
        PROVE  /\ leg'[b].at = leg[b].at /\ leg'[b].number = leg[b].number
               /\ leg'[b].asked = leg[b].asked /\ leg'[b].plan = leg[b].plan
               /\ leg'[b].sent = leg[b].sent /\ leg'[b].odd = leg[b].odd
    BY <1>1, ForwardFields
  <2>2. /\ leg'[c].at = "final" /\ leg'[c].asked = leg[c].asked
        /\ leg'[c].odd = {} => leg[c].odd = {} /\ leg[c].plan # NoRoute
        /\ "taken" \in leg'[c].odd => "taken" \in leg[c].odd
    BY <1>1, ForwardFields
  <2>. QED
    BY <2>1, <2>2
<1>3. leg'[c].odd # {}
  BY <1>1, <1>2 DEF FlowInv, SimpleOdd, Sent
<1>4. \A b \in Calls : Sent(b)' => b \in Calls \ {c} /\ Sent(b)
  BY <1>2 DEF Sent
<1>5. Unsent'
  BY <1>2 DEF FlowInv, Unsent
<1>6. (SimpleOdd /\ StandsFor)'
  BY <1>1, <1>2, <1>4 DEF FlowInv, SimpleOdd, StandsFor
<1>7. OwnDid'
  BY <1>1 DEF OwnDid
<1>8. FollowsPlan'
  <2>1. ASSUME NEW b \in Calls \ {c}
        PROVE  /\ ToIntermediate(leg'[b]) <=> ToIntermediate(leg[b])
               /\ ToFinal(leg'[b]) <=> ToFinal(leg[b])
    BY <1>2 DEF ToIntermediate, ToFinal
  <2>. QED
    BY <1>2, <1>3, <2>1 DEF FlowInv, FollowsPlan
<1>9. NoneTaken'
  BY <1>2 DEF FlowInv, NoneTaken, NoOutsider
<1>. QED
  BY <1>5, <1>6, <1>7, <1>8, <1>9 DEF FlowInv

\* Every step keeps the invariant.
LEMMA FlowStep == FlowInv /\ [Next]_vars => FlowInv'
<1> SUFFICES ASSUME FlowInv, [Next]_vars PROVE FlowInv'
  OBVIOUS
<1>0. TypeOK /\ TypeOK'
  BY TypeStep DEF FlowInv
<1>1. CASE Command \/ UNCHANGED vars
  <2>1. UNCHANGED <<reads, mapped, leg>>
    BY <1>1 DEF Command, AddRoute, DeleteRoute, DeleteProvider, ReloadRoutes,
                Synchronize, vars
  <2>2. (Unsent /\ SimpleOdd /\ StandsFor /\ OwnDid)'
    BY <2>1 DEF FlowInv, Unsent, SimpleOdd, StandsFor, OwnDid, Sent, NoOutsider
  <2>3. (FollowsPlan /\ NoneTaken)'
    BY <2>1 DEF FlowInv, FollowsPlan, NoneTaken, NoOutsider
  <2>. QED
    BY <1>0, <2>2, <2>3 DEF FlowInv
<1>2. ASSUME NEW c \in Calls, Place(c) PROVE FlowInv'
  BY <1>0, <1>2, PlaceFlow
<1>3. ASSUME NEW c \in Calls, Reject(c) \/ NoneAvailable(c) PROVE FlowInv'
  BY <1>0, <1>3, MoveFlow DEF Reject, NoneAvailable
<1>4. ASSUME NEW c \in Calls, Outside(c) PROVE FlowInv'
  BY <1>0, <1>4, MoveFlow DEF Outside, BringBack, EndOutside
<1>5. ASSUME NEW c \in Calls, Allocate(c) PROVE FlowInv'
  BY <1>0, <1>5, AllocateFlow
<1>6. ASSUME NEW c \in Calls, PassOn(c) PROVE FlowInv'
  BY <1>0, <1>6, PassOnFlow
<1>7. ASSUME NEW c \in Calls, Restore(c) PROVE FlowInv'
  BY <1>0, <1>7, RestoreFlow
<1>8. ASSUME NEW c \in Calls, ForwardAsIs(c) PROVE FlowInv'
  BY <1>0, <1>8, AsIsFlow
<1>. QED
  BY <1>1, <1>2, <1>3, <1>4, <1>5, <1>6, <1>7, <1>8 DEF Next, Handle

\* S1-S2-S3-S2-S4: whatever the operator does and whatever numbers are dialled,
\* those of the pool included, a call goes to the providers of the route that
\* took it and arrives with the number that was dialled, unless one of the
\* named causes set it apart; and no call loses its DID to another as long as
\* nobody dials a number of the pool.
THEOREM Follows == Spec => []FollowsRoute
<1>. QED
  BY FlowFollows, FlowInit, FlowStep, PTL DEF Spec

=============================================================================

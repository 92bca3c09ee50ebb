-------------------------- MODULE ProviderTableProofs --------------------------
(***************************************************************************)
(* For any sets of providers, any capacities and any number of INVITEs,     *)
(* edits and failures: the provider table keeps its types, spreads the      *)
(* calls evenly between two reloads, and sends no intermediate more than    *)
(* one call above its capacity.                                             *)
(***************************************************************************)
EXTENDS ProviderTable, TLAPS

\* Where the pointers of the listen thread lead at each point of an INVITE.
Placed ==
    /\ lpc = "idle" => source = None /\ chosen = None
    /\ lpc = "intermediate" =>
          source \in DOMAIN list \cup {Freed} /\ chosen = None
    /\ lpc \in {"final", "did", "count"} =>
          /\ source \in (DOMAIN list \cap Origins) \cup {Freed}
          /\ chosen \in (DOMAIN list \cap Intermediates) \cup {Freed}

-----------------------------------------------------------------------------
(* What a count through a pointer does to a list of counts.                *)

IsList(counts) == DOMAIN counts \subseteq Providers
                  /\ counts \in [DOMAIN counts -> Nat]

\* Counting a call takes no entry away and lowers none.
LEMMA CountedUp ==
    ASSUME NEW counts, IsList(counts),
           NEW pointer \in DOMAIN counts \cup {Freed},
           NEW more \in Increments(counts, pointer)
    PROVE  /\ IsList(more) /\ DOMAIN more = DOMAIN counts
           /\ \A q \in DOMAIN counts : counts[q] <= more[q]
BY ProviderTableAssumption DEF IsList, Increments, Counted

\* Through a pointer that is not freed, it counts one entry.
LEMMA CountedOne ==
    ASSUME NEW counts, IsList(counts), NEW pointer \in DOMAIN counts,
           NEW more \in Increments(counts, pointer)
    PROVE  /\ more[pointer] = counts[pointer] + 1
           /\ \A q \in DOMAIN counts \ {pointer} : more[q] = counts[q]
BY ProviderTableAssumption DEF IsList, Increments, Counted

-----------------------------------------------------------------------------
(* Types.                                                                  *)

\* One step keeps every variable in its type and the pointers in their places.
LEMMA TypeStep ==
    TypeOK /\ Placed /\ [Next]_vars => (TypeOK /\ Placed)'
<1> SUFFICES ASSUME TypeOK, Placed, [Next]_vars
             PROVE  (TypeOK /\ Placed)'
  OBVIOUS
<1> USE ProviderTableAssumption DEF TypeOK, Placed, Providers, Pointers
<1>1. ASSUME NEW p \in Providers, ReceiveInvite(p) PROVE (TypeOK /\ Placed)'
  BY <1>1 DEF ReceiveInvite, monitor, history
<1>2. ASSUME FindIntermediate PROVE (TypeOK /\ Placed)'
  BY <1>2 DEF FindIntermediate, Least, Available, monitor, history
<1>3. ASSUME NotRouted PROVE (TypeOK /\ Placed)'
  BY <1>3 DEF NotRouted, Answer, monitor, history
<1>4. ASSUME FindFinal PROVE (TypeOK /\ Placed)'
  BY <1>4 DEF FindFinal, Answer, monitor, history
<1>5. ASSUME NoDidAvailable PROVE (TypeOK /\ Placed)'
  BY <1>5 DEF NoDidAvailable, Answer, monitor, history
<1>6. ASSUME CreateCall PROVE (TypeOK /\ Placed)'
  BY <1>6 DEF CreateCall, Shown, Counted, monitor
<1>7. ASSUME CountCall PROVE (TypeOK /\ Placed)'
  <2>1. PICK counts \in Increments(list, source) :
                 list' \in Increments(counts, chosen)
    BY <1>7 DEF CountCall
  <2>2. IsList(list) /\ lpc = "count"
    BY <1>7 DEF IsList, CountCall
  <2>3. IsList(counts) /\ DOMAIN counts = DOMAIN list
    BY <2>2, CountedUp
  <2>4. IsList(list') /\ DOMAIN list' = DOMAIN list
    BY <2>1, <2>2, <2>3, CountedUp
  <2>5. QED
    BY <1>7, <2>4 DEF CountCall, Answer, monitor, IsList
<1>8. ASSUME LoadProviders \/ FinishPass \/ BlockOnDids PROVE (TypeOK /\ Placed)'
  BY <1>8 DEF LoadProviders, FinishPass, BlockOnDids, monitor, listen, history
<1>9. ASSUME InstallProviders PROVE (TypeOK /\ Placed)'
  BY <1>9 DEF InstallProviders, Loaded
<1>10. ASSUME NEW p \in Providers, InsertProvider(p)
      PROVE  (TypeOK /\ Placed)'
  BY <1>10 DEF InsertProvider, Edit, listen, monitor, history
<1>11. ASSUME NEW p \in Providers, DeleteProvider(p)
      PROVE  (TypeOK /\ Placed)'
  BY <1>11 DEF DeleteProvider, Edit, listen, monitor, history
<1>12. CASE UNCHANGED vars
  BY <1>12 DEF vars
<1>13. QED
  BY <1>1, <1>2, <1>3, <1>4, <1>5, <1>6, <1>7, <1>8, <1>9, <1>10, <1>11,
     <1>12 DEF Next, Invite, Monitor

LEMMA InitTypes == Init => TypeOK /\ Placed
<1> SUFFICES ASSUME Init PROVE TypeOK /\ Placed
  OBVIOUS
<1> USE ProviderTableAssumption DEF Init
<1>1. table \subseteq Providers
  OBVIOUS
<1>2. DOMAIN list \subseteq Providers /\ list \in [DOMAIN list -> Nat]
  <2>1. CASE list = Loaded(table)
    BY <1>1, <2>1 DEF Loaded
  <2>2. CASE list = Loaded({})
    BY <2>2 DEF Loaded
  <2>3. QED
    BY <2>1, <2>2
<1>3. sent \in [Intermediates -> Nat] /\ stray \in BOOLEAN
  OBVIOUS
<1>4. /\ lpc = "idle" /\ source = None
      /\ chosen = None /\ chosen \notin Intermediates
  BY DEF Providers
<1>5. /\ calls \in 0..MaxCalls /\ edits \in 0..MaxEdits
      /\ failures \in 0..MaxFailures
      /\ mpc = "sleep" /\ result \subseteq Providers
  OBVIOUS
<1> HIDE DEF Init
<1>6. TypeOK
  BY <1>1, <1>2, <1>3, <1>4, <1>5 DEF TypeOK, Pointers
<1>7. Placed
  BY <1>4 DEF Placed
<1>8. QED
  BY <1>6, <1>7

\* Every variable of the provider table keeps its type; an intermediate the
\* listen thread has in its hand is in the list until a reload frees it.
THEOREM TypeCorrect == Spec => []TypeOK
<1>1. QED
  BY InitTypes, TypeStep, PTL DEF Spec

-----------------------------------------------------------------------------
(***************************************************************************)
(* The bound.  A list entry counts what its provider was sent, but for the  *)
(* call in hand, and for one call at most whose provider was chosen before  *)
(* the reload: only the INVITE under way at a reload has freed pointers.    *)
(***************************************************************************)
Astray == IF stray THEN 1 ELSE 0

InHand(i) == IF lpc = "count" /\ chosen = i THEN 1 ELSE 0

CountShowsSent ==
    /\ chosen = Freed /\ lpc # "count" =>
          ~stray /\ \A i \in Intermediates : sent[i] = 0
    /\ chosen = Freed /\ lpc = "count" =>
          \A i \in Intermediates : sent[i] <= Astray
    /\ chosen \in Intermediates => list[chosen] < Capacity[chosen]
    /\ \A i \in Intermediates :
          /\ i \in DOMAIN list => sent[i] <= list[i] + Astray + InHand(i)
          /\ i \notin DOMAIN list => sent[i] <= Astray
          /\ sent[i] <= Capacity[i] + Astray

\* Each step keeps the counts and the history together.
LEMMA SentStep ==
    TypeOK /\ Placed /\ CountShowsSent /\ [Next]_vars => CountShowsSent'
<1> SUFFICES ASSUME TypeOK, Placed, CountShowsSent, [Next]_vars
             PROVE  CountShowsSent'
  OBVIOUS
<1> USE ProviderTableAssumption DEF TypeOK, Placed, Providers, Pointers,
         CountShowsSent, Astray, InHand
<1>1. ASSUME NEW p \in Providers, ReceiveInvite(p) PROVE CountShowsSent'
  BY <1>1 DEF ReceiveInvite, monitor, history
<1>2. ASSUME FindIntermediate PROVE CountShowsSent'
  BY <1>2 DEF FindIntermediate, Least, Available, monitor, history
<1>3. ASSUME NotRouted PROVE CountShowsSent'
  BY <1>3 DEF NotRouted, Answer, monitor, history
<1>4. ASSUME FindFinal PROVE CountShowsSent'
  BY <1>4 DEF FindFinal, Answer, monitor, history
<1>5. ASSUME NoDidAvailable PROVE CountShowsSent'
  BY <1>5 DEF NoDidAvailable, Answer, monitor, history
<1>6. ASSUME CreateCall PROVE CountShowsSent'
  <2> USE <1>6 DEF CreateCall, Counted, monitor
  <2>1. CASE chosen = Freed
    <3>1. \A i \in Intermediates : sent'[i] <= 1
      BY <2>1
    <3>2. stray' /\ lpc' = "count" /\ chosen' = Freed /\ list' = list
      BY <2>1
    <3>3. QED
      BY <2>1, <3>1, <3>2
  <2>2. CASE chosen # Freed
    <3>1. /\ chosen \in DOMAIN list \cap Intermediates
          /\ sent' = Counted(sent, chosen)
      BY <2>2 DEF Shown
    <3>2. stray' = stray /\ list' = list /\ chosen' = chosen /\ lpc' = "count"
      BY <2>2
    <3>3. sent[chosen] + 1 <= Capacity[chosen] + Astray
      BY <3>1
    <3>4. QED
      BY <2>2, <3>1, <3>2, <3>3
  <2>3. QED
    BY <2>1, <2>2
<1>7. ASSUME CountCall PROVE CountShowsSent'
  <2>1. PICK counts \in Increments(list, source) :
                 list' \in Increments(counts, chosen)
    BY <1>7 DEF CountCall
  <2>2. IsList(list) /\ lpc = "count"
    BY <1>7 DEF IsList, CountCall
  <2>3. /\ IsList(counts) /\ DOMAIN counts = DOMAIN list
        /\ \A q \in DOMAIN list : list[q] <= counts[q]
    BY <2>2, CountedUp
  <2>4. /\ IsList(list') /\ DOMAIN list' = DOMAIN list
        /\ \A q \in DOMAIN list : counts[q] <= list'[q]
    BY <2>1, <2>2, <2>3, CountedUp
  <2>5. chosen # Freed => list'[chosen] = counts[chosen] + 1
    BY <2>1, <2>2, <2>3, CountedOne
  <2>6. /\ sent' = sent /\ stray' = (stray \/ Freed \in {source, chosen})
        /\ lpc' = "idle" /\ chosen' = None
    BY <1>7 DEF CountCall, Answer
  <2>7. \A i \in DOMAIN list :
           list[i] \in Nat /\ counts[i] \in Nat /\ list'[i] \in Nat
    BY <2>2, <2>3, <2>4 DEF IsList
  <2>8. QED
    BY <2>2, <2>3, <2>4, <2>5, <2>6, <2>7
<1>8. ASSUME LoadProviders \/ FinishPass \/ BlockOnDids PROVE CountShowsSent'
  BY <1>8 DEF LoadProviders, FinishPass, BlockOnDids, monitor, listen, history
<1>9. ASSUME InstallProviders PROVE CountShowsSent'
  BY <1>9 DEF InstallProviders, Loaded
<1>10. ASSUME NEW p \in Providers, InsertProvider(p) PROVE CountShowsSent'
  BY <1>10 DEF InsertProvider, Edit, listen, monitor, history
<1>11. ASSUME NEW p \in Providers, DeleteProvider(p) PROVE CountShowsSent'
  BY <1>11 DEF DeleteProvider, Edit, listen, monitor, history
<1>12. CASE UNCHANGED vars
  BY <1>12 DEF vars
<1>13. QED
  BY <1>1, <1>2, <1>3, <1>4, <1>5, <1>6, <1>7, <1>8, <1>9, <1>10, <1>11,
     <1>12 DEF Next, Invite, Monitor

\* Whatever the interleaving, between two reloads no intermediate is sent more
\* than one call above its capacity.
THEOREM Bounded == Spec => []SentBounded
<1>1. Init => CountShowsSent
  <2> SUFFICES ASSUME Init PROVE CountShowsSent
    OBVIOUS
  <2>1. /\ chosen = None /\ None # Freed /\ lpc = "idle" /\ stray = FALSE
        /\ chosen \notin Intermediates /\ \A i \in Intermediates : sent[i] = 0
    BY ProviderTableAssumption DEF Init, Providers
  <2>2. TypeOK
    BY InitTypes
  <2>3. QED
    BY <2>1, <2>2, ProviderTableAssumption
       DEF CountShowsSent, Astray, InHand, TypeOK, Providers
<1>2. TypeOK /\ CountShowsSent => SentBounded
  BY ProviderTableAssumption DEF TypeOK, CountShowsSent, SentBounded, Astray,
       Providers
<1>3. QED
  BY <1>1, <1>2, InitTypes, TypeStep, SentStep, PTL DEF Spec

-----------------------------------------------------------------------------
(***************************************************************************)
(* The spread.  While no pointer has gone astray the counts are exact, and  *)
(* the provider in hand has the least of those that are not full: only the  *)
(* listen thread counts, and it counts one call before it chooses the next. *)
(***************************************************************************)
Even ==
    /\ Balanced
    /\ ~stray =>
          /\ \A i \in DOMAIN list \cap Intermediates :
                sent[i] = list[i] + InHand(i)
          /\ lpc \in {"final", "did"} /\ chosen \in Intermediates =>
                \A j \in DOMAIN list \cap Intermediates :
                    list[chosen] <= list[j] \/ list[j] >= Capacity[j]

\* Each step keeps the counts exact and the calls spread.
LEMMA EvenStep ==
    TypeOK /\ Placed /\ Even /\ [Next]_vars => Even'
<1> SUFFICES ASSUME TypeOK, Placed, Even, [Next]_vars
             PROVE  Even'
  OBVIOUS
<1> USE ProviderTableAssumption DEF TypeOK, Placed, Providers, Pointers,
         Even, Balanced, InHand
<1>1. ASSUME NEW p \in Providers, ReceiveInvite(p) PROVE Even'
  BY <1>1 DEF ReceiveInvite, monitor, history
<1>2. ASSUME FindIntermediate PROVE Even'
  BY <1>2 DEF FindIntermediate, Least, Available, monitor, history
<1>3. ASSUME NotRouted PROVE Even'
  BY <1>3 DEF NotRouted, Answer, monitor, history
<1>4. ASSUME FindFinal PROVE Even'
  BY <1>4 DEF FindFinal, Answer, monitor, history
<1>5. ASSUME NoDidAvailable PROVE Even'
  BY <1>5 DEF NoDidAvailable, Answer, monitor, history
<1>6. ASSUME CreateCall PROVE Even'
  <2> USE <1>6 DEF CreateCall, Counted, monitor
  <2>1. CASE chosen = Freed
    BY <2>1
  <2>2. CASE chosen # Freed
    <3>1. /\ chosen \in DOMAIN list \cap Intermediates
          /\ sent' = Counted(sent, chosen)
      BY <2>2 DEF Shown
    <3>2. stray' = stray /\ list' = list /\ chosen' = chosen /\ lpc' = "count"
      BY <2>2
    <3>3. QED
      BY <2>2, <3>1, <3>2
  <2>3. QED
    BY <2>1, <2>2
<1>7. ASSUME CountCall PROVE Even'
  <2>1. PICK counts \in Increments(list, source) :
                 list' \in Increments(counts, chosen)
    BY <1>7 DEF CountCall
  <2>2. IsList(list) /\ lpc = "count"
    BY <1>7 DEF IsList, CountCall
  <2>3. IsList(counts) /\ DOMAIN counts = DOMAIN list
    BY <2>2, CountedUp
  <2>4. IsList(list') /\ DOMAIN list' = DOMAIN list
    BY <2>1, <2>2, <2>3, CountedUp
  <2>5. /\ sent' = sent /\ stray' = (stray \/ Freed \in {source, chosen})
        /\ lpc' = "idle" /\ chosen' = None
    BY <1>7 DEF CountCall, Answer
  <2>6. ASSUME source # Freed, chosen # Freed,
               NEW i \in DOMAIN list \cap Intermediates
        PROVE  list'[i] = IF i = chosen THEN list[i] + 1 ELSE list[i]
    <3>1. /\ source \in DOMAIN list \cap Origins
          /\ chosen \in DOMAIN list \cap Intermediates
      BY <2>2, <2>6
    <3>2. counts[i] = list[i]
      BY <2>2, <2>6, <3>1, CountedOne
    <3>3. QED
      BY <2>1, <2>3, <3>1, <3>2, CountedOne
  <2>7. ASSUME ~stray', NEW i \in DOMAIN list' \cap Intermediates
        PROVE  sent'[i] = list'[i] /\ InHand(i)' = 0 /\ list'[i] \in Nat
    <3>1. source # Freed /\ chosen # Freed /\ ~stray
      BY <2>5, <2>7
    <3>2. sent[i] = list[i] + InHand(i) /\ list[i] \in Nat
      BY <2>2, <2>4, <2>7, <3>1 DEF IsList
    <3>3. QED
      BY <2>2, <2>4, <2>5, <2>6, <2>7, <3>1, <3>2 DEF IsList
  <2>8. Balanced'
    BY <2>4, <2>5
  <2>9. QED
    BY <2>5, <2>7, <2>8
<1>8. ASSUME LoadProviders \/ FinishPass \/ BlockOnDids PROVE Even'
  BY <1>8 DEF LoadProviders, FinishPass, BlockOnDids, monitor, listen, history
<1>9. ASSUME InstallProviders PROVE Even'
  BY <1>9 DEF InstallProviders, Loaded
<1>10. ASSUME NEW p \in Providers, InsertProvider(p) PROVE Even'
  BY <1>10 DEF InsertProvider, Edit, listen, monitor, history
<1>11. ASSUME NEW p \in Providers, DeleteProvider(p) PROVE Even'
  BY <1>11 DEF DeleteProvider, Edit, listen, monitor, history
<1>12. CASE UNCHANGED vars
  BY <1>12 DEF vars
<1>13. QED
  BY <1>1, <1>2, <1>3, <1>4, <1>5, <1>6, <1>7, <1>8, <1>9, <1>10, <1>11,
     <1>12 DEF Next, Invite, Monitor

\* Between two reloads the calls are spread evenly over the intermediates that
\* are not full, unless a freed entry was used.
THEOREM Spread == Spec => []Balanced
<1>1. Init => Even
  <2> SUFFICES ASSUME Init PROVE Even
    OBVIOUS
  <2>1. lpc = "idle" /\ \A i \in Intermediates : sent[i] = 0
    BY DEF Init
  <2>2. \A i \in DOMAIN list : list[i] = 0
    <3>1. CASE list = Loaded(table)
      BY <3>1 DEF Loaded
    <3>2. CASE list = Loaded({})
      BY <3>2 DEF Loaded
    <3>3. QED
      BY <3>1, <3>2 DEF Init
  <2>3. QED
    BY <2>1, <2>2 DEF Even, Balanced, InHand
<1>2. Even => Balanced
  BY DEF Even
<1>3. QED
  BY <1>1, <1>2, InitTypes, TypeStep, EvenStep, PTL DEF Spec
=============================================================================

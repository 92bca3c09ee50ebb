-------------------------- MODULE ProviderFilesProofs --------------------------
(***************************************************************************)
(* For any number of processes, names, providers, failures and crashes: the *)
(* provider commands keep their types, leave no mapping without a gateway   *)
(* or its backup, none without a provider while they do not overlap, and no *)
(* provider without its files when nothing fails.                           *)
(***************************************************************************)
EXTENDS ProviderFiles, TLAPS

LEMMA NoNameIsName == NoName \in Names
BY BoundsAssumption DEF NoName

\* One step of any process keeps every variable in its type.
LEMMA TypeStep == TypeOK /\ [Next]_vars => TypeOK'
<1> SUFFICES ASSUME TypeOK, [Next]_vars
             PROVE  TypeOK'
  OBVIOUS
<1> USE BoundsAssumption, NoNameIsName DEF TypeOK, Ids, Steps
<1>1. ASSUME NEW p \in Processes, NEW n \in Names, AddProvider(p, n)
      PROVE  TypeOK'
  BY <1>1 DEF AddProvider, Start, Goto, tables, files
<1>2. ASSUME NEW p \in Processes, NEW n \in Names, DeleteProvider(p, n)
      PROVE  TypeOK'
  BY <1>2 DEF DeleteProvider, Start, Goto, tables, files
<1>3. ASSUME NEW p \in Processes, InsertProvider(p) PROVE TypeOK'
  BY <1>3 DEF InsertProvider, Inserted, Called, Fails, Done, Goto, tables,
     files
<1>4. ASSUME NEW p \in Processes, SelectProvider(p) PROVE TypeOK'
  BY <1>4 DEF SelectProvider, Called, Fails, Done, Goto, tables, files
<1>5. ASSUME NEW p \in Processes, UnlinkFiles(p) PROVE TypeOK'
  BY <1>5 DEF UnlinkFiles, Unmapped, Goto, tables, files
<1>6. ASSUME NEW p \in Processes, DeleteRow(p) PROVE TypeOK'
  BY <1>6 DEF DeleteRow, Deleted, Called, Fails, Done, Goto, files
<1>7. ASSUME NEW p \in Processes, ReloadProviders(p) PROVE TypeOK'
  BY <1>7 DEF ReloadProviders, Start, Goto, tables, files
<1>8. ASSUME NEW p \in Processes, QueryProviders(p) PROVE TypeOK'
  <2> USE <1>8 DEF QueryProviders, Fails, Done, Goto, tables, files
  <2>1. DOMAIN providers \in SUBSET (1..(next - 1)) /\ {} \in SUBSET (1..(next - 1))
    OBVIOUS
  <2>2. todo' \in [Processes -> SUBSET (1..(next - 1))]
    BY <2>1
  <2>3. pc' \in [Processes -> Steps] /\ name' \in [Processes -> Names]
    BY NoNameIsName
  <2>4. at' \in [Processes -> 0..(next - 1)]
    OBVIOUS
  <2>5. \A q \in Processes :
           pc'[q] \in {"unlink", "delrow", "write", "map"} => at'[q] # 0
    OBVIOUS
  <2>6. failures' \in 0..MaxFailures
    OBVIOUS
  <2>7. QED
    BY <2>2, <2>3, <2>4, <2>5, <2>6
<1>9. ASSUME NEW p \in Processes, NEW i \in Ids, RenameGateway(p, i)
      PROVE  TypeOK'
  BY <1>9 DEF RenameGateway, Renamed, Goto, tables
<1>10. ASSUME NEW p \in Processes, WriteGateway(p) PROVE TypeOK'
  BY <1>10 DEF WriteGateway, Fails, Goto, tables
<1>11. ASSUME NEW p \in Processes, WriteMapping(p) PROVE TypeOK'
  BY <1>11 DEF WriteMapping, Fails, Goto, tables
<1>12. ASSUME NEW p \in Processes, EndRows(p) PROVE TypeOK'
  BY <1>12 DEF EndRows, Done, Goto, tables, files
<1>13. ASSUME NEW p \in Processes, Crash(p) PROVE TypeOK'
  BY <1>13 DEF Crash, Done, Goto, tables, files
<1>14. CASE UNCHANGED vars
  BY <1>14 DEF vars
<1>15. QED
  BY <1>1, <1>2, <1>3, <1>4, <1>5, <1>6, <1>7, <1>8, <1>9, <1>10, <1>11,
     <1>12, <1>13, <1>14 DEF Next

\* Every variable of the provider commands and of the file system keeps its
\* type; ids are given out in order.
THEOREM TypeCorrect == Spec => []TypeOK
<1>1. Init => TypeOK
  BY BoundsAssumption, NoNameIsName DEF Init, TypeOK, Ids, Steps
<1>2. QED
  BY <1>1, TypeStep, PTL DEF Spec

-----------------------------------------------------------------------------
(* A mapping is written after its gateway, and a gateway is only ever      *)
(* renamed.                                                                *)

Generated ==
    /\ MappingsHaveGateways
    /\ \A p \in Processes : pc[p] = "map" => at[p] \in gateways \cup backups

\* Every step keeps a gateway or a backup of what has a mapping.
LEMMA GatewayStep == TypeOK /\ Generated /\ [Next]_vars => Generated'
<1> SUFFICES ASSUME TypeOK, Generated, [Next]_vars
             PROVE  Generated'
  OBVIOUS
<1> USE DEF TypeOK, Steps, Generated, MappingsHaveGateways
<1>1. ASSUME NEW p \in Processes, NEW n \in Names, AddProvider(p, n)
      PROVE  Generated'
  BY <1>1 DEF AddProvider, Start, Goto, tables, files
<1>2. ASSUME NEW p \in Processes, NEW n \in Names, DeleteProvider(p, n)
      PROVE  Generated'
  BY <1>2 DEF DeleteProvider, Start, Goto, tables, files
<1>3. ASSUME NEW p \in Processes, InsertProvider(p) PROVE Generated'
  BY <1>3 DEF InsertProvider, Inserted, Called, Fails, Done, Goto, tables,
     files
<1>4. ASSUME NEW p \in Processes, SelectProvider(p) PROVE Generated'
  BY <1>4 DEF SelectProvider, Called, Fails, Done, Goto, tables, files
<1>5. ASSUME NEW p \in Processes, UnlinkFiles(p) PROVE Generated'
  BY <1>5 DEF UnlinkFiles, Unmapped, Goto, tables, files
<1>6. ASSUME NEW p \in Processes, DeleteRow(p) PROVE Generated'
  BY <1>6 DEF DeleteRow, Deleted, Called, Fails, Done, Goto, files
<1>7. ASSUME NEW p \in Processes, ReloadProviders(p) PROVE Generated'
  BY <1>7 DEF ReloadProviders, Start, Goto, tables, files
<1>8. ASSUME NEW p \in Processes, QueryProviders(p) PROVE Generated'
  BY <1>8 DEF QueryProviders, Fails, Done, Goto, tables, files
<1>9. ASSUME NEW p \in Processes, NEW i \in Ids, RenameGateway(p, i)
      PROVE  Generated'
  BY <1>9 DEF RenameGateway, Renamed, Goto, tables
<1>10. ASSUME NEW p \in Processes, WriteGateway(p) PROVE Generated'
  BY <1>10 DEF WriteGateway, Fails, Goto, tables
<1>11. ASSUME NEW p \in Processes, WriteMapping(p) PROVE Generated'
  BY <1>11 DEF WriteMapping, Fails, Goto, tables
<1>12. ASSUME NEW p \in Processes, EndRows(p) PROVE Generated'
  BY <1>12 DEF EndRows, Done, Goto, tables, files
<1>13. ASSUME NEW p \in Processes, Crash(p) PROVE Generated'
  BY <1>13 DEF Crash, Done, Goto, tables, files
<1>14. CASE UNCHANGED vars
  BY <1>14 DEF vars
<1>15. QED
  BY <1>1, <1>2, <1>3, <1>4, <1>5, <1>6, <1>7, <1>8, <1>9, <1>10, <1>11,
     <1>12, <1>13, <1>14 DEF Next

\* However commands overlap, fail and are stopped, a mapping has a gateway or a
\* backup of one.
THEOREM GatewaysKept == Spec => []MappingsHaveGateways
<1>1. Init => Generated
  BY DEF Init, Generated, MappingsHaveGateways
<1>2. Generated => MappingsHaveGateways
  BY DEF Generated
<1>3. QED
  BY <1>1, <1>2, TypeCorrect, GatewayStep, PTL DEF Spec

-----------------------------------------------------------------------------
(* Names.  They identify a row, and the row a delete has selected has the  *)
(* name it deletes by: ids are not given twice and rows are not renamed.   *)

Identified ==
    /\ \A i, j \in DOMAIN providers : providers[i] = providers[j] => i = j
    /\ \A p \in Processes :
          pc[p] \in {"unlink", "delrow"} /\ at[p] \in DOMAIN providers =>
              providers[at[p]] = name[p]

\* No step gives a name or an id a second time.
LEMMA NameStep == TypeOK /\ Identified /\ [Next]_vars => Identified'
<1> SUFFICES ASSUME TypeOK, Identified, [Next]_vars
             PROVE  Identified'
  OBVIOUS
<1> USE DEF TypeOK, Steps, Ids, Identified
<1>1. ASSUME NEW p \in Processes, NEW n \in Names, AddProvider(p, n)
      PROVE  Identified'
  BY <1>1 DEF AddProvider, Start, Goto, tables, files
<1>2. ASSUME NEW p \in Processes, NEW n \in Names, DeleteProvider(p, n)
      PROVE  Identified'
  BY <1>2 DEF DeleteProvider, Start, Goto, tables, files
<1>3. ASSUME NEW p \in Processes, InsertProvider(p) PROVE Identified'
  BY <1>3 DEF InsertProvider, Inserted, Called, Fails, Done, Goto, tables,
     files
<1>4. ASSUME NEW p \in Processes, SelectProvider(p) PROVE Identified'
  BY <1>4 DEF SelectProvider, Called, Fails, Done, Goto, tables, files
<1>5. ASSUME NEW p \in Processes, UnlinkFiles(p) PROVE Identified'
  BY <1>5 DEF UnlinkFiles, Unmapped, Goto, tables, files
<1>6. ASSUME NEW p \in Processes, DeleteRow(p) PROVE Identified'
  BY <1>6 DEF DeleteRow, Deleted, Called, Fails, Done, Goto, files
<1>7. ASSUME NEW p \in Processes, ReloadProviders(p) PROVE Identified'
  BY <1>7 DEF ReloadProviders, Start, Goto, tables, files
<1>8. ASSUME NEW p \in Processes, QueryProviders(p) PROVE Identified'
  BY <1>8 DEF QueryProviders, Fails, Done, Goto, tables, files
<1>9. ASSUME NEW p \in Processes, NEW i \in Ids, RenameGateway(p, i)
      PROVE  Identified'
  BY <1>9 DEF RenameGateway, Renamed, Goto, tables
<1>10. ASSUME NEW p \in Processes, WriteGateway(p) PROVE Identified'
  BY <1>10 DEF WriteGateway, Fails, Goto, tables
<1>11. ASSUME NEW p \in Processes, WriteMapping(p) PROVE Identified'
  BY <1>11 DEF WriteMapping, Fails, Goto, tables
<1>12. ASSUME NEW p \in Processes, EndRows(p) PROVE Identified'
  BY <1>12 DEF EndRows, Done, Goto, tables, files
<1>13. ASSUME NEW p \in Processes, Crash(p) PROVE Identified'
  BY <1>13 DEF Crash, Done, Goto, tables, files
<1>14. CASE UNCHANGED vars
  BY <1>14 DEF vars
<1>15. QED
  BY <1>1, <1>2, <1>3, <1>4, <1>5, <1>6, <1>7, <1>8, <1>9, <1>10, <1>11,
     <1>12, <1>13, <1>14 DEF Next

-----------------------------------------------------------------------------
(* No mapping without a provider.  While commands do not overlap one        *)
(* process at most runs: the rows it generates are in the table, and a       *)
(* delete that has come to the row has taken its mapping away.              *)

OneRuns == alone => \A p, q \in Processes :
                       pc[p] # "idle" /\ pc[q] # "idle" => p = q

MappingsOwned ==
    /\ MappingsHaveProviders
    /\ alone => \A p \in Processes :
          /\ pc[p] = "delrow" =>
                \A i \in DOMAIN providers :
                    providers[i] = name[p] => i \notin mappings
          /\ pc[p] \in {"rename", "write", "map"} =>
                todo[p] \subseteq DOMAIN providers
          /\ pc[p] \in {"unlink", "write", "map"} => at[p] \in DOMAIN providers

\* The history variable says what it is meant to say.
LEMMA OneStep == TypeOK /\ OneRuns /\ [Next]_vars => OneRuns'
<1> SUFFICES ASSUME TypeOK, OneRuns, [Next]_vars
             PROVE  OneRuns'
  OBVIOUS
<1> USE DEF TypeOK, Steps, OneRuns
<1>1. ASSUME NEW p \in Processes, NEW n \in Names, AddProvider(p, n)
      PROVE  OneRuns'
  BY <1>1 DEF AddProvider, Start, Goto, tables, files
<1>2. ASSUME NEW p \in Processes, NEW n \in Names, DeleteProvider(p, n)
      PROVE  OneRuns'
  BY <1>2 DEF DeleteProvider, Start, Goto, tables, files
<1>3. ASSUME NEW p \in Processes, InsertProvider(p) PROVE OneRuns'
  BY <1>3 DEF InsertProvider, Inserted, Called, Fails, Done, Goto, tables,
     files
<1>4. ASSUME NEW p \in Processes, SelectProvider(p) PROVE OneRuns'
  BY <1>4 DEF SelectProvider, Called, Fails, Done, Goto, tables, files
<1>5. ASSUME NEW p \in Processes, UnlinkFiles(p) PROVE OneRuns'
  BY <1>5 DEF UnlinkFiles, Unmapped, Goto, tables, files
<1>6. ASSUME NEW p \in Processes, DeleteRow(p) PROVE OneRuns'
  BY <1>6 DEF DeleteRow, Deleted, Called, Fails, Done, Goto, files
<1>7. ASSUME NEW p \in Processes, ReloadProviders(p) PROVE OneRuns'
  BY <1>7 DEF ReloadProviders, Start, Goto, tables, files
<1>8. ASSUME NEW p \in Processes, QueryProviders(p) PROVE OneRuns'
  BY <1>8 DEF QueryProviders, Fails, Done, Goto, tables, files
<1>9. ASSUME NEW p \in Processes, NEW i \in Ids, RenameGateway(p, i)
      PROVE  OneRuns'
  BY <1>9 DEF RenameGateway, Renamed, Goto, tables
<1>10. ASSUME NEW p \in Processes, WriteGateway(p) PROVE OneRuns'
  BY <1>10 DEF WriteGateway, Fails, Goto, tables
<1>11. ASSUME NEW p \in Processes, WriteMapping(p) PROVE OneRuns'
  BY <1>11 DEF WriteMapping, Fails, Goto, tables
<1>12. ASSUME NEW p \in Processes, EndRows(p) PROVE OneRuns'
  BY <1>12 DEF EndRows, Done, Goto, tables, files
<1>13. ASSUME NEW p \in Processes, Crash(p) PROVE OneRuns'
  BY <1>13 DEF Crash, Done, Goto, tables, files
<1>14. CASE UNCHANGED vars
  BY <1>14 DEF vars
<1>15. QED
  BY <1>1, <1>2, <1>3, <1>4, <1>5, <1>6, <1>7, <1>8, <1>9, <1>10, <1>11,
     <1>12, <1>13, <1>14 DEF Next

\* No step maps what has no row, nor takes away the row of a mapping.
LEMMA MappingStep ==
    TypeOK /\ Identified /\ OneRuns /\ MappingsOwned /\ [Next]_vars =>
        MappingsOwned'
<1> SUFFICES ASSUME TypeOK, Identified, OneRuns, MappingsOwned, [Next]_vars
             PROVE  MappingsOwned'
  OBVIOUS
<1> USE DEF TypeOK, Steps, OneRuns, MappingsOwned, MappingsHaveProviders
<1>1. ASSUME NEW p \in Processes, NEW n \in Names, AddProvider(p, n)
      PROVE  MappingsOwned'
  BY <1>1 DEF AddProvider, Start, Goto, tables, files
<1>2. ASSUME NEW p \in Processes, NEW n \in Names, DeleteProvider(p, n)
      PROVE  MappingsOwned'
  BY <1>2 DEF DeleteProvider, Start, Goto, tables, files
<1>3. ASSUME NEW p \in Processes, InsertProvider(p) PROVE MappingsOwned'
  BY <1>3 DEF InsertProvider, Inserted, Called, Fails, Done, Goto, tables,
     files
<1>4. ASSUME NEW p \in Processes, SelectProvider(p) PROVE MappingsOwned'
  BY <1>4 DEF SelectProvider, Called, Fails, Done, Goto, tables, files
<1>5. ASSUME NEW p \in Processes, UnlinkFiles(p) PROVE MappingsOwned'
  <2>1. alone => \A i \in DOMAIN providers :
                     providers[i] = name[p] => i = at[p]
    BY <1>5 DEF UnlinkFiles, Identified
  <2>2. QED
    BY <1>5, <2>1 DEF UnlinkFiles, Unmapped, Goto, tables, files
<1>6. ASSUME NEW p \in Processes, DeleteRow(p) PROVE MappingsOwned'
  BY <1>6 DEF DeleteRow, Deleted, Called, Fails, Done, Goto, files
<1>7. ASSUME NEW p \in Processes, ReloadProviders(p) PROVE MappingsOwned'
  BY <1>7 DEF ReloadProviders, Start, Goto, tables, files
<1>8. ASSUME NEW p \in Processes, QueryProviders(p) PROVE MappingsOwned'
  BY <1>8 DEF QueryProviders, Fails, Done, Goto, tables, files
<1>9. ASSUME NEW p \in Processes, NEW i \in Ids, RenameGateway(p, i)
      PROVE  MappingsOwned'
  BY <1>9 DEF RenameGateway, Renamed, Goto, tables
<1>10. ASSUME NEW p \in Processes, WriteGateway(p) PROVE MappingsOwned'
  BY <1>10 DEF WriteGateway, Fails, Goto, tables
<1>11. ASSUME NEW p \in Processes, WriteMapping(p) PROVE MappingsOwned'
  BY <1>11 DEF WriteMapping, Fails, Goto, tables
<1>12. ASSUME NEW p \in Processes, EndRows(p) PROVE MappingsOwned'
  BY <1>12 DEF EndRows, Done, Goto, tables, files
<1>13. ASSUME NEW p \in Processes, Crash(p) PROVE MappingsOwned'
  BY <1>13 DEF Crash, Done, Goto, tables, files
<1>14. CASE UNCHANGED vars
  BY <1>14 DEF vars
<1>15. QED
  BY <1>1, <1>2, <1>3, <1>4, <1>5, <1>6, <1>7, <1>8, <1>9, <1>10, <1>11,
     <1>12, <1>13, <1>14 DEF Next

\* While commands do not overlap, every mapping belongs to a row of the table,
\* wherever a command failed or was stopped.
THEOREM MappingsBelong == Spec => []MappingsHaveProviders
<1>1. Init => Identified /\ OneRuns /\ MappingsOwned
  BY DEF Init, Identified, OneRuns, MappingsOwned, MappingsHaveProviders
<1>2. MappingsOwned => MappingsHaveProviders
  BY DEF MappingsOwned
<1>3. QED
  BY <1>1, <1>2, TypeCorrect, NameStep, OneStep, MappingStep, PTL DEF Spec

-----------------------------------------------------------------------------
(* No provider without its files.  A file that is missing is a task of some *)
(* process: it has still to write it, or is about to delete the row.        *)

Clean == failures = 0 /\ crashes = 0

GatewayPending(i) == \E p \in Processes :
    \/ pc[p] \in {"rename", "write", "map"} /\ i \in todo[p]
    \/ pc[p] = "write" /\ i = at[p]

MappingPending(i) == \E p \in Processes :
    \/ pc[p] \in {"rename", "write", "map"} /\ i \in todo[p]
    \/ pc[p] \in {"write", "map"} /\ i = at[p]
    \/ pc[p] = "delrow" /\ providers[i] = name[p]

Served ==
    Clean => \A i \in DOMAIN providers :
                /\ i \in gateways \/ GatewayPending(i)
                /\ i \in mappings \/ MappingPending(i)

\* No step drops the task of writing a file, unless it fails.
LEMMA ServedStep == TypeOK /\ Identified /\ Served /\ [Next]_vars => Served'
<1> SUFFICES ASSUME TypeOK, Identified, Served, [Next]_vars
             PROVE  Served'
  OBVIOUS
<1> USE DEF TypeOK, Steps, Ids, Served, Clean, GatewayPending, MappingPending
<1>1. ASSUME NEW p \in Processes, NEW n \in Names, AddProvider(p, n)
      PROVE  Served'
  BY <1>1 DEF AddProvider, Start, Goto, tables, files
<1>2. ASSUME NEW p \in Processes, NEW n \in Names, DeleteProvider(p, n)
      PROVE  Served'
  BY <1>2 DEF DeleteProvider, Start, Goto, tables, files
<1>3. ASSUME NEW p \in Processes, InsertProvider(p) PROVE Served'
  BY <1>3 DEF InsertProvider, Inserted, Called, Fails, Done, Goto, tables,
     files
<1>4. ASSUME NEW p \in Processes, SelectProvider(p) PROVE Served'
  BY <1>4 DEF SelectProvider, Called, Fails, Done, Goto, tables, files
<1>5. ASSUME NEW p \in Processes, UnlinkFiles(p) PROVE Served'
  <2> USE <1>5 DEF UnlinkFiles, Unmapped, Goto, tables, files
  <2>1. ASSUME NEW i \in DOMAIN providers, GatewayPending(i)
              PROVE  GatewayPending(i)'
    BY <2>1
  <2>2. ASSUME NEW i \in DOMAIN providers, MappingPending(i)
              PROVE  MappingPending(i)'
    BY <2>2
  <2>3. at[p] \in DOMAIN providers => MappingPending(at[p])'
    BY DEF Identified
  <2>4. QED
    BY <2>1, <2>2, <2>3
<1>6. ASSUME NEW p \in Processes, DeleteRow(p) PROVE Served'
  BY <1>6 DEF DeleteRow, Deleted, Called, Fails, Done, Goto, files
<1>7. ASSUME NEW p \in Processes, ReloadProviders(p) PROVE Served'
  BY <1>7 DEF ReloadProviders, Start, Goto, tables, files
<1>8. ASSUME NEW p \in Processes, QueryProviders(p) PROVE Served'
  BY <1>8 DEF QueryProviders, Fails, Done, Goto, tables, files
<1>9. ASSUME NEW p \in Processes, NEW i \in Ids, RenameGateway(p, i)
      PROVE  Served'
  BY <1>9 DEF RenameGateway, Renamed, Goto, tables
<1>10. ASSUME NEW p \in Processes, WriteGateway(p) PROVE Served'
  BY <1>10 DEF WriteGateway, Fails, Goto, tables
<1>11. ASSUME NEW p \in Processes, WriteMapping(p) PROVE Served'
  BY <1>11 DEF WriteMapping, Fails, Goto, tables
<1>12. ASSUME NEW p \in Processes, EndRows(p) PROVE Served'
  BY <1>12 DEF EndRows, Done, Goto, tables, files
<1>13. ASSUME NEW p \in Processes, Crash(p) PROVE Served'
  BY <1>13 DEF Crash, Done, Goto, tables, files
<1>14. CASE UNCHANGED vars
  BY <1>14 DEF vars
<1>15. QED
  BY <1>1, <1>2, <1>3, <1>4, <1>5, <1>6, <1>7, <1>8, <1>9, <1>10, <1>11,
     <1>12, <1>13, <1>14 DEF Next

\* However commands overlap, once none is running every provider has its gateway
\* and its mapping, unless something failed or was stopped.
THEOREM ProvidersServed == Spec => []ProvidersHaveFiles
<1>1. Init => Identified /\ Served
  BY DEF Init, Identified, Served
<1>2. Served => ProvidersHaveFiles
  BY DEF Served, Clean, GatewayPending, MappingPending, ProvidersHaveFiles,
     Quiet
<1>3. QED
  BY <1>1, <1>2, TypeCorrect, NameStep, ServedStep, PTL DEF Spec
=============================================================================

--------------------------- MODULE DialplanProofs ---------------------------
(***************************************************************************)
(* For any number of processes, names, routes, failures and crashes: the    *)
(* route commands keep their types, leave a file without a route only where *)
(* somebody wrote it during the deletion, give a name twice only where the  *)
(* look-up could not be relied on, leave no route without a file when       *)
(* nothing fails, and have FreeSWITCH load what the directory holds.        *)
(***************************************************************************)
EXTENDS Dialplan, TLAPS


-----------------------------------------------------------------------------
(***************************************************************************)
(* Types.                                                                  *)
(***************************************************************************)

\* One step of any process keeps every variable in its type.
LEMMA TypeStep == TypeOK /\ [Next]_vars => TypeOK'
<1> SUFFICES ASSUME TypeOK, [Next]_vars PROVE TypeOK'
  OBVIOUS
<1> USE BoundsAssumption DEF TypeOK, Ids, Steps, Commands
<1>1. ASSUME NEW p \in Processes, NEW n \in Names, AddRoute(p, n)
        PROVE TypeOK'
  BY <1>1 DEF AddRoute, Start, Goto, history
<1>2. ASSUME NEW p \in Processes, CheckName(p) PROVE TypeOK'
  BY <1>2 DEF CheckName, Known, Awaited, Fails, Goto, command, history
<1>3. ASSUME NEW p \in Processes, InsertRoute(p) PROVE TypeOK'
  BY <1>3 DEF InsertRoute, Fails, Goto, command, tables, history
<1>4. ASSUME NEW p \in Processes, NEW i \in Ids, DeleteRoute(p, i)
        PROVE TypeOK'
  BY <1>4 DEF DeleteRoute, Start, Goto, history
<1>5. ASSUME NEW p \in Processes, UnlinkFile(p) PROVE TypeOK'
  BY <1>5 DEF UnlinkFile, Goto, command, tables, history
<1>6. ASSUME NEW p \in Processes, UnlinkCached(p) PROVE TypeOK'
  BY <1>6 DEF UnlinkCached, Goto, command, tables, history
<1>7. ASSUME NEW p \in Processes, DeleteRow(p) PROVE TypeOK'
  BY <1>7 DEF DeleteRow, WillWrite, Fails, Goto, command, history
<1>8. ASSUME NEW p \in Processes, NEW clear \in BOOLEAN, ReloadRoutes(p, clear)
        PROVE TypeOK'
  BY <1>8 DEF ReloadRoutes, Start, Goto, history
<1>9. ASSUME NEW p \in Processes, QueryRoutes(p) PROVE TypeOK'
  <2>1. todo' \in [Processes -> SUBSET Ids]
    BY <1>9 DEF QueryRoutes
  <2>2. pc' \in [Processes -> Steps]
    <3>1. AfterNoRows(p) \in Steps
      BY DEF AfterNoRows
    <3>2. QED
      BY <1>9, <3>1 DEF QueryRoutes, Goto
  <2>3. failures' \in 0..MaxFailures
    BY <1>9 DEF QueryRoutes, Fails
  <2>4. QED
    BY <1>9, <2>1, <2>2, <2>3 DEF QueryRoutes, command, tables, history
<1>10. ASSUME NEW p \in Processes, NEW i \in Ids, WriteFile(p, i)
        PROVE TypeOK'
  BY <1>10 DEF WriteFile, BeingDeleted, Fails, Goto, command, tables, history
<1>11. ASSUME NEW p \in Processes, CacheFile(p) PROVE TypeOK'
  BY <1>11 DEF CacheFile, Goto, command, tables, history
<1>12. ASSUME NEW p \in Processes, EndWrite(p) PROVE TypeOK'
  BY <1>12 DEF EndWrite, Goto, command, tables, history
<1>13. ASSUME NEW p \in Processes, ReloadXml(p) PROVE TypeOK'
  <2>1. missed' \in BOOLEAN
    BY <1>13 DEF ReloadXml
  <2>2. pc' \in [Processes -> Steps]
    BY <1>13 DEF ReloadXml, Goto
  <2>3. loaded' \subseteq Ids /\ failures' \in 0..MaxFailures
    BY <1>13 DEF ReloadXml, Fails
  <2>4. UNCHANGED <<tables, files, cached, command, at, todo, crashes,
                   history>>
    BY <1>13 DEF ReloadXml
  <2>5. QED
    BY <2>1, <2>2, <2>3, <2>4 DEF command, tables, history
<1>14. ASSUME NEW p \in Processes, RestoreCache(p) PROVE TypeOK'
  BY <1>14 DEF RestoreCache, Start, Goto, history
<1>15. ASSUME NEW p \in Processes, NEW i \in Ids, CopyFile(p, i) PROVE TypeOK'
  BY <1>15 DEF CopyFile, BeingDeleted, command, tables, history
<1>16. ASSUME NEW p \in Processes, EndCopy(p) PROVE TypeOK'
  BY <1>16 DEF EndCopy, Goto, command, tables, history
<1>17. ASSUME NEW p \in Processes, ClearCache(p) PROVE TypeOK'
  BY <1>17 DEF ClearCache, command, tables, history
<1>18. ASSUME NEW p \in Processes, Crash(p) PROVE TypeOK'
  BY <1>18 DEF Crash, Goto, command, tables, history
<1>19. CASE UNCHANGED vars
  BY <1>19 DEF vars
<1>20. QED BY <1>1, <1>2, <1>3, <1>4, <1>5, <1>6, <1>7, <1>8, <1>9, <1>10,
         <1>11, <1>12, <1>13, <1>14, <1>15, <1>16, <1>17, <1>18, <1>19 DEF
         Next

\* Every variable of the route commands and of the file system keeps its type;
\* ids are given out in order and no row has an id not given out yet.
THEOREM TypeCorrect == Spec => []TypeOK
<1>1. ASSUME Init PROVE TypeOK
  <2>1. missed \in BOOLEAN /\ overtaken \subseteq Ids /\ doubtful \subseteq Names
    BY <1>1 DEF Init
  <2>2. DOMAIN routes \subseteq 1..(next - 1) /\ routes \in [DOMAIN routes -> Names]
    BY <1>1 DEF Init
  <2>3. /\ next \in 1..(MaxRoutes + 1)
        /\ failures \in 0..MaxFailures /\ crashes \in 0..MaxCrashes
        /\ at \in [Processes -> 0..MaxRoutes]
    BY <1>1, BoundsAssumption DEF Init
  <2>4. /\ files \subseteq Ids /\ cached \subseteq Ids /\ loaded \subseteq Ids
        /\ pc \in [Processes -> Steps] /\ cmd \in [Processes -> Commands]
        /\ name \in [Processes -> Names] /\ todo \in [Processes -> SUBSET Ids]
    BY <1>1 DEF Init, Steps, Commands
  <2>5. QED
    BY <2>1, <2>2, <2>3, <2>4 DEF TypeOK
<1>2. QED
  BY <1>1, TypeStep, PTL DEF Spec

-----------------------------------------------------------------------------
(***************************************************************************)
(* No file without a route.  What makes it inductive: a delete finds the     *)
(* file and its copy still gone when it reaches the row, or the route is     *)
(* among the overtaken, and so for the rows a generator has yet to write:    *)
(* they are in the table, or were taken from it under the generator's eyes.  *)
(***************************************************************************)
FilesOwned ==
    /\ FilesHaveRoutes
    /\ \A p \in Processes :
          /\ pc[p] = "uncache" => at[p] \notin files \ overtaken
          /\ pc[p] = "delrow" => at[p] \notin (files \cup cached) \ overtaken
          /\ pc[p] \in {"write", "cache"} =>
                todo[p] \subseteq DOMAIN routes \cup overtaken

\* No step puts a file or a cached copy where there is no row, nor takes the
\* row of one away.
LEMMA FileStep ==
    TypeOK /\ FilesOwned /\ [Next]_vars => FilesOwned'
<1> SUFFICES ASSUME TypeOK, FilesOwned, [Next]_vars
             PROVE  FilesOwned'
  OBVIOUS
<1> USE DEF TypeOK, Steps, FilesOwned, FilesHaveRoutes
<1>1. ASSUME NEW p \in Processes, NEW n \in Names, AddRoute(p, n)
        PROVE FilesOwned'
  BY <1>1 DEF AddRoute, Start, Goto, history
<1>2. ASSUME NEW p \in Processes, CheckName(p) PROVE FilesOwned'
  BY <1>2 DEF CheckName, Known, Awaited, Fails, Goto, command, history
<1>3. ASSUME NEW p \in Processes, InsertRoute(p) PROVE FilesOwned'
  BY <1>3 DEF InsertRoute, Fails, Goto, command, tables, history
<1>4. ASSUME NEW p \in Processes, NEW i \in Ids, DeleteRoute(p, i)
        PROVE FilesOwned'
  BY <1>4 DEF DeleteRoute, Start, Goto, history
<1>5. ASSUME NEW p \in Processes, UnlinkFile(p) PROVE FilesOwned'
  BY <1>5 DEF UnlinkFile, Goto, command, tables, history
<1>6. ASSUME NEW p \in Processes, UnlinkCached(p) PROVE FilesOwned'
  BY <1>6 DEF UnlinkCached, Goto, command, tables, history
<1>7. ASSUME NEW p \in Processes, DeleteRow(p) PROVE FilesOwned'
  BY <1>7 DEF DeleteRow, WillWrite, Fails, Goto, command, history
<1>8. ASSUME NEW p \in Processes, NEW clear \in BOOLEAN, ReloadRoutes(p, clear)
        PROVE FilesOwned'
  BY <1>8 DEF ReloadRoutes, Start, Goto, history
<1>9. ASSUME NEW p \in Processes, QueryRoutes(p) PROVE FilesOwned'
  BY <1>9 DEF QueryRoutes, AfterNoRows, Fails, Goto, command, tables,
     history, vars
<1>10. ASSUME NEW p \in Processes, NEW i \in Ids, WriteFile(p, i)
        PROVE FilesOwned'
  BY <1>10 DEF WriteFile, BeingDeleted, Fails, Goto, command, tables, history
<1>11. ASSUME NEW p \in Processes, CacheFile(p) PROVE FilesOwned'
  BY <1>11 DEF CacheFile, Goto, command, tables, history
<1>12. ASSUME NEW p \in Processes, EndWrite(p) PROVE FilesOwned'
  BY <1>12 DEF EndWrite, Goto, command, tables, history
<1>13. ASSUME NEW p \in Processes, ReloadXml(p) PROVE FilesOwned'
  BY <1>13 DEF ReloadXml, Fails, Goto, command, tables, history
<1>14. ASSUME NEW p \in Processes, RestoreCache(p) PROVE FilesOwned'
  BY <1>14 DEF RestoreCache, Start, Goto, history
<1>15. ASSUME NEW p \in Processes, NEW i \in Ids, CopyFile(p, i)
        PROVE FilesOwned'
  BY <1>15 DEF CopyFile, BeingDeleted, command, tables, history
<1>16. ASSUME NEW p \in Processes, EndCopy(p) PROVE FilesOwned'
  BY <1>16 DEF EndCopy, Goto, command, tables, history
<1>17. ASSUME NEW p \in Processes, ClearCache(p) PROVE FilesOwned'
  BY <1>17 DEF ClearCache, command, tables, history
<1>18. ASSUME NEW p \in Processes, Crash(p) PROVE FilesOwned'
  BY <1>18 DEF Crash, Goto, command, tables, history
<1>19. CASE UNCHANGED vars
  BY <1>19 DEF vars
<1>20. QED BY <1>1, <1>2, <1>3, <1>4, <1>5, <1>6, <1>7, <1>8, <1>9, <1>10,
         <1>11, <1>12, <1>13, <1>14, <1>15, <1>16, <1>17, <1>18, <1>19 DEF
         Next

\* Every dialplan file and every cached copy belongs to a row, whatever overlaps
\* or fails and wherever a command is stopped, except that of a route somebody
\* wrote, or had read to write, between the first and the last removal of
\* "route delete".
THEOREM FilesBelong == Spec => []FilesHaveRoutes
<1>1. Init => FilesOwned
  BY DEF Init, FilesOwned, FilesHaveRoutes
<1>2. FilesOwned => FilesHaveRoutes
  BY DEF FilesOwned
<1>3. QED
  BY <1>1, <1>2, TypeCorrect, FileStep, PTL DEF Spec

-----------------------------------------------------------------------------
(***************************************************************************)
(* No two routes of one name.  Inductive with what the look-up has shown:    *)
(* the name about to be inserted is in no row, and no other process is about *)
(* to insert it, unless the look-up was not to be relied on.                *)
(***************************************************************************)
NamesChecked ==
    /\ NamesUnique
    /\ \A p \in Processes :
          pc[p] = "insert" => ~Known(name[p]) \/ name[p] \in doubtful
    /\ \A p, q \in Processes :
          pc[p] = "insert" /\ pc[q] = "insert" /\ name[p] = name[q] =>
             p = q \/ name[p] \in doubtful

\* Between a look-up to be relied on and its insert nobody else adds the name.
LEMMA NamesStep ==
    TypeOK /\ NamesChecked /\ [Next]_vars => NamesChecked'
<1> SUFFICES ASSUME TypeOK, NamesChecked, [Next]_vars
             PROVE  NamesChecked'
  OBVIOUS
<1> USE DEF TypeOK, Steps, NamesChecked, NamesUnique, Known
<1>1. ASSUME NEW p \in Processes, NEW n \in Names, AddRoute(p, n)
        PROVE NamesChecked'
  BY <1>1 DEF AddRoute, Start, Goto, history
<1>2. ASSUME NEW p \in Processes, CheckName(p) PROVE NamesChecked'
  BY <1>2 DEF CheckName, Known, Awaited, Fails, Goto, command, history
<1>3. ASSUME NEW p \in Processes, InsertRoute(p) PROVE NamesChecked'
  BY <1>3 DEF InsertRoute, Fails, Goto, command, tables, history
<1>4. ASSUME NEW p \in Processes, NEW i \in Ids, DeleteRoute(p, i)
        PROVE NamesChecked'
  BY <1>4 DEF DeleteRoute, Start, Goto, history
<1>5. ASSUME NEW p \in Processes, UnlinkFile(p) PROVE NamesChecked'
  BY <1>5 DEF UnlinkFile, Goto, command, tables, history
<1>6. ASSUME NEW p \in Processes, UnlinkCached(p) PROVE NamesChecked'
  BY <1>6 DEF UnlinkCached, Goto, command, tables, history
<1>7. ASSUME NEW p \in Processes, DeleteRow(p) PROVE NamesChecked'
  BY <1>7 DEF DeleteRow, WillWrite, Fails, Goto, command, history
<1>8. ASSUME NEW p \in Processes, NEW clear \in BOOLEAN, ReloadRoutes(p, clear)
        PROVE NamesChecked'
  BY <1>8 DEF ReloadRoutes, Start, Goto, history
<1>9. ASSUME NEW p \in Processes, QueryRoutes(p) PROVE NamesChecked'
  <2>1. AfterNoRows(p) # "insert"
    BY DEF AfterNoRows
  <2>2. \A q \in Processes : pc'[q] = "insert" => pc[q] = "insert"
    BY <1>9, <2>1 DEF QueryRoutes, Goto
  <2>3. failures' = 0 => failures = 0
    BY <1>9 DEF QueryRoutes, Fails
  <2>4. QED
    BY <1>9, <2>2, <2>3 DEF QueryRoutes, command, tables, history
<1>10. ASSUME NEW p \in Processes, NEW i \in Ids, WriteFile(p, i)
        PROVE NamesChecked'
  BY <1>10 DEF WriteFile, BeingDeleted, Fails, Goto, command, tables, history
<1>11. ASSUME NEW p \in Processes, CacheFile(p) PROVE NamesChecked'
  BY <1>11 DEF CacheFile, Goto, command, tables, history
<1>12. ASSUME NEW p \in Processes, EndWrite(p) PROVE NamesChecked'
  BY <1>12 DEF EndWrite, Goto, command, tables, history
<1>13. ASSUME NEW p \in Processes, ReloadXml(p) PROVE NamesChecked'
  BY <1>13 DEF ReloadXml, Fails, Goto, command, tables, history
<1>14. ASSUME NEW p \in Processes, RestoreCache(p) PROVE NamesChecked'
  BY <1>14 DEF RestoreCache, Start, Goto, history
<1>15. ASSUME NEW p \in Processes, NEW i \in Ids, CopyFile(p, i)
        PROVE NamesChecked'
  BY <1>15 DEF CopyFile, BeingDeleted, command, tables, history
<1>16. ASSUME NEW p \in Processes, EndCopy(p) PROVE NamesChecked'
  BY <1>16 DEF EndCopy, Goto, command, tables, history
<1>17. ASSUME NEW p \in Processes, ClearCache(p) PROVE NamesChecked'
  BY <1>17 DEF ClearCache, command, tables, history
<1>18. ASSUME NEW p \in Processes, Crash(p) PROVE NamesChecked'
  BY <1>18 DEF Crash, Goto, command, tables, history
<1>19. CASE UNCHANGED vars
  BY <1>19 DEF vars
<1>20. QED BY <1>1, <1>2, <1>3, <1>4, <1>5, <1>6, <1>7, <1>8, <1>9, <1>10,
         <1>11, <1>12, <1>13, <1>14, <1>15, <1>16, <1>17, <1>18, <1>19 DEF
         Next

\* "route add" keeps names unique, although no constraint of the table does,
\* except a name whose look-up failed or fell between another process's look-up
\* and its insert.
THEOREM NamesDiffer == Spec => []NamesUnique
<1>1. Init => NamesChecked
  BY DEF Init, NamesChecked, NamesUnique, Known
<1>2. NamesChecked => NamesUnique
  BY DEF NamesChecked
<1>3. QED
  BY <1>1, <1>2, TypeCorrect, NamesStep, PTL DEF Spec

-----------------------------------------------------------------------------
(***************************************************************************)
(* What is loaded.  Inductive as a debt: if the files are not the loaded     *)
(* ones and the last reload did not fail, some process is between its        *)
(* change and its reload.                                                   *)
(***************************************************************************)
Owes(p) == \/ pc[p] \in {"uncache", "delrow", "write", "cache", "reload",
                         "again", "copy"}
           \/ pc[p] = "query" /\ cmd[p] = "delete"

ReloadOwed ==
    /\ \A p \in Processes :
          pc[p] \in {"unlink", "uncache", "delrow"} => cmd[p] = "delete"
    /\ crashes = 0 /\ ~missed /\ loaded # files => \E p \in Processes : Owes(p)

\* A step that changes a file takes on the debt, and the only step that ends a
\* debt is the reload.
LEMMA LoadStep == TypeOK /\ ReloadOwed /\ [Next]_vars => ReloadOwed'
<1> SUFFICES ASSUME TypeOK, ReloadOwed, [Next]_vars PROVE ReloadOwed'
  OBVIOUS
<1> USE DEF TypeOK, Steps, ReloadOwed, Owes
<1>1. ASSUME NEW p \in Processes, NEW n \in Names, AddRoute(p, n)
        PROVE ReloadOwed'
  BY <1>1 DEF AddRoute, Start, Goto, history
<1>2. ASSUME NEW p \in Processes, CheckName(p) PROVE ReloadOwed'
  BY <1>2 DEF CheckName, Known, Awaited, Fails, Goto, command, history
<1>3. ASSUME NEW p \in Processes, InsertRoute(p) PROVE ReloadOwed'
  BY <1>3 DEF InsertRoute, Fails, Goto, command, tables, history
<1>4. ASSUME NEW p \in Processes, NEW i \in Ids, DeleteRoute(p, i)
        PROVE ReloadOwed'
  BY <1>4 DEF DeleteRoute, Start, Goto, history
<1>5. ASSUME NEW p \in Processes, UnlinkFile(p) PROVE ReloadOwed'
  BY <1>5 DEF UnlinkFile, Goto, command, tables, history
<1>6. ASSUME NEW p \in Processes, UnlinkCached(p) PROVE ReloadOwed'
  BY <1>6 DEF UnlinkCached, Goto, command, tables, history
<1>7. ASSUME NEW p \in Processes, DeleteRow(p) PROVE ReloadOwed'
  BY <1>7 DEF DeleteRow, WillWrite, Fails, Goto, command, history
<1>8. ASSUME NEW p \in Processes, NEW clear \in BOOLEAN, ReloadRoutes(p, clear)
        PROVE ReloadOwed'
  BY <1>8 DEF ReloadRoutes, Start, Goto, history
<1>9. ASSUME NEW p \in Processes, QueryRoutes(p) PROVE ReloadOwed'
  BY <1>9 DEF QueryRoutes, AfterNoRows, Fails, Goto, command, tables,
     history, vars
<1>10. ASSUME NEW p \in Processes, NEW i \in Ids, WriteFile(p, i)
        PROVE ReloadOwed'
  BY <1>10 DEF WriteFile, BeingDeleted, Fails, Goto, command, tables, history
<1>11. ASSUME NEW p \in Processes, CacheFile(p) PROVE ReloadOwed'
  BY <1>11 DEF CacheFile, Goto, command, tables, history
<1>12. ASSUME NEW p \in Processes, EndWrite(p) PROVE ReloadOwed'
  BY <1>12 DEF EndWrite, Goto, command, tables, history
<1>13. ASSUME NEW p \in Processes, ReloadXml(p) PROVE ReloadOwed'
  BY <1>13 DEF ReloadXml, Fails, Goto, command, tables, history
<1>14. ASSUME NEW p \in Processes, RestoreCache(p) PROVE ReloadOwed'
  BY <1>14 DEF RestoreCache, Start, Goto, history
<1>15. ASSUME NEW p \in Processes, NEW i \in Ids, CopyFile(p, i)
        PROVE ReloadOwed'
  BY <1>15 DEF CopyFile, BeingDeleted, command, tables, history
<1>16. ASSUME NEW p \in Processes, EndCopy(p) PROVE ReloadOwed'
  BY <1>16 DEF EndCopy, Goto, command, tables, history
<1>17. ASSUME NEW p \in Processes, ClearCache(p) PROVE ReloadOwed'
  BY <1>17 DEF ClearCache, command, tables, history
<1>18. ASSUME NEW p \in Processes, Crash(p) PROVE ReloadOwed'
  BY <1>18 DEF Crash, Goto, command, tables, history
<1>19. CASE UNCHANGED vars
  BY <1>19 DEF vars
<1>20. QED BY <1>1, <1>2, <1>3, <1>4, <1>5, <1>6, <1>7, <1>8, <1>9, <1>10,
         <1>11, <1>12, <1>13, <1>14, <1>15, <1>16, <1>17, <1>18, <1>19 DEF
         Next

\* When no command is running and none was stopped half-way, FreeSWITCH has
\* loaded the directory as it is, whatever overlapped and whatever failed, the
\* last reload excepted.
THEOREM Loads == Spec => []LoadedIsFiles
<1>1. Init => ReloadOwed
  BY DEF Init, ReloadOwed
<1>2. ReloadOwed => LoadedIsFiles
  BY DEF ReloadOwed, Owes, LoadedIsFiles, Quiet
<1>3. QED
  BY <1>1, <1>2, TypeCorrect, LoadStep, PTL DEF Spec

-----------------------------------------------------------------------------
(***************************************************************************)
(* No route without a file.  Inductive with who will see to a row that has   *)
(* none: a process about to read the table, one with the row on its list,    *)
(* or the one that is deleting it.                                          *)
(***************************************************************************)
Serves(p, i) == \/ pc[p] = "query"
                \/ pc[p] \in {"write", "cache"} /\ i \in todo[p]
                \/ pc[p] \in {"uncache", "delrow"} /\ at[p] = i

RowsServed ==
    failures = 0 /\ crashes = 0 =>
       \A i \in DOMAIN routes :
          i \in files \/ \E p \in Processes : Serves(p, i)

\* A row without a file stays somebody's task until it has one or is gone.
LEMMA RowStep == TypeOK /\ RowsServed /\ [Next]_vars => RowsServed'
<1> SUFFICES ASSUME TypeOK, RowsServed, [Next]_vars PROVE RowsServed'
  OBVIOUS
<1> USE DEF TypeOK, Steps, RowsServed, Serves
<1>1. ASSUME NEW p \in Processes, NEW n \in Names, AddRoute(p, n)
        PROVE RowsServed'
  BY <1>1 DEF AddRoute, Start, Goto, history
<1>2. ASSUME NEW p \in Processes, CheckName(p) PROVE RowsServed'
  BY <1>2 DEF CheckName, Known, Awaited, Fails, Goto, command, history
<1>3. ASSUME NEW p \in Processes, InsertRoute(p) PROVE RowsServed'
  BY <1>3 DEF InsertRoute, Fails, Goto, command, tables, history
<1>4. ASSUME NEW p \in Processes, NEW i \in Ids, DeleteRoute(p, i)
        PROVE RowsServed'
  BY <1>4 DEF DeleteRoute, Start, Goto, history
<1>5. ASSUME NEW p \in Processes, UnlinkFile(p) PROVE RowsServed'
  BY <1>5 DEF UnlinkFile, Goto, command, tables, history
<1>6. ASSUME NEW p \in Processes, UnlinkCached(p) PROVE RowsServed'
  BY <1>6 DEF UnlinkCached, Goto, command, tables, history
<1>7. ASSUME NEW p \in Processes, DeleteRow(p) PROVE RowsServed'
  BY <1>7 DEF DeleteRow, WillWrite, Fails, Goto, command, history
<1>8. ASSUME NEW p \in Processes, NEW clear \in BOOLEAN, ReloadRoutes(p, clear)
        PROVE RowsServed'
  BY <1>8 DEF ReloadRoutes, Start, Goto, history
<1>9. ASSUME NEW p \in Processes, QueryRoutes(p) PROVE RowsServed'
  BY <1>9 DEF QueryRoutes, AfterNoRows, Fails, Goto, command, tables,
     history, vars
<1>10. ASSUME NEW p \in Processes, NEW i \in Ids, WriteFile(p, i)
        PROVE RowsServed'
  BY <1>10 DEF WriteFile, BeingDeleted, Fails, Goto, command, tables, history
<1>11. ASSUME NEW p \in Processes, CacheFile(p) PROVE RowsServed'
  BY <1>11 DEF CacheFile, Goto, command, tables, history
<1>12. ASSUME NEW p \in Processes, EndWrite(p) PROVE RowsServed'
  BY <1>12 DEF EndWrite, Goto, command, tables, history
<1>13. ASSUME NEW p \in Processes, ReloadXml(p) PROVE RowsServed'
  BY <1>13 DEF ReloadXml, Fails, Goto, command, tables, history
<1>14. ASSUME NEW p \in Processes, RestoreCache(p) PROVE RowsServed'
  BY <1>14 DEF RestoreCache, Start, Goto, history
<1>15. ASSUME NEW p \in Processes, NEW i \in Ids, CopyFile(p, i)
        PROVE RowsServed'
  BY <1>15 DEF CopyFile, BeingDeleted, command, tables, history
<1>16. ASSUME NEW p \in Processes, EndCopy(p) PROVE RowsServed'
  BY <1>16 DEF EndCopy, Goto, command, tables, history
<1>17. ASSUME NEW p \in Processes, ClearCache(p) PROVE RowsServed'
  BY <1>17 DEF ClearCache, command, tables, history
<1>18. ASSUME NEW p \in Processes, Crash(p) PROVE RowsServed'
  BY <1>18 DEF Crash, Goto, command, tables, history
<1>19. CASE UNCHANGED vars
  BY <1>19 DEF vars
<1>20. QED BY <1>1, <1>2, <1>3, <1>4, <1>5, <1>6, <1>7, <1>8, <1>9, <1>10,
         <1>11, <1>12, <1>13, <1>14, <1>15, <1>16, <1>17, <1>18, <1>19 DEF
         Next

\* When nothing has failed or been stopped and no command is running, every
\* route has its file, whatever commands overlapped.
THEOREM RoutesServed == Spec => []RoutesHaveFiles
<1>1. Init => RowsServed
  BY DEF Init, RowsServed
<1>2. RowsServed => RoutesHaveFiles
  BY DEF RowsServed, Serves, RoutesHaveFiles, Quiet
<1>3. QED
  BY <1>1, <1>2, TypeCorrect, RowStep, PTL DEF Spec

=============================================================================

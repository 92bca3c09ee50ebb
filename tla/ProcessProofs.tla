--------------------------- MODULE ProcessProofs ---------------------------
(***************************************************************************)
(* For any file to import, any number of commands, cuts and refused        *)
(* statements: a router process keeps its types and uses nothing main()    *)
(* has destroyed, and what an import reported is in the table.             *)
(***************************************************************************)
EXTENDS Process, TLAPS

-----------------------------------------------------------------------------
(***************************************************************************)
(* The connection: each operation keeps its types, and tells what it does  *)
(* to the transaction.                                                     *)
(***************************************************************************)

\* A statement ends no transaction and opens none; in one, only the written
\* rows wait for its end, and without one, an accepted row is in the table.
LEMMA StatementKeeps ==
  ASSUME ConnectionTypeOK, NEW insert \in SUBSET Rows, NEW ok \in BOOLEAN,
         Statement(insert, ok)
  PROVE  /\ ConnectionTypeOK'
         /\ tx = "none" <=> tx' = "none"
         /\ tx' = "open" =>
              tx = "open" /\ pending \subseteq pending' /\ table' = table
         /\ tx # "none" => table' = table
         /\ table \subseteq table' /\ table' \subseteq table \cup insert
         /\ ok => insert \subseteq table' \cup pending' /\ (tx' # "aborted")
         /\ undone \subseteq undone' /\ ("cut" \in undone' => "cut" \in undone)
         /\ undone' = {} => pending \subseteq pending'
<1> USE ConnectionAssumption DEF ConnectionTypeOK
<1>1. CASE ok /\ Accepted(insert)
  BY <1>1 DEF Accepted, Arrives
<1>2. CASE ~ok /\ Lost
  BY <1>2 DEF Lost, Arrives
<1>3. CASE ~ok /\ Refused /\ tx = "aborted" /\ UNCHANGED errors
  BY <1>3 DEF Refused, Arrives
<1>4. CASE ~ok /\ Refused /\ tx # "aborted" /\ errors < MaxErrors /\ errors' = errors + 1
  BY <1>4 DEF Refused, Arrives
<1>. QED
  BY <1>1, <1>2, <1>3, <1>4 DEF Statement

\* A statement the database cannot but refuse writes nothing.
LEMMA MisfitKeeps ==
  ASSUME ConnectionTypeOK, Misfit
  PROVE  /\ ConnectionTypeOK' /\ table' = table
         /\ tx = "none" <=> tx' = "none"
         /\ tx' = "open" => tx = "open" /\ pending' = pending
         /\ undone \subseteq undone' /\ ("cut" \in undone' => "cut" \in undone)
         /\ undone' = {} => pending \subseteq pending'
BY ConnectionAssumption DEF ConnectionTypeOK, Misfit, Lost, Refused, Arrives

\* A session that ends takes an open transaction with it.
LEMMA EndSessionKeeps ==
  ASSUME ConnectionTypeOK, NEW status \in {"cut", "closed"}, EndSession(status),
         server' \in BOOLEAN, cuts' \in 0 .. MaxCuts, errors' \in 0 .. MaxErrors
  PROVE  /\ ConnectionTypeOK' /\ table' = table /\ tx' = "none" /\ pending' = {}
         /\ undone \subseteq undone'
         /\ tx # "none" => "cut" \in undone'
         /\ tx = "none" => undone' = undone
BY DEF ConnectionTypeOK, EndSession

\* An outage is a session that ends, or nothing but a server that is back.
LEMMA OutageKeeps ==
  ASSUME ConnectionTypeOK, Cut \/ ServerStarts
  PROVE  /\ ConnectionTypeOK' /\ table' = table
         /\ \/ tx' = tx /\ pending' = pending /\ undone' = undone
            \/ /\ tx' = "none" /\ pending' = {} /\ undone \subseteq undone'
               /\ tx # "none" => "cut" \in undone'
               /\ tx = "none" => undone' = undone
<1>1. CASE Cut
  <2>1. /\ EndSession("cut") /\ server' \in BOOLEAN
        /\ cuts' \in 0 .. MaxCuts /\ errors' \in 0 .. MaxErrors
    BY <1>1, ConnectionAssumption DEF Cut, ConnectionTypeOK
  <2>. QED
    BY <2>1, EndSessionKeeps
<1>2. CASE ServerStarts
  BY <1>2 DEF ServerStarts, ConnectionTypeOK
<1>. QED
  BY <1>1, <1>2

\* A process that is gone has no session, no threads and no memory.
LEMMA DiesKeeps ==
  ASSUME TypeOK, NEW how \in Ended, Dies(how)
  PROVE  /\ TypeOK' /\ main' = how /\ freed' = {} /\ table' = table
         /\ tx' = "none" /\ pending' = {}
         /\ undone \subseteq undone'
         /\ tx # "none" => "cut" \in undone'
         /\ tx = "none" => undone' = undone
<1>1. EndSession("closed") /\ UNCHANGED <<server, cuts, errors>>
  BY DEF Dies
<1>2. /\ ConnectionTypeOK' /\ table' = table /\ tx' = "none" /\ pending' = {}
      /\ undone \subseteq undone'
      /\ tx # "none" => "cut" \in undone'
      /\ tx = "none" => undone' = undone
  <2>1. /\ ConnectionTypeOK /\ server' \in BOOLEAN
        /\ cuts' \in 0 .. MaxCuts /\ errors' \in 0 .. MaxErrors
    BY <1>1 DEF TypeOK, ConnectionTypeOK
  <2>. QED
    BY <1>1, <2>1, EndSessionKeeps
<1>3. main' = how /\ how \in Pc /\ freed' = {}
  BY DEF Dies, Pc
<1>4. TypeOK'
  <2>1. FlagsTypeOK'
    BY DEF Dies, FlagsTypeOK, TypeOK
  <2>2. /\ deletes' \in 0 .. 3 /\ UNCHANGED <<mode, early, entered, told, before, logged>>
        /\ val' = "none" /\ mon' = "none" /\ lis' = "none" /\ smn' = "none" /\ cli' = "none"
        /\ todo' = {}
    BY DEF Dies
  <2>. QED
    BY <1>2, <1>3, <2>1, <2>2 DEF TypeOK
<1>. QED
  BY <1>2, <1>3, <1>4

\* One step of main, of a thread, of the user or of the network keeps every
\* variable in its type.
LEMMA TypeStep == TypeOK /\ [Next]_vars => TypeOK'
<1> SUFFICES ASSUME TypeOK, [Next]_vars PROVE TypeOK'
  OBVIOUS
<1>a. ConnectionTypeOK /\ {Event} \in SUBSET Rows /\ Lines \subseteq Rows
  BY ProcessAssumption DEF TypeOK
<1>b. UNCHANGED dbvars => ConnectionTypeOK' /\ tx' = tx
  BY <1>a DEF dbvars, ConnectionTypeOK
<1>c. ASSUME NEW how \in Ended, Dies(how) PROVE TypeOK'
  BY <1>c, DiesKeeps
<1>d. UNCHANGED <<running, vrun, srun, early, watched, logged>> => FlagsTypeOK'
  BY DEF TypeOK, FlagsTypeOK
<1> USE DEF flags, threads, import, Pc, Importing, Killing, Ended
<1>1. CASE ConnectDatabase
  <2>1. ConnectionTypeOK' /\ tx' = tx
    BY <1>a, <1>1 DEF ConnectDatabase, Connect, ConnectionTypeOK
  <2>. QED
    BY <1>1, <2>1, <1>d DEF TypeOK, ConnectDatabase
<1>2. CASE NoDatabase
  BY <1>2, <1>c DEF NoDatabase
<1>3. CASE CreateValidator
  <2>1. ConnectionTypeOK' /\ (tx = "none" => tx' = "none")
    BY <1>a, <1>3, StatementKeeps DEF CreateValidator
  <2>. QED
    BY <1>3, <2>1, <1>d DEF TypeOK, CreateValidator
<1>4. CASE StartValidator
  <2>1. FlagsTypeOK'
    BY <1>4 DEF StartValidator, TypeOK, FlagsTypeOK
  <2>. QED
    BY <1>4, <1>b, <1>d, <2>1 DEF StartValidator, TypeOK
<1>5. CASE StartMonitor
  <2>1. FlagsTypeOK'
    BY <1>5 DEF StartMonitor, TypeOK, FlagsTypeOK
  <2>. QED
    BY <1>5, <1>b, <2>1 DEF StartMonitor, TypeOK
<1>6. CASE SetUp
  <2>1. ConnectionTypeOK' /\ (tx = "none" => tx' = "none")
    BY <1>a, <1>b, <1>6, StatementKeeps DEF SetUp, dbvars
  <2>2. FlagsTypeOK'
    BY <1>6 DEF TypeOK, FlagsTypeOK, SetUp
  <2>. QED
    BY <1>6, <2>1, <2>2 DEF TypeOK, SetUp
<1>7. CASE StartServers
  <2>1. ConnectionTypeOK' /\ (tx = "none" => tx' = "none")
    BY <1>a, <1>b, <1>7, StatementKeeps DEF StartServers
  <2>2. FlagsTypeOK'
    BY <1>7 DEF TypeOK, FlagsTypeOK, StartServers
  <2>. QED
    BY <1>7, <2>1, <2>2 DEF TypeOK, StartServers
<1>8. CASE SelectProvider
  <2>1. ConnectionTypeOK' /\ (tx = "none" => tx' = "none")
    BY <1>a, <1>8, StatementKeeps DEF SelectProvider
  <2>. QED
    BY <1>8, <2>1, <1>d DEF TypeOK, SelectProvider, Back
<1>9. CASE BeginImport
  <2>1. ConnectionTypeOK' /\ before' \subseteq Rows
    BY <1>a, <1>9 DEF BeginImport, Begin, Lost, Arrives, ConnectionTypeOK
  <2>. QED
    BY <1>9, <2>1, <1>d DEF TypeOK, BeginImport
<1>10. ASSUME NEW d \in todo, InsertLine(d) PROVE TypeOK'
  <2>1. ConnectionTypeOK' /\ (tx = "none" => tx' = "none")
    BY <1>a, <1>10, StatementKeeps DEF InsertLine, TypeOK
  <2>. QED
    BY <1>10, <2>1, <1>d DEF TypeOK, InsertLine, Counted
<1>11. CASE EndOfLines
  BY <1>11, <1>b, <1>d DEF TypeOK, EndOfLines, AfterLines
<1>12. CASE CommitImport
  <2>1. ConnectionTypeOK' /\ tx' = "none"
    BY <1>a, <1>12 DEF CommitImport, Commit, Lost, Arrives, ConnectionTypeOK
  <2>. QED
    BY <1>12, <2>1, <1>d DEF TypeOK, CommitImport, Back
<1>13. CASE JoinMonitor
  BY <1>13, <1>b, <1>d DEF TypeOK, JoinMonitor
<1>14. CASE JoinNothing
  BY <1>14, <1>c DEF JoinNothing
<1>15. CASE StopValidator
  <2>1. FlagsTypeOK'
    BY <1>15 DEF StopValidator, Stopped, TypeOK, FlagsTypeOK
  <2>. QED
    BY <1>15, <1>b, <1>d, <2>1 DEF StopValidator, Stopped, TypeOK
<1>16. CASE JoinValidator
  BY <1>16, <1>b, <1>d DEF TypeOK, JoinValidator
<1>17. CASE DestroyValidator
  BY <1>17, <1>b, <1>d DEF TypeOK, DestroyValidator
<1>18. CASE StopSipServer
  <2>1. FlagsTypeOK'
    BY <1>18 DEF StopSipServer, Stopped, TypeOK, FlagsTypeOK
  <2>. QED
    BY <1>18, <1>b, <1>d, <2>1 DEF StopSipServer, Stopped, TypeOK
<1>19. CASE JoinSipThreads
  BY <1>19, <1>b, <1>d DEF TypeOK, JoinSipThreads
<1>20. CASE DestroySipServer
  BY <1>20, <1>b, <1>d DEF TypeOK, DestroySipServer
<1>21. CASE CloseDatabase
  <2>1. ConnectionTypeOK' /\ tx' = "none"
    <3>1. EndSession("closed") /\ UNCHANGED <<server, cuts, errors>>
      BY <1>21 DEF CloseDatabase, Close
    <3>. QED
      BY <1>a, <3>1, EndSessionKeeps DEF ConnectionTypeOK
  <2>. QED
    BY <1>21, <2>1, <1>d DEF TypeOK, CloseDatabase
<1>22. CASE Return
  BY <1>22, <1>c DEF Return
<1>23. CASE Serve
  BY <1>23, <1>b, <1>d DEF TypeOK, Serve
<1>24. CASE CheckFlag
  <2>1. FlagsTypeOK'
    BY <1>24 DEF CheckFlag, TypeOK, FlagsTypeOK
  <2>. QED
    BY <1>24, <1>b, <1>d, <2>1 DEF CheckFlag, TypeOK
<1>25. CASE TestCall
  <2>1. ConnectionTypeOK' /\ (tx = "none" => tx' = "none")
    BY <1>a, <1>25, StatementKeeps DEF TestCall
  <2>2. FlagsTypeOK'
    BY <1>25 DEF TypeOK, FlagsTypeOK, TestCall
  <2>. QED
    BY <1>25, <2>1, <2>2 DEF TypeOK, TestCall, Back
<1>26. CASE ReadLine
  <2>1. FlagsTypeOK'
    BY <1>26 DEF ReadLine, TypeOK, FlagsTypeOK
  <2>. QED
    BY <1>26, <1>b, <2>1, ProcessAssumption DEF ReadLine, TypeOK
<1>27. CASE EndOfFile
  <2>1. FlagsTypeOK'
    BY <1>27 DEF EndOfFile, TypeOK, FlagsTypeOK
  <2>. QED
    BY <1>27, <1>b, <1>d, <2>1 DEF EndOfFile, TypeOK
<1>28. CASE Exit
  BY <1>28, <1>c DEF Exit
<1>29. CASE Signal
  <2>1. FlagsTypeOK'
    BY <1>29 DEF Signal, Alive, TypeOK, FlagsTypeOK
  <2>. QED
    BY <1>29, <1>b, <1>d, <2>1 DEF Signal, Alive, TypeOK
<1>30. CASE SignalAfterShell
  BY <1>30, <1>c DEF SignalAfterShell
<1>31. CASE CheckValidator
  BY <1>31, <1>b, <1>d DEF TypeOK, CheckValidator, Alive
<1>32. CASE Validate
  <2>1. ConnectionTypeOK' /\ (tx = "none" => tx' = "none")
    BY <1>a, <1>b, <1>32, MisfitKeeps DEF Validate
  <2>2. FlagsTypeOK'
    BY <1>32 DEF TypeOK, FlagsTypeOK, Validate
  <2>. QED
    BY <1>32, <2>1, <2>2 DEF TypeOK, Validate
<1>33. CASE HangUp
  <2>1. ConnectionTypeOK' /\ (tx = "none" => tx' = "none")
    BY <1>a, <1>33, StatementKeeps DEF HangUp
  <2>2. FlagsTypeOK'
    BY <1>33 DEF TypeOK, FlagsTypeOK, HangUp
  <2>. QED
    BY <1>33, <2>1, <2>2 DEF TypeOK, HangUp, Alive
<1>34. CASE UpdateRecord
  <2>1. ConnectionTypeOK' /\ (tx = "none" => tx' = "none")
    BY <1>a, <1>34, MisfitKeeps DEF UpdateRecord
  <2>. QED
    BY <1>34, <2>1, <1>d DEF TypeOK, UpdateRecord
<1>35. CASE MarkFailed
  <2>1. ConnectionTypeOK' /\ (tx = "none" => tx' = "none")
    BY <1>a, <1>35, StatementKeeps DEF MarkFailed
  <2>. QED
    BY <1>35, <2>1, <1>d DEF TypeOK, MarkFailed, Alive
<1>36. CASE WakeValidator
  BY <1>36, <1>b, <1>d DEF TypeOK, WakeValidator, Alive
<1>37. CASE CheckRunning
  BY <1>37, <1>b, <1>d DEF TypeOK, CheckRunning, Alive
<1>38. CASE CleanList
  BY <1>38, <1>b, <1>d DEF TypeOK, CleanList, Alive
<1>39. CASE CleanTables
  <2>1. ConnectionTypeOK' /\ (tx = "none" => tx' = "none")
    BY <1>a, <1>39, StatementKeeps DEF CleanTables
  <2>. QED
    BY <1>39, <2>1, <1>d DEF TypeOK, CleanTables, Alive
<1>40. CASE WakeMonitor
  BY <1>40, <1>b, <1>d DEF TypeOK, WakeMonitor, Alive
<1>41. CASE UseFreed
  <2>1. CASE Dies("crashed")
    BY <1>c, <2>1
  <2>2. CASE ~Dies("crashed")
    BY <1>41, <1>b, <1>d, <2>2 DEF TypeOK, UseFreed
  <2>. QED
    BY <2>1, <2>2
<1>42. CASE CheckReload
  BY <1>42, <1>b, <1>d DEF TypeOK, CheckReload, Alive
<1>43. CASE Reload
  <2>1. ConnectionTypeOK' /\ (tx = "none" => tx' = "none")
    BY <1>a, <1>43, StatementKeeps DEF Reload
  <2>. QED
    BY <1>43, <2>1, <1>d DEF TypeOK, Reload, Alive
<1>44. CASE WakeReload
  BY <1>44, <1>b, <1>d DEF TypeOK, WakeReload, Alive
<1>45. CASE Listen
  BY <1>45, <1>b, <1>d DEF TypeOK, Listen, Alive
<1>46. CASE Outage
  <2>1. ConnectionTypeOK' /\ (tx = "none" => tx' = "none")
    BY <1>a, <1>46, OutageKeeps DEF Outage
  <2>. QED
    BY <1>46, <2>1, <1>d DEF TypeOK, Outage
<1>47. CASE Crash
  BY <1>47, <1>c DEF Crash
<1>48. CASE UNCHANGED vars
  BY <1>48, <1>b, <1>d DEF TypeOK, vars
<1>. QED
  BY <1>1, <1>2, <1>3, <1>4, <1>5, <1>6, <1>7, <1>8, <1>9, <1>10, <1>11, <1>12,
     <1>13, <1>14, <1>15, <1>16, <1>17, <1>18, <1>19, <1>20, <1>21, <1>22,
     <1>23, <1>24, <1>25, <1>26, <1>27, <1>28, <1>29, <1>30, <1>31, <1>32,
     <1>33, <1>34, <1>35, <1>36, <1>37, <1>38, <1>39, <1>40, <1>41, <1>42,
     <1>43, <1>44, <1>45, <1>46, <1>47, <1>48
     DEF Next, Main, Start, Import, Shutdown, User, Validator, Monitor, SipReload

\* No process is connected when it starts.
LEMMA TypeInit == Init => TypeOK
<1> SUFFICES ASSUME Init PROVE TypeOK
  OBVIOUS
<1>1. FlagsTypeOK
  BY DEF Init, FlagsTypeOK
<1>2. ConnectionTypeOK /\ tx = "none"
  BY ConnectionAssumption DEF Init, ConnectionInit, ConnectionTypeOK
<1>3. entered \in 0 .. MaxCommands /\ deletes \in 0 .. 3
  BY ProcessAssumption DEF Init
<1>. QED
  BY <1>1, <1>2, <1>3 DEF Init, TypeOK, Pc

\* Every variable of a process keeps its type, and outside an import there
\* is no transaction: for any number of commands, lines, cuts and errors.
THEOREM TypeCorrect == Spec => []TypeOK
<1>. QED
  BY TypeInit, TypeStep, PTL DEF Spec

-----------------------------------------------------------------------------
(***************************************************************************)
(* Nothing is used after it was destroyed.  main() destroys an object only *)
(* behind the join of the threads that use it, and the clean-ups that skip *)
(* the joins of the SIP server come where it has no threads.               *)
(***************************************************************************)

Gone == {"none", "done"}
Starting == {"connect", "create", "start", "watch"}
Destroying == {"sipstop", "sipjoin", "sipfree", "close"}

Fresh == main \in Starting \cup {"setup", "open"} =>
  /\ freed = {} /\ lis = "none" /\ smn = "none"
  /\ main \in Starting => mon = "none" /\ ~early
  /\ main \in Starting \ {"watch"} => val = "none"
  /\ main \in {"setup", "open"} => ~early
Freed == freed # {} => main \in Destroying \cup {"exit"} \cup Ended
ValidatorJoined == main \in {"free"} \cup Destroying \/ freed # {} => val \in Gone
MonitorJoined ==
  ~early =>
    /\ main \in {"stop", "await", "free"} \cup Destroying \/ freed # {} => mon \in Gone
    /\ main \notin Starting \cup Ended => mode # "command"
SipJoined ==
  /\ early => lis = "none" /\ smn = "none"
  /\ lis = "none" => smn = "none"
  /\ main \in {"sipfree", "close"} \/ freed \cap {"sip", "db"} # {} =>
       lis \in Gone /\ smn \in Gone

LiveInv == TypeOK /\ Fresh /\ Freed /\ ValidatorJoined /\ MonitorJoined /\ SipJoined

\* A thread that is gone touches nothing, and none touches what was freed
\* before something was.
LEMMA SoundMeans ==
  /\ val \in Gone => Sound("validator")
  /\ lis \in Gone => Sound("listen")
  /\ smn \in Gone => Sound("reload")
  /\ ~Sound("monitor") => mon \in {"lock", "delete"} /\ freed # {}
  /\ ~Sound("validator") => freed # {}
  /\ ~Sound("listen") /\ freed \subseteq {"validator", "sip", "db"} =>
       freed \cap {"sip", "db"} # {}
  /\ ~Sound("reload") /\ freed \subseteq {"validator", "sip", "db"} =>
       freed \cap {"sip", "db"} # {}
BY DEF Sound, Touches, Gone, Killing

\* A process that has ended satisfies what is said of the others.
LEMMA DiesLive ==
  ASSUME LiveInv, NEW how \in Ended, Dies(how)
  PROVE  (Fresh /\ Freed /\ ValidatorJoined /\ MonitorJoined /\ SipJoined)'
BY DEF Dies, Ended, Starting, Destroying, Gone, Fresh, Freed, ValidatorJoined,
       MonitorJoined, SipJoined

\* One step of main, of a thread, of the user or of the network keeps the
\* order of joins and destructions.
LEMMA LiveStep == LiveInv /\ [Next]_vars => LiveInv'
<1> SUFFICES ASSUME LiveInv, [Next]_vars PROVE LiveInv'
  OBVIOUS
<1> DEFINE Joined == Fresh /\ Freed /\ ValidatorJoined /\ MonitorJoined /\ SipJoined
<1>a. TypeOK /\ TypeOK'
  BY TypeStep DEF LiveInv
<1>b. Joined
  BY DEF LiveInv
<1>c. ASSUME NEW how \in Ended, Dies(how) PROVE Joined'
  BY <1>c, DiesLive
<1>d. UNCHANGED <<main, mode, early, freed, val, mon, lis, smn>> => Joined'
  BY <1>b DEF Starting, Destroying, Gone, Ended, Fresh, Freed, ValidatorJoined,
              MonitorJoined, SipJoined
<1> USE <1>b DEF flags, threads, import, Starting, Destroying, Gone, Importing, Ended,
                 Fresh, Freed, ValidatorJoined, MonitorJoined, SipJoined
<1>1. ASSUME ConnectDatabase PROVE Joined'
  BY <1>1 DEF ConnectDatabase
<1>2. ASSUME NoDatabase PROVE Joined'
  BY <1>2, <1>c DEF NoDatabase
<1>3. ASSUME CreateValidator PROVE Joined'
  BY <1>3 DEF CreateValidator
<1>4. ASSUME StartValidator PROVE Joined'
  BY <1>4 DEF StartValidator
<1>5. ASSUME StartMonitor PROVE Joined'
  BY <1>5 DEF StartMonitor
<1>6. ASSUME SetUp PROVE Joined'
  BY <1>6 DEF SetUp
<1>7. ASSUME StartServers PROVE Joined'
  BY <1>7 DEF StartServers
<1>8. ASSUME SelectProvider PROVE Joined'
  BY <1>8 DEF SelectProvider, Back
<1>9. ASSUME BeginImport PROVE Joined'
  BY <1>9 DEF BeginImport
<1>10. ASSUME NEW d \in todo, InsertLine(d) PROVE Joined'
  BY <1>10, <1>d DEF InsertLine
<1>11. ASSUME EndOfLines PROVE Joined'
  BY <1>11 DEF EndOfLines, AfterLines
<1>12. ASSUME CommitImport PROVE Joined'
  BY <1>12 DEF CommitImport, Back
<1>13. ASSUME JoinMonitor PROVE Joined'
  BY <1>13 DEF JoinMonitor, Over
<1>14. ASSUME JoinNothing PROVE Joined'
  BY <1>14, <1>c DEF JoinNothing
<1>15. ASSUME StopValidator PROVE Joined'
  BY <1>15 DEF StopValidator, Stopped
<1>16. ASSUME JoinValidator PROVE Joined'
  BY <1>16 DEF JoinValidator, Over
<1>17. ASSUME DestroyValidator PROVE Joined'
  BY <1>17 DEF DestroyValidator
<1>18. ASSUME StopSipServer PROVE Joined'
  BY <1>18 DEF StopSipServer, Stopped
<1>19. ASSUME JoinSipThreads PROVE Joined'
  BY <1>19 DEF JoinSipThreads, Over
<1>20. ASSUME DestroySipServer PROVE Joined'
  BY <1>20 DEF DestroySipServer
<1>21. ASSUME CloseDatabase PROVE Joined'
  BY <1>21 DEF CloseDatabase
<1>22. ASSUME Return PROVE Joined'
  BY <1>22, <1>c DEF Return
<1>23. ASSUME Serve PROVE Joined'
  BY <1>23 DEF Serve
<1>24. ASSUME CheckFlag PROVE Joined'
  BY <1>24 DEF CheckFlag
<1>25. ASSUME TestCall PROVE Joined'
  BY <1>25 DEF TestCall, Back
<1>26. ASSUME ReadLine PROVE Joined'
  BY <1>26 DEF ReadLine
<1>27. ASSUME EndOfFile PROVE Joined'
  BY <1>27 DEF EndOfFile
<1>28. ASSUME Exit PROVE Joined'
  BY <1>28, <1>c DEF Exit
<1>29. ASSUME Signal PROVE Joined'
  BY <1>29, <1>d DEF Signal
<1>30. ASSUME SignalAfterShell PROVE Joined'
  BY <1>30, <1>c DEF SignalAfterShell
<1>31. ASSUME CheckValidator PROVE Joined'
  BY <1>31 DEF CheckValidator
<1>32. ASSUME Validate PROVE Joined'
  BY <1>32 DEF Validate
<1>33. ASSUME HangUp PROVE Joined'
  BY <1>33 DEF HangUp
<1>34. ASSUME UpdateRecord PROVE Joined'
  BY <1>34 DEF UpdateRecord
<1>35. ASSUME MarkFailed PROVE Joined'
  BY <1>35 DEF MarkFailed
<1>36. ASSUME WakeValidator PROVE Joined'
  BY <1>36 DEF WakeValidator
<1>37. ASSUME CheckRunning PROVE Joined'
  BY <1>37 DEF CheckRunning
<1>38. ASSUME CleanList PROVE Joined'
  BY <1>38 DEF CleanList
<1>39. ASSUME CleanTables PROVE Joined'
  BY <1>39 DEF CleanTables
<1>40. ASSUME WakeMonitor PROVE Joined'
  BY <1>40 DEF WakeMonitor
<1>41. ASSUME UseFreed PROVE Joined'
  BY <1>41, <1>c, SoundMeans DEF UseFreed, Killing
<1>42. ASSUME CheckReload PROVE Joined'
  BY <1>42 DEF CheckReload
<1>43. ASSUME Reload PROVE Joined'
  BY <1>43 DEF Reload
<1>44. ASSUME WakeReload PROVE Joined'
  BY <1>44 DEF WakeReload
<1>45. ASSUME Listen PROVE Joined'
  BY <1>45 DEF Listen
<1>46. ASSUME Outage PROVE Joined'
  BY <1>46, <1>d DEF Outage
<1>47. ASSUME Crash PROVE Joined'
  BY <1>47, <1>c DEF Crash
<1>48. ASSUME UNCHANGED vars PROVE Joined'
  BY <1>48, <1>d DEF vars
<1>. QED
  BY <1>a, <1>1, <1>2, <1>3, <1>4, <1>5, <1>6, <1>7, <1>8, <1>9, <1>10, <1>11, <1>12,
     <1>13, <1>14, <1>15, <1>16, <1>17, <1>18, <1>19, <1>20, <1>21, <1>22,
     <1>23, <1>24, <1>25, <1>26, <1>27, <1>28, <1>29, <1>30, <1>31, <1>32,
     <1>33, <1>34, <1>35, <1>36, <1>37, <1>38, <1>39, <1>40, <1>41, <1>42,
     <1>43, <1>44, <1>45, <1>46, <1>47, <1>48
     DEF LiveInv, Next, Main, Start, Import, Shutdown, User, Validator, Monitor, SipReload

\* A process that starts has destroyed nothing.
LEMMA LiveInit == Init => LiveInv
BY TypeInit DEF Init, LiveInv, Starting, Destroying, Gone, Ended, Fresh, Freed,
                ValidatorJoined, MonitorJoined, SipJoined

\* No thread uses the validator, the SIP server or the connection after
\* main() destroyed it, whatever the threads do and wherever main() leaves;
\* main's own thread is the exception in the clean-ups that do not join it.
THEOREM NothingFreedIsUsed == Spec => []UsesLive
<1>1. LiveInv => UsesLive
  BY SoundMeans DEF LiveInv, TypeOK, UsesLive, ValidatorJoined, MonitorJoined,
                    SipJoined, Gone
<1>. QED
  BY <1>1, LiveInit, LiveStep, PTL DEF Spec

-----------------------------------------------------------------------------
(***************************************************************************)
(* What an import reported is kept.  While a transaction is open the table *)
(* stands where the import found it and the answered lines wait; without   *)
(* one they are in the table already; after one that was refused the table *)
(* is as it was.                                                           *)
(***************************************************************************)

Open == main \in {"insert", "commit"}
Logged == IF logged THEN {Event} ELSE {}

OutsideNone == ~Open => tx = "none"
AnsweredKept == undone = {} => told \cup Logged \subseteq table \cup pending
OneWay == ~Open /\ "cut" \notin undone => told \subseteq table \/ told \cap table \subseteq before
InOpen == Open =>
  /\ tx = "open" => told \subseteq table \cup pending /\ table = before
  /\ tx = "aborted" => table = before
  /\ tx = "none" /\ "cut" \notin undone => told \subseteq table

Kept == OutsideNone /\ AnsweredKept /\ OneWay /\ InOpen
KeptInv == TypeOK /\ Kept

\* The end of the session takes the transaction, and says so in undone.
LEMMA EndedKept ==
  ASSUME KeptInv, UNCHANGED <<told, before, logged, table>>, TypeOK',
         tx' = "none", pending' = {}, undone \subseteq undone', Open' => Open,
         tx # "none" => "cut" \in undone', tx = "none" => undone' = undone
  PROVE  Kept'
<1>1. AnsweredKept'
  BY DEF KeptInv, Kept, AnsweredKept, Logged, TypeOK, ConnectionTypeOK
<1>2. OneWay'
  BY DEF KeptInv, Kept, OneWay, InOpen, OutsideNone
<1>3. InOpen' /\ OutsideNone'
  BY DEF KeptInv, Kept, InOpen, OutsideNone
<1>. QED
  BY <1>1, <1>2, <1>3 DEF Kept

\* A step that does not write keeps it: an import starts at its BEGIN and
\* ends at its COMMIT only.
LEMMA QuietKept ==
  ASSUME KeptInv, UNCHANGED <<told, before, logged, table, pending, tx, undone>>,
         Open' <=> Open
  PROVE  Kept'
BY DEF KeptInv, Kept, OutsideNone, AnsweredKept, OneWay, InOpen, Logged

\* So does a statement that writes an event at most, accepted or not.
LEMMA SentKept ==
  ASSUME KeptInv, NEW insert \in SUBSET {Event}, UNCHANGED <<told, before>>, Open' <=> Open,
         tx = "none" <=> tx' = "none",
         tx' = "open" => tx = "open" /\ pending \subseteq pending' /\ table' = table,
         tx # "none" => table' = table,
         table \subseteq table', table' \subseteq table \cup insert,
         undone \subseteq undone', "cut" \in undone' => "cut" \in undone,
         undone' = {} => pending \subseteq pending',
         Logged' \subseteq Logged \cup (insert \cap (table' \cup pending'))
  PROVE  Kept'
<1>1. AnsweredKept'
  BY DEF KeptInv, Kept, AnsweredKept
<1>2. OneWay'
  <2>1. Event \notin told
    BY ProcessAssumption DEF KeptInv, TypeOK
  <2>. QED
    BY <2>1 DEF KeptInv, Kept, OneWay
<1>3. InOpen'
  <2>1. ConnectionTypeOK
    BY DEF KeptInv, TypeOK
  <2>2. tx \in {"none", "open", "aborted"}
    BY <2>1 DEF ConnectionTypeOK
  <2>. QED
    BY <2>2 DEF KeptInv, Kept, InOpen
<1>4. OutsideNone'
  BY DEF KeptInv, Kept, OutsideNone
<1>. QED
  BY <1>1, <1>2, <1>3, <1>4 DEF Kept

\* A statement of main or of a thread that is no line of the import.
LEMMA StatementKept ==
  ASSUME KeptInv, NEW insert \in SUBSET {Event}, NEW ok \in BOOLEAN, Statement(insert, ok),
         UNCHANGED <<told, before>>, Open' <=> Open,
         Logged' \subseteq Logged \cup (IF ok THEN insert ELSE {})
  PROVE  Kept'
<1>1. ConnectionTypeOK /\ insert \in SUBSET Rows
  BY ProcessAssumption DEF KeptInv, TypeOK
<1>2. ok => insert \subseteq table' \cup pending'
  BY <1>1, StatementKeeps
<1>3. Logged' \subseteq Logged \cup (insert \cap (table' \cup pending'))
  BY <1>2
<1>4. /\ tx = "none" <=> tx' = "none"
      /\ tx' = "open" => tx = "open" /\ pending \subseteq pending' /\ table' = table
      /\ tx # "none" => table' = table
      /\ table \subseteq table' /\ table' \subseteq table \cup insert
      /\ undone \subseteq undone' /\ ("cut" \in undone' => "cut" \in undone)
      /\ undone' = {} => pending \subseteq pending'
  BY <1>1, StatementKeeps
<1>. QED
  BY <1>3, <1>4, SentKept

\* The statements that are always refused.
LEMMA MisfitKept ==
  ASSUME KeptInv, Misfit, UNCHANGED <<told, before, logged>>, Open' <=> Open
  PROVE  Kept'
<1>1. ConnectionTypeOK
  BY DEF KeptInv, TypeOK
<1>2. Logged' = Logged
  BY DEF Logged
<1>. QED
  BY <1>1, <1>2, MisfitKeeps, SentKept

\* One step keeps what was reported.
LEMMA KeptStep == KeptInv /\ [Next]_vars => KeptInv'
<1> SUFFICES ASSUME KeptInv, [Next]_vars PROVE KeptInv'
  OBVIOUS
<1>a. TypeOK /\ TypeOK' /\ ConnectionTypeOK /\ ConnectionTypeOK' /\ Kept
  <2>1. TypeOK /\ TypeOK'
    BY TypeStep DEF KeptInv
  <2>. QED
    BY <2>1 DEF KeptInv, TypeOK
<1>b. ASSUME NEW how \in Ended, Dies(how) PROVE Kept'
  <2>1. ~Open' /\ UNCHANGED <<told, before, logged>>
    BY <1>b DEF Dies, Open, Ended
  <2>. QED
    BY <1>a, <1>b, <2>1, DiesKeeps, EndedKept
<1>c. UNCHANGED logged => Logged' \subseteq Logged \cup {}
  BY DEF Logged
<1> USE DEF flags, threads, import, dbvars, Ended, Open
<1>1. ASSUME ConnectDatabase PROVE Kept'
  BY <1>1, QuietKept DEF ConnectDatabase, Connect
<1>2. ASSUME NoDatabase PROVE Kept'
  BY <1>2, <1>b DEF NoDatabase
<1>3. ASSUME CreateValidator PROVE Kept'
  BY <1>3, <1>c, StatementKept DEF CreateValidator
<1>4. ASSUME StartValidator PROVE Kept'
  BY <1>4, QuietKept DEF StartValidator
<1>5. ASSUME StartMonitor PROVE Kept'
  BY <1>5, QuietKept DEF StartMonitor
<1>6. ASSUME SetUp PROVE Kept'
  BY <1>6, <1>c, StatementKept, QuietKept DEF SetUp
<1>7. ASSUME StartServers PROVE Kept'
  BY <1>7, <1>c, StatementKept, QuietKept DEF StartServers
<1>8. ASSUME SelectProvider PROVE Kept'
  BY <1>8, <1>c, StatementKept DEF SelectProvider, Back
<1>9. ASSUME BeginImport PROVE Kept'
  <2>1. tx = "none" /\ pending = {} /\ Open'
    BY <1>a, <1>9 DEF BeginImport, Kept, OutsideNone, ConnectionTypeOK
  <2>2. table' = table /\ undone' = undone /\ pending' = pending /\ tx' \in {"none", "open"}
    BY <1>9, <2>1 DEF BeginImport, Begin, Lost
  <2>3. told' = {} /\ before' = table /\ logged' = logged
    BY <1>9 DEF BeginImport
  <2>4. AnsweredKept'
    BY <1>a, <2>1, <2>2, <2>3 DEF Kept, AnsweredKept, Logged
  <2>. QED
    BY <2>1, <2>2, <2>3, <2>4 DEF Kept, OutsideNone, OneWay, InOpen
<1>10. ASSUME NEW d \in todo, InsertLine(d) PROVE Kept'
  <2>1. PICK ok \in BOOLEAN : Statement({d}, ok) /\ Counted(d, ok)
    BY <1>10 DEF InsertLine
  <2>2. told' = IF ok THEN told \cup {d} ELSE told
    BY <2>1 DEF Counted
  <2>3. Open /\ Open' /\ before' = before /\ logged' = logged
    BY <1>10 DEF InsertLine
  <2>4. {d} \in SUBSET Rows
    BY <1>a, ProcessAssumption DEF TypeOK
  <2>5. /\ tx = "none" <=> tx' = "none"
        /\ tx' = "open" => tx = "open" /\ pending \subseteq pending' /\ table' = table
        /\ tx # "none" => table' = table
        /\ table \subseteq table' /\ (ok => {d} \subseteq table' \cup pending')
        /\ undone \subseteq undone' /\ ("cut" \in undone' => "cut" \in undone)
        /\ undone' = {} => pending \subseteq pending'
    BY <1>a, <2>1, <2>4, StatementKeeps
  <2>6. told' \subseteq told \cup (table' \cup pending')
    BY <2>2, <2>5
  <2>7. AnsweredKept'
    BY <1>a, <2>3, <2>5, <2>6 DEF Kept, AnsweredKept, Logged
  <2>8. InOpen'
    BY <1>a, <2>3, <2>5, <2>6 DEF Kept, InOpen, ConnectionTypeOK
  <2>. QED
    BY <2>3, <2>7, <2>8 DEF Kept, OutsideNone, OneWay
<1>11. ASSUME EndOfLines PROVE Kept'
  BY <1>11, QuietKept DEF EndOfLines, AfterLines
<1>12. ASSUME CommitImport PROVE Kept'
  <2>1. Open /\ ~Open' /\ UNCHANGED <<told, before, logged>>
    BY <1>12 DEF CommitImport, Back
  <2>2. CASE Lost
    <3>1. tx = "none" /\ UNCHANGED <<tx, table, pending, undone>>
      BY <1>a, <2>2 DEF Lost, ConnectionTypeOK
    <3>. QED
      BY <1>a, <2>1, <3>1 DEF Kept, OutsideNone, AnsweredKept, OneWay, InOpen, Logged
  <2>3. CASE ~Lost
    <3>1. tx' = "none" /\ table' = table \cup pending /\ pending' = {} /\ undone' = undone
      BY <1>12, <2>3 DEF CommitImport, Commit
    <3>2. tx # "open" => pending = {}
      BY <1>a DEF ConnectionTypeOK
    <3>3. tx \in {"none", "open", "aborted"}
      BY <1>a DEF ConnectionTypeOK
    <3>. QED
      BY <1>a, <2>1, <3>1, <3>2, <3>3
         DEF Kept, OutsideNone, AnsweredKept, OneWay, InOpen, Logged
  <2>. QED
    BY <2>2, <2>3
<1>13. ASSUME JoinMonitor PROVE Kept'
  BY <1>13, QuietKept DEF JoinMonitor
<1>14. ASSUME JoinNothing PROVE Kept'
  BY <1>14, <1>b DEF JoinNothing
<1>15. ASSUME StopValidator PROVE Kept'
  BY <1>15, QuietKept DEF StopValidator
<1>16. ASSUME JoinValidator PROVE Kept'
  BY <1>16, QuietKept DEF JoinValidator
<1>17. ASSUME DestroyValidator PROVE Kept'
  BY <1>17, QuietKept DEF DestroyValidator
<1>18. ASSUME StopSipServer PROVE Kept'
  BY <1>18, QuietKept DEF StopSipServer
<1>19. ASSUME JoinSipThreads PROVE Kept'
  BY <1>19, QuietKept DEF JoinSipThreads
<1>20. ASSUME DestroySipServer PROVE Kept'
  BY <1>20, QuietKept DEF DestroySipServer
<1>21. ASSUME CloseDatabase PROVE Kept'
  <2>1. /\ EndSession("closed") /\ UNCHANGED <<server, cuts, errors, told, before, logged>>
        /\ ~Open'
    BY <1>21 DEF CloseDatabase, Close
  <2>2. server' \in BOOLEAN /\ cuts' \in 0 .. MaxCuts /\ errors' \in 0 .. MaxErrors
    BY <1>a DEF ConnectionTypeOK
  <2>. QED
    BY <1>a, <2>1, <2>2, EndSessionKeeps, EndedKept
<1>22. ASSUME Return PROVE Kept'
  BY <1>22, <1>b DEF Return
<1>23. ASSUME Serve PROVE Kept'
  BY <1>23, QuietKept DEF Serve
<1>24. ASSUME CheckFlag PROVE Kept'
  BY <1>24, QuietKept DEF CheckFlag
<1>25. ASSUME TestCall PROVE Kept'
  BY <1>25, <1>c, StatementKept DEF TestCall, Back
<1>26. ASSUME ReadLine PROVE Kept'
  BY <1>26, QuietKept DEF ReadLine
<1>27. ASSUME EndOfFile PROVE Kept'
  BY <1>27, QuietKept DEF EndOfFile
<1>28. ASSUME Exit PROVE Kept'
  BY <1>28, <1>b DEF Exit
<1>29. ASSUME Signal PROVE Kept'
  BY <1>29, QuietKept DEF Signal
<1>30. ASSUME SignalAfterShell PROVE Kept'
  BY <1>30, <1>b DEF SignalAfterShell
<1>31. ASSUME CheckValidator PROVE Kept'
  BY <1>31, QuietKept DEF CheckValidator
<1>32. ASSUME Validate PROVE Kept'
  <2>1. UNCHANGED <<main, told, before, logged>> /\ (UNCHANGED dbvars \/ Misfit)
    BY <1>32 DEF Validate
  <2>. QED
    BY <2>1, QuietKept, MisfitKept
<1>33. ASSUME HangUp PROVE Kept'
  <2>1. PICK ok \in BOOLEAN : Statement({Event}, ok) /\ logged' = ok
    BY <1>33 DEF HangUp
  <2>2. Logged' \subseteq Logged \cup (IF ok THEN {Event} ELSE {})
    BY <2>1 DEF Logged
  <2>3. UNCHANGED <<main, told, before>>
    BY <1>33 DEF HangUp
  <2>. QED
    BY <2>1, <2>2, <2>3, StatementKept
<1>34. ASSUME UpdateRecord PROVE Kept'
  BY <1>34, MisfitKept DEF UpdateRecord
<1>35. ASSUME MarkFailed PROVE Kept'
  BY <1>35, <1>c, StatementKept DEF MarkFailed
<1>36. ASSUME WakeValidator PROVE Kept'
  BY <1>36, QuietKept DEF WakeValidator
<1>37. ASSUME CheckRunning PROVE Kept'
  BY <1>37, QuietKept DEF CheckRunning
<1>38. ASSUME CleanList PROVE Kept'
  BY <1>38, QuietKept DEF CleanList
<1>39. ASSUME CleanTables PROVE Kept'
  BY <1>39, <1>c, StatementKept DEF CleanTables
<1>40. ASSUME WakeMonitor PROVE Kept'
  BY <1>40, QuietKept DEF WakeMonitor
<1>41. ASSUME UseFreed PROVE Kept'
  BY <1>41, <1>b, QuietKept DEF UseFreed
<1>42. ASSUME CheckReload PROVE Kept'
  BY <1>42, QuietKept DEF CheckReload
<1>43. ASSUME Reload PROVE Kept'
  BY <1>43, <1>c, StatementKept DEF Reload
<1>44. ASSUME WakeReload PROVE Kept'
  BY <1>44, QuietKept DEF WakeReload
<1>45. ASSUME Listen PROVE Kept'
  BY <1>45, QuietKept DEF Listen
<1>46. ASSUME Outage PROVE Kept'
  <2>1. UNCHANGED <<main, told, before, logged>> /\ (Cut \/ ServerStarts)
    BY <1>46 DEF Outage
  <2>2. CASE tx' = tx /\ pending' = pending /\ undone' = undone
    BY <1>a, <2>1, <2>2, OutageKeeps, QuietKept
  <2>3. CASE ~(tx' = tx /\ pending' = pending /\ undone' = undone)
    BY <1>a, <2>1, <2>3, OutageKeeps, EndedKept
  <2>. QED
    BY <2>2, <2>3
<1>47. ASSUME Crash PROVE Kept'
  BY <1>47, <1>b DEF Crash
<1>48. ASSUME UNCHANGED vars PROVE Kept'
  BY <1>48, QuietKept DEF vars
<1>. QED
  BY <1>a, <1>1, <1>2, <1>3, <1>4, <1>5, <1>6, <1>7, <1>8, <1>9, <1>10, <1>11, <1>12,
     <1>13, <1>14, <1>15, <1>16, <1>17, <1>18, <1>19, <1>20, <1>21, <1>22,
     <1>23, <1>24, <1>25, <1>26, <1>27, <1>28, <1>29, <1>30, <1>31, <1>32,
     <1>33, <1>34, <1>35, <1>36, <1>37, <1>38, <1>39, <1>40, <1>41, <1>42,
     <1>43, <1>44, <1>45, <1>46, <1>47, <1>48
     DEF KeptInv, Next, Main, Start, Import, Shutdown, User, Validator, Monitor, SipReload

\* The table is what it was before the process.
LEMMA KeptInit == Init => KeptInv
BY TypeInit DEF Init, ConnectionInit, KeptInv, Kept, OutsideNone, AnsweredKept, OneWay,
                InOpen, Logged, Open

\* An imported number and a logged event are in the table unless a
\* transaction was undone, and no refused statement, of whatever thread,
\* leaves half an import: for any file, and any number of imports.
THEOREM Imported == Spec => []ImportKept
<1>1. KeptInv => ImportKept
  <2> SUFFICES ASSUME KeptInv, main \notin Importing
               PROVE  /\ undone = {} => told \cup Logged \subseteq table
                      /\ "cut" \notin undone => told \subseteq table \/ told \cap table \subseteq before
    BY DEF ImportKept, Logged
  <2>1. ~Open /\ tx = "none" /\ pending = {}
    BY DEF KeptInv, Kept, OutsideNone, Open, Importing, TypeOK, ConnectionTypeOK
  <2>. QED
    BY <2>1 DEF KeptInv, Kept, AnsweredKept, OneWay
<1>. QED
  BY <1>1, KeptInit, KeptStep, PTL DEF Spec

=============================================================================

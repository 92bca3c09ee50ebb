------------------------------ MODULE Dialplan ------------------------------
(***************************************************************************)
(* The route commands of route_cmd.c and the files they keep for           *)
(* FreeSWITCH.  A route is a row of the routes table; the generator of      *)
(* fs_generate_module2_dialplan.c writes one file per row into the dialplan *)
(* directory, copies it to the cache directory, and has FreeSWITCH load the *)
(* directory.  Nothing locks any of this: every invocation of the command   *)
(* line is a process of its own, and may be stopped half-way.               *)
(*                                                                         *)
(* What a file says is left out: a file is the id of its route.             *)
(***************************************************************************)
EXTENDS Naturals, FiniteSets

CONSTANTS
    Processes,     \* the command-line processes (and the daemon's shell)
    Names,         \* what an operator calls a route
    MaxRoutes,     \* bound: rows ever inserted
    MaxFailures,   \* bound: failed queries, fopens and reloads
    MaxCrashes     \* bound: processes stopped in the middle of a command

ASSUME BoundsAssumption == /\ MaxRoutes \in Nat
                           /\ MaxFailures \in Nat
                           /\ MaxCrashes \in Nat

Ids == 1..MaxRoutes

VARIABLES
    routes,     \* the routes table: row id |-> name
    next,       \* the id the table gives to the next row
    files,      \* ids with a file in DIALPLAN_DIR
    cached,     \* ids with a file in CACHE_DIR
    loaded,     \* ids FreeSWITCH routes calls by since its last reloadxml
    missed,     \* history: its last reloadxml was not carried out
    pc,         \* per process: where its command is
    cmd,        \* per process: the command it runs
    name,       \* per process: the name given to "route add"
    at,         \* per process: the id at hand
    todo,       \* per process: ids of the result, or glob, not visited yet
    failures,   \* failures so far
    crashes,    \* processes stopped so far
    overtaken,  \* history: routes some other command wrote, or was to write,
                \* while they were being deleted
    doubtful    \* history: names whose look-up was not to be relied on

tables == <<routes, next>>
command == <<cmd, name>>
history == <<overtaken, doubtful>>
vars == <<routes, next, files, cached, loaded, missed, pc, cmd, name, at, todo,
          failures, crashes, overtaken, doubtful>>

Steps == {"idle", "check", "insert", "unlink", "uncache", "delrow", "query",
          "write", "cache", "reload", "again", "copy"}
Commands == {"none", "add", "delete", "reload", "restore"}

TypeOK == /\ next \in 1..(MaxRoutes + 1)
          /\ DOMAIN routes \subseteq 1..(next - 1)
          /\ routes \in [DOMAIN routes -> Names]
          /\ files \subseteq Ids /\ cached \subseteq Ids /\ loaded \subseteq Ids
          /\ missed \in BOOLEAN
          /\ pc \in [Processes -> Steps]
          /\ cmd \in [Processes -> Commands]
          /\ name \in [Processes -> Names]
          /\ at \in [Processes -> 0..MaxRoutes]
          /\ todo \in [Processes -> SUBSET Ids]
          /\ failures \in 0..MaxFailures /\ crashes \in 0..MaxCrashes
          /\ overtaken \subseteq Ids /\ doubtful \subseteq Names

Init == /\ routes = [i \in {} |-> CHOOSE n \in Names : TRUE]
        /\ next = 1
        /\ files = {} /\ cached = {} /\ loaded = {} /\ missed = FALSE
        /\ pc = [p \in Processes |-> "idle"]
        /\ cmd = [p \in Processes |-> "none"]
        /\ name \in [Processes -> Names]
        /\ at = [p \in Processes |-> 0]
        /\ todo = [p \in Processes |-> {}]
        /\ failures = 0 /\ crashes = 0
        /\ overtaken = {} /\ doubtful = {}

Goto(p, step) == pc' = [pc EXCEPT ![p] = step]

\* A query, or an fopen, that fails.
Fails == failures < MaxFailures /\ failures' = failures + 1

\* Process p, at its prompt, starts a command.
Start(p, command_, step) ==
    /\ pc[p] = "idle"
    /\ Goto(p, step)
    /\ cmd' = [cmd EXCEPT ![p] = command_]
    /\ UNCHANGED <<routes, next, loaded, missed, failures, crashes, history>>

-----------------------------------------------------------------------------
\* route add: the name is looked up, then the row is inserted.

AddRoute(p, n) == /\ next <= MaxRoutes
                  /\ Start(p, "add", "check")
                  /\ name' = [name EXCEPT ![p] = n]
                  /\ UNCHANGED <<files, cached, at, todo>>

\* A look-up by the uuid just generated, which no row has.
Known_ByUuid(n) == FALSE

Known(n) == \E i \in DOMAIN routes : routes[i] = n

\* Another process has looked the name up as well, and is about to insert it.
Awaited(n) == \E q \in Processes : pc[q] = "insert" /\ name[q] = n

\* The look-up says nothing for "no such row" and for "the query failed".
CheckName(p) ==
    /\ pc[p] = "check"
    /\ \/ /\ Known(name[p])
          /\ Goto(p, "idle")
          /\ UNCHANGED <<failures, doubtful>>
       \/ /\ ~Known(name[p])
          /\ Goto(p, "insert")
          /\ doubtful' = doubtful \cup {n \in {name[p]} : Awaited(n)}
          /\ UNCHANGED failures
       \/ Fails /\ Goto(p, "insert") /\ doubtful' = doubtful \cup {name[p]}
    /\ UNCHANGED <<routes, next, files, cached, loaded, missed, command, at,
                   todo, crashes, overtaken>>

\* An insert that gives an id out twice.
InsertRoute_SameId(p) ==
    /\ pc[p] = "insert"
    /\ routes' = [i \in DOMAIN routes \cup {next} |->
                    IF i = next THEN name[p] ELSE routes[i]]
    /\ Goto(p, "query")
    /\ UNCHANGED <<next, files, cached, loaded, missed, command, at, todo,
                   failures, crashes, history>>

InsertRoute(p) ==
    /\ pc[p] = "insert"
    /\ \/ /\ next <= MaxRoutes
          /\ routes' = [i \in DOMAIN routes \cup {next} |->
                          IF i = next THEN name[p] ELSE routes[i]]
          /\ next' = next + 1
          /\ Goto(p, "query")
          /\ UNCHANGED failures
       \/ Fails /\ Goto(p, "idle") /\ UNCHANGED tables
    /\ UNCHANGED <<files, cached, loaded, missed, command, at, todo, crashes,
                   history>>

-----------------------------------------------------------------------------
\* route delete: the file, its cached copy, then the row.

DeleteRoute(p, i) == /\ i \in DOMAIN routes
                     /\ Start(p, "delete", "unlink")
                     /\ at' = [at EXCEPT ![p] = i]
                     /\ UNCHANGED <<files, cached, name, todo>>

UnlinkFile(p) == /\ pc[p] = "unlink"
                 /\ files' = files \ {at[p]}
                 /\ Goto(p, "uncache")
                 /\ UNCHANGED <<tables, cached, loaded, missed, command, at,
                                todo, failures, crashes, history>>

\* A removal that forgets the cached copy.
UnlinkCached_Skipped(p) ==
    /\ pc[p] = "uncache"
    /\ Goto(p, "delrow")
    /\ UNCHANGED <<tables, files, cached, loaded, missed, command, at, todo,
                   failures, crashes, history>>

UnlinkCached(p) == /\ pc[p] = "uncache"
                   /\ cached' = cached \ {at[p]}
                   /\ Goto(p, "delrow")
                   /\ UNCHANGED <<tables, files, loaded, missed, command, at,
                                  todo, failures, crashes, history>>

\* A generator that has read the row and has yet to write its file.
WillWrite(i) == \E q \in Processes :
                   pc[q] \in {"write", "cache"} /\ i \in todo[q]

\* The result of the DELETE is not looked at.
DeleteRow(p) ==
    /\ pc[p] = "delrow"
    /\ \/ /\ routes' = [i \in DOMAIN routes \ {at[p]} |-> routes[i]]
          /\ overtaken' = overtaken \cup {i \in {at[p]} : WillWrite(i)}
          /\ UNCHANGED failures
       \/ Fails /\ UNCHANGED <<routes, overtaken>>
    /\ Goto(p, "query")
    /\ UNCHANGED <<next, files, cached, loaded, missed, command, at, todo,
                   crashes, doubtful>>

-----------------------------------------------------------------------------
\* route reload, which may clear the cache first, and the generator that
\* add, delete and reload share.

ReloadRoutes(p, clear) == /\ Start(p, "reload", "query")
                          /\ cached' = IF clear THEN {} ELSE cached
                          /\ UNCHANGED <<files, name, at, todo>>

\* A generator that returns for a table without rows and then also skips the
\* reload of a delete.
AfterNoRows_Ends(p) == "idle"

\* No result, because the query failed or because there is no row, ends the
\* generator with an error: add and reload stop, delete does not look at it.
AfterNoRows(p) == IF cmd[p] = "delete" THEN "again" ELSE "idle"

QueryRoutes(p) ==
    /\ pc[p] = "query"
    /\ \/ /\ DOMAIN routes # {}
          /\ todo' = [todo EXCEPT ![p] = DOMAIN routes]
          /\ Goto(p, "write")
          /\ UNCHANGED failures
       \/ /\ DOMAIN routes = {}
          /\ Goto(p, AfterNoRows(p))
          /\ UNCHANGED <<todo, failures>>
       \/ Fails /\ Goto(p, AfterNoRows(p)) /\ UNCHANGED todo
    /\ UNCHANGED <<tables, files, cached, loaded, missed, command, at, crashes,
                   history>>

\* The file of the route is gone already and its row is about to go.
BeingDeleted(i) == \E p \in Processes : pc[p] \in {"uncache", "delrow"} /\ at[p] = i

\* One row of the result: its file is written, or cannot be opened and the row
\* is passed over.
WriteFile(p, i) ==
    /\ pc[p] = "write"
    /\ i \in todo[p]
    /\ todo' = [todo EXCEPT ![p] = @ \ {i}]
    /\ \/ /\ files' = files \cup {i}
          /\ overtaken' = overtaken \cup {j \in {i} : BeingDeleted(j)}
          /\ at' = [at EXCEPT ![p] = i]
          /\ Goto(p, "cache")
          /\ UNCHANGED failures
       \/ Fails /\ UNCHANGED <<files, overtaken, at, pc>>
    /\ UNCHANGED <<tables, cached, loaded, missed, command, crashes, doubtful>>

\* The file is read back to be cached, if it is still there.
CacheFile(p) ==
    /\ pc[p] = "cache"
    /\ cached' = IF at[p] \in files THEN cached \cup {at[p]} ELSE cached
    /\ Goto(p, "write")
    /\ UNCHANGED <<tables, files, loaded, missed, command, at, todo, failures,
                   crashes, history>>

\* A generator that leaves out the rows after the first.
EndWrite_Early(p) ==
    /\ pc[p] = "write"
    /\ Goto(p, "reload")
    /\ UNCHANGED <<tables, files, cached, loaded, missed, command, at, todo,
                   failures, crashes, history>>

EndWrite(p) == /\ pc[p] = "write"
               /\ todo[p] = {}
               /\ Goto(p, "reload")
               /\ UNCHANGED <<tables, files, cached, loaded, missed, command,
                              at, todo, failures, crashes, history>>

\* reloadxml: by the generator when it is done, and again by its caller.  The
\* status of fs_cli is not looked at.
ReloadXml(p) ==
    /\ pc[p] \in {"reload", "again"}
    /\ \/ loaded' = files /\ missed' = FALSE /\ UNCHANGED failures
       \/ Fails /\ missed' = TRUE /\ UNCHANGED loaded
    /\ Goto(p, IF pc[p] = "reload" THEN "again" ELSE "idle")
    /\ UNCHANGED <<tables, files, cached, command, at, todo, crashes, history>>

-----------------------------------------------------------------------------
\* route cache restore and route cache clear.

RestoreCache(p) == /\ Start(p, "restore", "copy")
                   /\ todo' = [todo EXCEPT ![p] = cached]
                   /\ UNCHANGED <<files, cached, name, at>>

\* cp takes the files the shell listed; one that has gone is an error it
\* reports to nobody.
CopyFile(p, i) ==
    /\ pc[p] = "copy"
    /\ i \in todo[p]
    /\ todo' = [todo EXCEPT ![p] = @ \ {i}]
    /\ files' = files \cup ({i} \cap cached)
    /\ overtaken' = overtaken \cup {j \in {i} \cap cached : BeingDeleted(j)}
    /\ UNCHANGED <<tables, cached, loaded, missed, pc, command, at, failures,
                   crashes, doubtful>>

EndCopy(p) == /\ pc[p] = "copy"
              /\ todo[p] = {}
              /\ Goto(p, "again")
              /\ UNCHANGED <<tables, files, cached, loaded, missed, command, at,
                             todo, failures, crashes, history>>

ClearCache(p) == /\ pc[p] = "idle"
                 /\ cached' = {}
                 /\ UNCHANGED <<tables, files, loaded, missed, pc, command, at,
                                todo, failures, crashes, history>>

\* The process is stopped; what it has written stays.
Crash(p) == /\ pc[p] # "idle"
            /\ crashes < MaxCrashes
            /\ crashes' = crashes + 1
            /\ Goto(p, "idle")
            /\ UNCHANGED <<tables, files, cached, loaded, missed, command, at,
                           todo, failures, history>>

Next == \E p \in Processes :
           \/ \E n \in Names : AddRoute(p, n)
           \/ CheckName(p) \/ InsertRoute(p)
           \/ \E i \in Ids : DeleteRoute(p, i)
           \/ UnlinkFile(p) \/ UnlinkCached(p) \/ DeleteRow(p)
           \/ \E clear \in BOOLEAN : ReloadRoutes(p, clear)
           \/ QueryRoutes(p)
           \/ \E i \in Ids : WriteFile(p, i)
           \/ CacheFile(p) \/ EndWrite(p) \/ ReloadXml(p)
           \/ RestoreCache(p)
           \/ \E i \in Ids : CopyFile(p, i)
           \/ EndCopy(p) \/ ClearCache(p) \/ Crash(p)

Spec == Init /\ [][Next]_vars

-----------------------------------------------------------------------------
Quiet == \A p \in Processes : pc[p] = "idle"

\* Every dialplan file and every cached copy belongs to a route of the table,
\* wherever a command has failed or was stopped, unless while the route was being
\* deleted the generator or the restore of another process wrote its file, or a
\* generator had read its row and not written yet: only so can a deleted route
\* come back, and no later command removes it then.
FilesHaveRoutes == files \cup cached \subseteq DOMAIN routes \cup overtaken

\* When no command is running and nothing has failed, every route of the table
\* has its file, however the commands that led here were interleaved: whoever
\* takes a file away also takes the row away, and whoever adds a row reads the
\* table afterwards.
RoutesHaveFiles ==
    Quiet /\ failures = 0 /\ crashes = 0 => DOMAIN routes \subseteq files

\* When no command is running, and none was stopped half-way, FreeSWITCH routes
\* calls by the files of the directory as they are now, failed queries, failed
\* reloads and overlapping commands included: a command that changed a file
\* reloads after the change, and a reload that fails is made up for by the next
\* one, of whatever command.  Only the last of all may not fail.
LoadedIsFiles == Quiet /\ crashes = 0 /\ ~missed => loaded = files

\* Two routes have the same name only if one "route add" looked the name up when
\* another had done so and not yet inserted it, or if a look-up failed: the table
\* does not forbid it, and the command checks first and inserts later.
NamesUnique ==
    \A i, j \in DOMAIN routes :
        routes[i] = routes[j] => i = j \/ routes[i] \in doubtful

=============================================================================

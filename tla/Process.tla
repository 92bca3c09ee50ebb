----------------------------- MODULE Process -----------------------------
(***************************************************************************)
(* The life of one router process, src/main.c: it connects, starts the     *)
(* call validator and a thread that cleans up after it, and then is        *)
(*   "command"  a command line: one command, clean up, exit;               *)
(*   "shell"    commands read from the terminal until it closes;           *)
(*   "daemon"   the SIP and HTTP servers, until a signal.                  *)
(* All threads send their statements over the one connection of module     *)
(* Connection.  The command that leaves it in another state between two    *)
(* statements is modelled whole, cmd_did_import_csv of                     *)
(* src/commands/did_cmd.c: a transaction over one INSERT per line.         *)
(*                                                                         *)
(* Abstractions.  The threads' own work is CallValidator and SipServer;    *)
(* here a pass is what it touches and sends, and whether it comes back:    *)
(* with a record to watch the validator may block on its own mutex, and    *)
(* the SIP server's monitor, when its reloads fail, on its own.  Other     *)
(* commands than the import and "validation test" open no transaction and  *)
(* no record, and are one step without effect.  Memory is never short.     *)
(* What a freed object or a thread that was never created does to the      *)
(* process is left open: it ends, or nothing happens.                      *)
(***************************************************************************)
EXTENDS Connection

CONSTANTS
  Modes,       \* how the process may be called
  Lines,       \* valid numbers of the file to import
  Event,       \* the row a hang-up of the validator writes
  MaxCommands  \* bound: lines entered in the shell

ASSUME ProcessAssumption ==
  /\ Modes \subseteq {"command", "shell", "daemon"}
  /\ Event \notin Lines /\ Rows = Lines \cup {Event} /\ Old \subseteq Lines
  /\ MaxCommands \in Nat

VARIABLES
  mode, main,         \* how it was called, where main() is
  running, cli,       \* the flags the signal handler clears
  vrun, srun,         \* validator->running, server->running
  val, mon, lis, smn, \* the validator's, main's and the SIP server's threads
  deletes,            \* statements the cleanup has left to send
  early,              \* the clean-up that does not join main's thread
  freed,              \* objects that were destroyed
  watched,            \* the validator has a record to watch
  entered,            \* lines entered in the shell
  todo,               \* lines of the file that are left
  told, logged,       \* rows whose INSERT was answered with success
  before              \* the table when the import began

flags   == <<mode, running, cli, vrun, srun, early, freed, entered>>
threads == <<val, mon, lis, smn, deletes, watched>>
import  == <<todo, told, before>>
vars    == <<main, flags, threads, import, logged, dbvars>>

-----------------------------------------------------------------------------

Importing == {"begin", "insert", "commit"}
Killing   == {"hangup", "kill", "mark"}
Ended     == {"ended", "crashed"}
Pc == {"connect", "create", "start", "watch", "setup", "serve", "open", "loop",
       "prompt", "select", "test", "join", "stop", "await", "free", "sipstop",
       "sipjoin", "sipfree", "close", "exit"} \cup Importing \cup Ended

FlagsTypeOK ==
  /\ running \in BOOLEAN /\ vrun \in BOOLEAN /\ srun \in BOOLEAN
  /\ early \in BOOLEAN /\ watched \in BOOLEAN /\ logged \in BOOLEAN

TypeOK ==
  /\ ConnectionTypeOK
  /\ mode \in Modes /\ main \in Pc
  /\ FlagsTypeOK
  /\ cli \in {"none", "on", "off", "freed"}
  /\ val \in {"none", "check", "pass", "hangup", "kill", "mark", "sleep", "stuck", "done"}
  /\ mon \in {"none", "check", "lock", "delete", "sleep", "done"}
  /\ lis \in {"none", "run", "stuck", "done"}
  /\ smn \in {"none", "check", "reload", "sleep", "stuck", "done"}
  /\ deletes \in 0 .. 3 /\ (mon = "delete" => deletes # 0)
  /\ entered \in 0 .. MaxCommands
  /\ freed \subseteq {"validator", "sip", "db"}
  /\ todo \subseteq Lines /\ told \subseteq Lines /\ before \subseteq Rows
  /\ main \notin Importing \cup Ended => tx = "none"

-----------------------------------------------------------------------------
(* Slips one could make in the helpers below, each with the helper's name  *)
(* first.  No specification uses them: put in place of the helper, each    *)
(* breaks one of the properties at the end of this module.                 *)

Over_Unjoined(thread) == thread # "stuck"
Counted_Always(d, ok) == told' = told \cup {d}
AfterLines_Return == IF mode = "command" THEN "stop" ELSE "loop"
Stopped_Again == TRUE

-----------------------------------------------------------------------------
(* Helpers *)

(* where a command of the command line, or of the shell, comes back to *)
Back == IF mode = "command" THEN "stop" ELSE "loop"

(* pthread_join returns *)
Over(thread) == thread = "done"

Stopped == FALSE

(* "imported" goes by what db_execute returned *)
Counted(d, ok) == told' = IF ok THEN told \cup {d} ELSE told

AfterLines == "commit"

Alive == main \notin Ended

(* the objects a thread reads or writes in the step it is at *)
Touches(thread) ==
  CASE thread = "validator" /\ val \in {"check", "pass"} \cup Killing -> {"validator", "db"}
    [] thread = "monitor" /\ mon = "lock" -> {"validator"}
    [] thread = "monitor" /\ mon = "delete" -> {"validator", "db"}
    [] thread = "listen" /\ lis = "run" -> {"sip", "db"}
    [] thread = "reload" /\ smn \in {"check", "reload"} -> {"sip", "db"}
    [] OTHER -> {}

Sound(thread) == Touches(thread) \cap freed = {}

(* the process is gone with its threads, its memory and its session *)
Dies(how) ==
  /\ main' = how /\ EndSession("closed")
  /\ running' = FALSE /\ cli' = "none" /\ vrun' = FALSE /\ srun' = FALSE
  /\ val' = "none" /\ mon' = "none" /\ lis' = "none" /\ smn' = "none"
  /\ deletes' = 0 /\ watched' = FALSE /\ freed' = {} /\ todo' = {}
  /\ UNCHANGED <<server, cuts, errors, mode, early, entered, told, before, logged>>

-----------------------------------------------------------------------------

Init ==
  /\ ConnectionInit
  /\ mode \in Modes /\ main = "connect"
  /\ running = TRUE /\ cli = "none" /\ vrun = FALSE /\ srun = FALSE
  /\ val = "none" /\ mon = "none" /\ lis = "none" /\ smn = "none" /\ deletes = 0
  /\ early = FALSE /\ freed = {} /\ watched = FALSE /\ entered = 0
  /\ todo = {} /\ told = {} /\ before = {} /\ logged = FALSE

-----------------------------------------------------------------------------
(* main(): the start.  pthread_create may fail at each of its calls. *)

ConnectDatabase ==
  /\ main = "connect"
  /\ Connect /\ main' = "create"
  /\ UNCHANGED <<flags, threads, import, logged>>

NoDatabase ==
  /\ main = "connect" /\ ~server
  /\ Dies("ended")

(* call_validator_create: tables and rules; nobody looks at the answers *)
CreateValidator ==
  /\ main = "create" /\ main' = "start"
  /\ \E ok \in BOOLEAN : Statement({}, ok)
  /\ UNCHANGED <<flags, threads, import, logged>>

StartValidator ==
  /\ main = "start"
  /\ \/ val' = "check" /\ vrun' = TRUE /\ main' = "watch" /\ UNCHANGED early
     \/ early' = TRUE /\ main' = "free" /\ UNCHANGED <<val, vrun>>
  /\ UNCHANGED <<mode, running, cli, srun, freed, entered, mon, lis, smn, deletes,
                 watched, import, logged, dbvars>>

(* the thread is created before the program looks at its arguments *)
StartMonitor ==
  /\ main = "watch"
  /\ mon' \in {"check", "none"}
  /\ IF mode = "command"
     THEN main' \in {"select", "test", "stop", "exit"}
     ELSE main' = "setup"
  /\ early' = (mode = "command")
  /\ UNCHANGED <<mode, running, cli, vrun, srun, freed, entered, val, lis, smn,
                 deletes, watched, import, logged, dbvars>>

(* FreeSWITCH must run and its directories be writable; what the           *)
(* synchronization with the tables returns ends nothing.                   *)
SetUp ==
  /\ main = "setup"
  /\ \/ main' = "stop" /\ early' = TRUE /\ UNCHANGED <<cli, dbvars>>
     \/ /\ \E ok \in BOOLEAN : Statement({}, ok)
        /\ UNCHANGED early
        /\ \/ mode = "daemon" /\ main' = "open" /\ UNCHANGED cli
           \/ mode = "shell" /\ main' = "loop" /\ cli' = "on"
  /\ UNCHANGED <<mode, running, vrun, srun, freed, entered, threads, import, logged>>

(* sip_server_create fails when the port is taken; the daemon goes on.     *)
(* Otherwise it loads its lists.                                           *)
StartServers ==
  /\ main = "open" /\ main' = "serve"
  /\ \/ UNCHANGED <<srun, lis, smn, dbvars>>
     \/ /\ srun' = TRUE
        /\ lis' \in {"run", "none"}
        /\ smn' \in IF lis' = "run" THEN {"check", "none"} ELSE {"none"}
        /\ \E ok \in BOOLEAN : Statement({}, ok)
  /\ UNCHANGED <<mode, running, cli, vrun, early, freed, entered, val, mon, deletes,
                 watched, import, logged>>

Serve ==
  /\ main = "serve" /\ ~running
  /\ main' = "join"
  /\ UNCHANGED <<flags, threads, import, logged, dbvars>>

(* A signal clears the flags.  The shell looks at its own when the line it *)
(* waits for has come; the flag of a shell that has ended is freed memory. *)
Signal ==
  /\ Alive /\ (running \/ cli = "on")
  /\ running' = FALSE
  /\ cli' = IF cli = "on" THEN "off" ELSE cli
  /\ UNCHANGED <<main, mode, vrun, srun, early, freed, entered, threads, import,
                 logged, dbvars>>

SignalAfterShell == Alive /\ cli = "freed" /\ Dies("crashed")

-----------------------------------------------------------------------------
(* The shell, cli_run *)

CheckFlag ==
  /\ main = "loop"
  /\ IF cli = "on" THEN main' = "prompt" /\ UNCHANGED <<running, cli>>
     ELSE main' = "join" /\ running' = FALSE /\ cli' = "freed"
  /\ UNCHANGED <<mode, vrun, srun, early, freed, entered, threads, import,
                 logged, dbvars>>

ReadLine ==
  /\ main = "prompt" /\ entered < MaxCommands
  /\ entered' = entered + 1
  /\ main' \in {"select", "test"}
  /\ UNCHANGED <<mode, running, cli, vrun, srun, early, freed, threads, import, logged,
                 dbvars>>

EndOfFile ==
  /\ main = "prompt"
  /\ main' = "join" /\ running' = FALSE /\ cli' = "freed"
  /\ UNCHANGED <<mode, vrun, srun, early, freed, entered, threads, import,
                 logged, dbvars>>

(* the command "exit" calls exit(0) *)
Exit == main = "prompt" /\ Dies("ended")

(* "validation test" opens a record; it takes validation_mutex *)
TestCall ==
  /\ main = "test" /\ val \notin Killing \cup {"stuck"}
  /\ watched' = TRUE /\ main' = Back
  /\ \E ok \in BOOLEAN : Statement({}, ok)
  /\ UNCHANGED <<flags, val, mon, lis, smn, deletes, import, logged>>

-----------------------------------------------------------------------------
(* cmd_did_import_csv *)

(* the provider is not found, also when the query failed; or no file *)
SelectProvider ==
  /\ main = "select"
  /\ \E ok \in BOOLEAN :
       /\ Statement({}, ok)
       /\ main' \in IF ok THEN {"begin", Back} ELSE {Back}
  /\ UNCHANGED <<flags, threads, import, logged>>

BeginImport ==
  /\ main = "begin" /\ main' = "insert"
  /\ Begin
  /\ todo' = Lines /\ told' = {} /\ before' = table
  /\ UNCHANGED <<flags, threads, logged>>

(* ON CONFLICT DO NOTHING: a number the table has is answered like a new   *)
(* one.  Another process may have deleted the provider.                    *)
InsertLine(d) ==
  /\ main = "insert" /\ d \in todo
  /\ todo' = todo \ {d}
  /\ \E ok \in BOOLEAN : Statement({d}, ok) /\ Counted(d, ok)
  /\ UNCHANGED <<main, flags, threads, before, logged>>

EndOfLines ==
  /\ main = "insert" /\ todo = {}
  /\ main' = AfterLines
  /\ UNCHANGED <<flags, threads, import, logged, dbvars>>

CommitImport ==
  /\ main = "commit" /\ main' = Back
  /\ Commit
  /\ UNCHANGED <<flags, threads, import, logged>>

-----------------------------------------------------------------------------
(* main(): the end *)

(* Once running is cleared, main's thread is joined; after a failed        *)
(* pthread_create there is none, and the variable holds anything.          *)
JoinMonitor ==
  /\ main = "join" /\ (mon = "none" \/ Over(mon))
  /\ main' = "stop"
  /\ UNCHANGED <<flags, threads, import, logged, dbvars>>

JoinNothing ==
  /\ \/ main = "join" /\ mon = "none"
     \/ main = "sipjoin" /\ "none" \in {lis, smn}
     \/ main = "sipfree"
  /\ Dies("crashed")

(* call_validator_stop *)
StopValidator ==
  /\ main = "stop"
  /\ vrun' = Stopped /\ main' = "await"
  /\ UNCHANGED <<mode, running, cli, srun, early, freed, entered, threads, import,
                 logged, dbvars>>

JoinValidator ==
  /\ main = "await" /\ Over(val)
  /\ main' = "free"
  /\ UNCHANGED <<flags, threads, import, logged, dbvars>>

(* call_validator_destroy, which has nothing left to stop *)
DestroyValidator ==
  /\ main = "free"
  /\ freed' = freed \cup {"validator"}
  /\ main' = IF early \/ (lis = "none" /\ ~srun) THEN "close" ELSE "sipstop"
  /\ UNCHANGED <<mode, running, cli, vrun, srun, early, entered, threads, import,
                 logged, dbvars>>

(* sip_server_stop: both threads are joined, also when there are none *)
StopSipServer ==
  /\ main = "sipstop"
  /\ srun' = Stopped /\ main' = "sipjoin"
  /\ UNCHANGED <<mode, running, cli, vrun, early, freed, entered, threads, import,
                 logged, dbvars>>

JoinSipThreads ==
  /\ main = "sipjoin"
  /\ lis = "none" \/ Over(lis)
  /\ smn = "none" \/ Over(smn)
  /\ main' = "sipfree"
  /\ UNCHANGED <<flags, threads, import, logged, dbvars>>

(* sip_server_destroy stops it again: it joins what was joined *)
DestroySipServer ==
  /\ main = "sipfree" /\ main' = "close"
  /\ freed' = freed \cup {"sip"}
  /\ UNCHANGED <<mode, running, cli, vrun, srun, early, entered, threads, import,
                 logged, dbvars>>

CloseDatabase ==
  /\ main = "close" /\ main' = "exit"
  /\ freed' = freed \cup {"db"}
  /\ Close
  /\ UNCHANGED <<mode, running, cli, vrun, srun, early, entered, threads, import, logged>>

Return == main = "exit" /\ Dies("ended")

-----------------------------------------------------------------------------
(* The validator's thread, validation_thread_func *)

CheckValidator ==
  /\ Alive /\ val = "check" /\ Sound("validator")
  /\ val' = IF vrun THEN "pass" ELSE "done"
  /\ UNCHANGED <<main, flags, mon, lis, smn, deletes, watched, import, logged, dbvars>>

(* The state of a watched call is asked for by columns active_calls does   *)
(* not have.  A record is kept, removed, or found timed out or mismatched. *)
Validate ==
  /\ Alive /\ val = "pass" /\ Sound("validator")
  /\ \/ ~watched /\ val' = "sleep" /\ UNCHANGED <<watched, dbvars>>
     \/ watched /\ val' = "sleep" /\ watched' \in BOOLEAN /\ Misfit
     \/ watched /\ val' = "hangup" /\ UNCHANGED <<watched, dbvars>>
  /\ UNCHANGED <<main, flags, mon, lis, smn, deletes, import, logged>>

(* with validation_mutex held: log_security_event, *)
HangUp ==
  /\ Alive /\ val = "hangup" /\ Sound("validator")
  /\ val' = "kill"
  /\ \E ok \in BOOLEAN : Statement({Event}, ok) /\ logged' = ok
  /\ UNCHANGED <<main, flags, mon, lis, smn, deletes, watched, import>>

(* then force_hangup_invalid_call: it updates a column call_records does   *)
(* not have, *)
UpdateRecord ==
  /\ Alive /\ val = "kill" /\ Sound("validator")
  /\ val' = "mark" /\ Misfit
  /\ UNCHANGED <<main, flags, mon, lis, smn, deletes, watched, import, logged>>

(* marks the validation, and waits for the mutex *)
MarkFailed ==
  /\ Alive /\ val = "mark" /\ Sound("validator")
  /\ val' = "stuck"
  /\ \E ok \in BOOLEAN : Statement({}, ok)
  /\ UNCHANGED <<main, flags, mon, lis, smn, deletes, watched, import, logged>>

WakeValidator ==
  /\ Alive /\ val = "sleep" /\ val' = "check"
  /\ UNCHANGED <<main, flags, mon, lis, smn, deletes, watched, import, logged, dbvars>>

-----------------------------------------------------------------------------
(* main's thread, validation_monitor_thread *)

CheckRunning ==
  /\ Alive /\ mon = "check"
  /\ mon' = IF running THEN "lock" ELSE "done"
  /\ UNCHANGED <<main, flags, val, lis, smn, deletes, watched, import, logged, dbvars>>

(* cleanup_expired_validations: the list under validation_mutex, *)
CleanList ==
  /\ Alive /\ mon = "lock" /\ Sound("monitor") /\ val \notin Killing \cup {"stuck"}
  /\ mon' = "delete" /\ deletes' = 3
  /\ UNCHANGED <<main, flags, val, lis, smn, watched, import, logged, dbvars>>

(* then three DELETEs *)
CleanTables ==
  /\ Alive /\ mon = "delete" /\ Sound("monitor")
  /\ \E ok \in BOOLEAN : Statement({}, ok)
  /\ deletes' = deletes - 1
  /\ mon' = IF deletes' = 0 THEN "sleep" ELSE "delete"
  /\ UNCHANGED <<main, flags, val, lis, smn, watched, import, logged>>

(* sleep(300) *)
WakeMonitor ==
  /\ Alive /\ mon = "sleep" /\ mon' = "check"
  /\ UNCHANGED <<main, flags, val, lis, smn, deletes, watched, import, logged, dbvars>>

(* freed memory is used: the process dies, or the thread does no harm *)
UseFreed ==
  /\ Alive /\ ~Sound("monitor")
  /\ \/ Dies("crashed")
     \/ /\ mon' = "sleep"
        /\ UNCHANGED <<main, flags, val, lis, smn, deletes, watched, import, logged, dbvars>>

-----------------------------------------------------------------------------
(* The SIP server's threads, sip_listen_thread and monitor_thread *)

Listen ==
  /\ Alive /\ lis = "run" /\ Sound("listen")
  /\ lis' = IF ~srun THEN "done" ELSE IF smn = "stuck" THEN "stuck" ELSE "run"
  /\ lis' # lis
  /\ UNCHANGED <<main, flags, val, mon, smn, deletes, watched, import, logged, dbvars>>

CheckReload ==
  /\ Alive /\ smn = "check" /\ Sound("reload")
  /\ smn' = IF srun THEN "reload" ELSE "done"
  /\ UNCHANGED <<main, flags, val, mon, lis, deletes, watched, import, logged, dbvars>>

(* A reload that fails leaves DIDs that become stale *)
Reload ==
  /\ Alive /\ smn = "reload" /\ Sound("reload")
  /\ \E ok \in BOOLEAN :
       /\ Statement({}, ok)
       /\ smn' \in IF ok THEN {"sleep"} ELSE {"sleep", "stuck"}
  /\ UNCHANGED <<main, flags, val, mon, lis, deletes, watched, import, logged>>

WakeReload ==
  /\ Alive /\ smn = "sleep" /\ smn' = "check"
  /\ UNCHANGED <<main, flags, val, mon, lis, deletes, watched, import, logged, dbvars>>

-----------------------------------------------------------------------------

Outage ==
  /\ Alive /\ (Cut \/ ServerStarts)
  /\ UNCHANGED <<main, flags, threads, import, logged>>

Crash == Alive /\ main # "connect" /\ Dies("crashed")

Start ==
  \/ ConnectDatabase \/ NoDatabase \/ CreateValidator \/ StartValidator
  \/ StartMonitor \/ SetUp \/ StartServers

Import ==
  \/ SelectProvider \/ BeginImport \/ EndOfLines \/ CommitImport
  \/ \E d \in todo : InsertLine(d)

Shutdown ==
  \/ JoinMonitor \/ JoinNothing \/ StopValidator \/ JoinValidator
  \/ DestroyValidator \/ StopSipServer \/ JoinSipThreads \/ DestroySipServer
  \/ CloseDatabase \/ Return

Main == Start \/ Serve \/ CheckFlag \/ TestCall \/ Import \/ Shutdown
User == ReadLine \/ EndOfFile \/ Exit \/ Signal \/ SignalAfterShell

Validator ==
  \/ CheckValidator \/ Validate \/ HangUp \/ UpdateRecord \/ MarkFailed
  \/ WakeValidator
Monitor   == CheckRunning \/ CleanList \/ CleanTables \/ WakeMonitor \/ UseFreed
SipReload == CheckReload \/ Reload \/ WakeReload

Next == Main \/ User \/ Validator \/ Monitor \/ Listen \/ SipReload \/ Outage \/ Crash

Spec == Init /\ [][Next]_vars

(* Every thread is scheduled; the user and the network owe nothing. *)
FairSpec ==
  /\ Spec
  /\ WF_vars(Main) /\ WF_vars(Validator) /\ WF_vars(Monitor)
  /\ WF_vars(Listen) /\ WF_vars(SipReload)

-----------------------------------------------------------------------------
(* Properties *)

(* No thread uses the validator, the SIP server or the connection after    *)
(* main() destroyed it: each is joined first.  The exception is main's     *)
(* thread in the clean-ups that do not join it, those of the command line  *)
(* and of a failed start.                                                  *)
UsesLive ==
  Alive =>
    /\ \A t \in {"validator", "listen", "reload"} : Sound(t)
    /\ early \/ Sound("monitor")

(* A number "did import" counted as imported, and an event the validator   *)
(* was told is logged, is in the table once no import is under way, unless *)
(* a transaction was undone by a lost connection or a refused statement,   *)
(* of whatever thread.  Refused statements alone never tear an import: it  *)
(* is in the table whole or not at all.                                    *)
ImportKept ==
  main \notin Importing =>
    /\ undone = {} => told \cup (IF logged THEN {Event} ELSE {}) \subseteq table
    /\ "cut" \notin undone =>
         told \subseteq table \/ told \cap table \subseteq before

(* A daemon that got its signal, and a shell that was left, end, unless    *)
(* the validator or the SIP server's monitor waits for its own mutex.      *)
ShutdownEnds ==
  main = "join" \/ (main = "serve" /\ ~running)
    ~> main \in Ended \/ val = "stuck" \/ smn = "stuck"

=============================================================================

--------------------------- MODULE CallValidator ---------------------------
(***************************************************************************)
(* The call validation system of src/validation/call_validator.c: a list   *)
(* of records, one per validated call, a thread that goes over the list    *)
(* every five seconds, a second thread that drops old records, and the     *)
(* command "validation test", the only code that opens records.            *)
(*                                                                         *)
(* The validation thread holds validation_mutex for a whole pass.  The     *)
(* command finds a record under the mutex, releases it, and goes on using  *)
(* the pointer: it reads the state without the mutex and takes the mutex   *)
(* again to write.                                                         *)
(*                                                                         *)
(* Abstractions.  The list is the set of its records, numbered as they     *)
(* were prepended.  Time is counted in sleeps of the validation thread     *)
(* (5 s); one may last longer.  Events and checkpoints, which nobody reads *)
(* back, are left out.  What a destination reports comes from columns of   *)
(* active_calls, and a live call from a column of calls, that no schema of *)
(* the repository has: Reports and LiveCalls say what they would give.     *)
(* The command passes one address twice to validate_call_routing, so no    *)
(* call is "diverted".                                                     *)
(***************************************************************************)
EXTENDS Naturals, Sequences

CONSTANTS
  AttemptLimit,   \* a mismatch counts after more passes than this (3)
  RingLimit,      \* 30 s, in sleeps
  KeepLimit,      \* 60 s, in sleeps
  ExpireLimit,    \* 3600 s, in sleeps
  Reports,        \* what active_calls may say of a call
  LiveCalls,      \* the table calls can be read by call_id
  MaxSleep,       \* bound: how much longer a sleep may last
  MaxTests,       \* bound: "validation test" commands
  MaxFailures     \* bound: queries that fail

ASSUME CallValidatorAssumption ==
  /\ AttemptLimit \in Nat /\ RingLimit \in Nat
  /\ KeepLimit \in Nat /\ ExpireLimit \in Nat
  /\ KeepLimit <= ExpireLimit
  /\ Reports \subseteq {"ringing", "answered"} /\ LiveCalls \in BOOLEAN
  /\ MaxSleep \in Nat \ {0} /\ MaxTests \in Nat /\ MaxFailures \in Nat

VARIABLES
  recs,       \* validator->active_validations
  row,        \* table call_validations: current_state of each call
  tpc,        \* where the validation thread is
  todo,       \* records it has still to visit in this pass
  flagged,    \* the record whose call it hung up, or 0
  cmd,        \* stages of the test that are left
  cpc,        \* where the command is in the first of them
  call,       \* the call it tests
  ptr,        \* the record its pointer names, or 0
  created, tests, failures

thread  == <<tpc, todo, flagged>>
command == <<cmd, cpc, call, ptr>>
vars    == <<recs, row, tpc, todo, flagged, cmd, cpc, call, ptr, created, tests,
             failures>>

-----------------------------------------------------------------------------

Live == 0         \* the latest row of calls; test calls are numbered from 1
CallIds == 0 .. MaxTests

State == {"ORIGINATED", "RINGING", "ANSWERED", "HUNG_UP", "FAILED"}
Record == [call : CallIds, state : State, expected : State, attempts : Nat,
           age : 0 .. ExpireLimit + 1, did : BOOLEAN]

(* cmd_validation_test: a made-up call, or the latest call of the table,   *)
(* which is checked for the DID it has in use, if it has one               *)
TestScript == <<"RINGING", "did", "route", "ANSWERED", "HUNG_UP", "delete">>
LiveScripts == {<< >>, <<"did">>}

RecordsTypeOK ==
  /\ DOMAIN recs \subseteq 1 .. created /\ recs \in [DOMAIN recs -> Record]
  /\ \A n \in DOMAIN recs : recs[n].attempts <= AttemptLimit + 1
  /\ DOMAIN row \subseteq CallIds /\ row \in [DOMAIN row -> State]

ThreadTypeOK ==
  /\ tpc \in {"sleep", "due", "visit", "stuck"}
  /\ todo \subseteq DOMAIN recs
  /\ flagged \in DOMAIN recs \cup {0}

CommandTypeOK ==
  /\ cpc \in {"idle", "push", "insert", "query", "find", "check", "write", "row"}
  /\ cpc = "idle" => cmd = << >>
  /\ call \in CallIds /\ ptr \in 0 .. created
  /\ created \in 0 .. MaxTests /\ tests \in 0 .. MaxTests
  /\ failures \in 0 .. MaxFailures

TypeOK == RecordsTypeOK /\ ThreadTypeOK /\ CommandTypeOK

-----------------------------------------------------------------------------
(* Slips one could make in the helpers below, each with the helper's name  *)
(* first.  No specification uses them: put in place of the helper, each    *)
(* breaks one of the properties at the end of this module.                 *)

Removable_Unfinished(r) == r.age > KeepLimit
NewRecord_Ringing(c) ==
  [call |-> c, state |-> "RINGING", expected |-> "RINGING", attempts |-> 0, age |-> 0,
   did |-> FALSE]
NewRecord_NoState(c) ==
  [call |-> c, state |-> "NONE", expected |-> "RINGING", attempts |-> 0, age |-> 0,
   did |-> FALSE]
Held_OnEmptyList == tpc \in {"visit", "stuck"} \/ DOMAIN recs = {}

-----------------------------------------------------------------------------
(* Helpers *)

Query(ok) ==
  /\ ok \/ failures < MaxFailures
  /\ failures' = IF ok THEN failures ELSE failures + 1

(* validation_mutex; every other holder releases it within one step *)
Held == tpc \in {"visit", "stuck"}

Newest(set) == CHOOSE n \in set : \A m \in set : m <= n

(* create_validation_record *)
NewRecord(c) ==
  [call |-> c, state |-> "ORIGINATED", expected |-> "RINGING", attempts |-> 0,
   age |-> 0, did |-> FALSE]

(* find_validation_record, from the head of the list *)
Find(c) ==
  LET found == {n \in DOMAIN recs : recs[n].call = c}
  IN IF found = {} THEN 0 ELSE Newest(found)

(* the transitions validate_call_progress accepts *)
Follows(old, new) ==
  \/ old = "ORIGINATED" /\ new = "RINGING"
  \/ old = "RINGING" /\ new \in {"ANSWERED", "HUNG_UP"}
  \/ old = "ANSWERED" /\ new = "HUNG_UP"

TimedOut(r) == r.state = "ORIGINATED" /\ r.age > RingLimit
Mismatch(r) == r.state # r.expected /\ r.attempts > AttemptLimit
Removable(r) == r.state \in {"HUNG_UP", "FAILED"} /\ r.age > KeepLimit

Without(gone) == [n \in DOMAIN recs \ gone |-> recs[n]]

(* the state the pointer reads; a freed record may hold anything *)
ReadState == IF ptr \in DOMAIN recs THEN {recs[ptr].state} ELSE State

-----------------------------------------------------------------------------

Init ==
  /\ recs = << >> /\ row = << >>
  /\ tpc = "sleep" /\ todo = {} /\ flagged = 0
  /\ cmd = << >> /\ cpc = "idle" /\ call = Live /\ ptr = 0
  /\ created = 0 /\ tests = 0 /\ failures = 0

-----------------------------------------------------------------------------
(* The validation thread *)

(* usleep, which may last longer: the machine is busy or suspended *)
Sleep ==
  /\ tpc = "sleep"
  /\ \E k \in 1 .. MaxSleep :
       recs' = [n \in DOMAIN recs |->
         [recs[n] EXCEPT !.age = IF @ + k > ExpireLimit THEN ExpireLimit + 1 ELSE @ + k]]
  /\ tpc' = "due"
  /\ UNCHANGED <<row, todo, flagged, command, created, tests, failures>>

BeginPass ==
  /\ tpc = "due"
  /\ tpc' = "visit" /\ todo' = DOMAIN recs
  /\ UNCHANGED <<recs, row, flagged, command, created, tests, failures>>

(* force_hangup_invalid_call marks the row and then waits, in              *)
(* find_validation_record, for the mutex its own thread holds.             *)
HangUp(n) ==
  /\ tpc = "visit" /\ n \in todo /\ \A m \in todo : m <= n
  /\ TimedOut(recs[n]) \/ Mismatch(recs[n])
  /\ flagged' = n
  /\ tpc' = "stuck"
  /\ \E ok \in BOOLEAN :
       /\ Query(ok)
       /\ row' = [c \in DOMAIN row |->
            IF ok /\ c = recs[n].call THEN "FAILED" ELSE row[c]]
  /\ UNCHANGED <<recs, todo, command, created, tests>>

(* The state the destination reports is taken over, one step at a time. *)
Reported(r, status) ==
  CASE status = "ringing" /\ r.state = "ORIGINATED" ->
         [r EXCEPT !.state = "RINGING", !.expected = "ANSWERED"]
    [] status = "answered" /\ r.state = "RINGING" ->
         [r EXCEPT !.state = "ANSWERED", !.expected = "HUNG_UP"]
    [] OTHER -> r

Visit(n) ==
  /\ tpc = "visit" /\ n \in todo /\ \A m \in todo : m <= n
  /\ ~TimedOut(recs[n]) /\ ~Mismatch(recs[n])
  /\ \E status \in Reports \cup {"none"} :
       LET r == Reported([recs[n] EXCEPT !.attempts =
                   IF @ > AttemptLimit THEN @ ELSE @ + 1], status)
       IN recs' = IF Removable(r) THEN Without({n}) ELSE [recs EXCEPT ![n] = r]
  /\ todo' = todo \ {n}
  /\ UNCHANGED <<row, tpc, flagged, command, created, tests, failures>>

EndPass ==
  /\ tpc = "visit" /\ todo = {}
  /\ tpc' = "sleep"
  /\ UNCHANGED <<recs, row, todo, flagged, command, created, tests, failures>>

(* cleanup_expired_validations, called by the second thread *)
Cleanup ==
  /\ ~Held
  /\ LET gone == {n \in DOMAIN recs : recs[n].state = "HUNG_UP" /\ recs[n].age > ExpireLimit}
     IN gone # {} /\ recs' = Without(gone)
  /\ UNCHANGED <<row, thread, command, created, tests, failures>>

-----------------------------------------------------------------------------
(* The command "validation test" *)

FirstStep(script) ==
  IF script = << >> THEN "idle"
  ELSE IF Head(script) \in {"did", "route"} THEN "query"
  ELSE IF Head(script) = "delete" THEN "row" ELSE "find"

NextStage ==
  /\ cmd' = Tail(cmd) /\ cpc' = FirstStep(Tail(cmd))
  /\ ptr' = 0

(* Without a DID that is not in use there is no made-up call, and an       *)
(* origin that is not authorized ends it: neither changes anything.        *)
StartTest ==
  /\ cpc = "idle" /\ tests < MaxTests
  /\ tests' = tests + 1
  /\ \/ call' = tests + 1 /\ cmd' = TestScript
     \/ LiveCalls /\ call' = Live /\ cmd' \in LiveScripts
  /\ cpc' = "push" /\ ptr' = 0
  /\ UNCHANGED <<recs, row, thread, created, failures>>

(* validate_call_initiation: the record, then its row; call_id is UNIQUE *)
PushRecord ==
  /\ cpc = "push" /\ ~Held
  /\ created' = created + 1
  /\ recs' = [n \in DOMAIN recs \cup {created'} |->
                IF n = created' THEN NewRecord(call) ELSE recs[n]]
  /\ cpc' = "insert"
  /\ UNCHANGED <<row, thread, cmd, call, ptr, tests, failures>>

InsertRow ==
  /\ cpc = "insert"
  /\ \E ok \in BOOLEAN :
       /\ Query(ok)
       /\ row' = [c \in DOMAIN row \cup (IF ok THEN {call} ELSE {}) |->
                    IF c \in DOMAIN row THEN row[c] ELSE "ORIGINATED"]
  /\ cpc' = FirstStep(cmd)
  /\ UNCHANGED <<recs, thread, cmd, call, ptr, created, tests>>

(* The DID is looked up (atoi reads "t" as 0, so in_use says no) or the    *)
(* address of a final provider; if that fails the stage is over.           *)
QueryStage ==
  /\ cpc = "query"
  /\ \E ok \in BOOLEAN :
       /\ Query(ok)
       /\ IF ok THEN cpc' = "find" /\ UNCHANGED <<cmd, ptr>> ELSE NextStage
  /\ UNCHANGED <<recs, row, thread, call, created, tests>>

FindRecord ==
  /\ cpc = "find" /\ ~Held
  /\ \/ /\ Find(call) = 0
        /\ NextStage
     \/ /\ Find(call) # 0
        /\ ptr' = Find(call)
        /\ cpc' = IF Head(cmd) \in State THEN "check" ELSE "write"
        /\ UNCHANGED cmd
  /\ UNCHANGED <<recs, row, thread, call, created, tests, failures>>

(* record->current_state is read without the mutex *)
CheckTransition ==
  /\ cpc = "check"
  /\ \E state \in ReadState :
       IF Follows(state, Head(cmd))
       THEN cpc' = "write" /\ UNCHANGED <<cmd, ptr>>
       ELSE NextStage
  /\ UNCHANGED <<recs, row, thread, call, created, tests, failures>>

WriteRecord ==
  /\ cpc = "write" /\ ~Held
  /\ recs' = [n \in DOMAIN recs |->
       IF n # ptr THEN recs[n]
       ELSE CASE Head(cmd) \in State -> [recs[n] EXCEPT !.state = Head(cmd), !.age = 0]
              [] Head(cmd) = "did" -> [recs[n] EXCEPT !.did = TRUE]
              [] OTHER -> recs[n]]
  /\ IF Head(cmd) \in State THEN cpc' = "row" /\ UNCHANGED <<cmd, ptr>> ELSE NextStage
  /\ UNCHANGED <<row, thread, call, created, tests, failures>>

(* UPDATE call_validations, or the DELETE that ends the test *)
WriteRow ==
  /\ cpc = "row"
  /\ \E ok \in BOOLEAN :
       /\ Query(ok)
       /\ row' = IF ~ok THEN row
                 ELSE IF Head(cmd) = "delete"
                 THEN [c \in DOMAIN row \ {call} |-> row[c]]
                 ELSE [c \in DOMAIN row |-> IF c = call THEN Head(cmd) ELSE row[c]]
  /\ NextStage
  /\ UNCHANGED <<recs, thread, call, created, tests>>

-----------------------------------------------------------------------------

ValidationThread ==
  Sleep \/ BeginPass \/ EndPass \/ \E n \in todo : HangUp(n) \/ Visit(n)

Command ==
  \/ PushRecord \/ InsertRow \/ QueryStage \/ FindRecord \/ CheckTransition
  \/ WriteRecord \/ WriteRow

Next == ValidationThread \/ Cleanup \/ StartTest \/ Command

Spec == Init /\ [][Next]_vars

(* The threads are scheduled, and the mutex, free for five seconds after   *)
(* every pass, is got by the command that waits for it.                    *)
FairSpec == Spec /\ WF_vars(ValidationThread) /\ SF_vars(Command)

-----------------------------------------------------------------------------
(* Properties *)

(* The pointer the command got from find_validation_record names a record  *)
(* that is still in the list whenever it is used, although the mutex was   *)
(* released in between: no pass and no cleanup frees it under the command. *)
PointerLive == cpc \in {"check", "write"} => ptr \in DOMAIN recs

(* Between two stages of a command, and between two commands, the row of a *)
(* call shows the state of its latest record, as long as queries work, no  *)
(* destination has reported on the call (expected_state is then what it    *)
(* was) and the validation thread has hung up no call.                     *)
RowShowsRecord ==
  failures = 0 /\ flagged = 0 /\ cpc \notin {"insert", "row"} =>
    \A n \in DOMAIN recs :
      /\ n = Find(recs[n].call) /\ recs[n].call \in DOMAIN row
      /\ recs[n].expected = NewRecord(recs[n].call).expected
      => row[recs[n].call] = recs[n].state

(* A "validation test" that was entered comes back to the prompt, unless   *)
(* the validation thread blocks.                                           *)
CommandReturns == cpc # "idle" ~> cpc = "idle" \/ tpc = "stuck"

(* "Check every 5 seconds": the validation thread starts a pass again and  *)
(* again.                                                                  *)
KeepsChecking == []<>(tpc = "sleep")
=============================================================================

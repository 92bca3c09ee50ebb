------------------------- MODULE CallValidatorProofs -------------------------
(* What CallValidator promises for every value of its constants. *)
EXTENDS CallValidator, Integers, WellFoundedInduction, TLAPS

USE CallValidatorAssumption

-----------------------------------------------------------------------------
(* What the helpers of the actions return.                                 *)

(* A bounded set of numbers that is not empty has a greatest one.          *)
LEMMA GreatestExists ==
  ASSUME NEW bound \in Nat, NEW S, S \subseteq 1 .. bound, S # {}
  PROVE  Newest(S) \in S
<1> DEFINE Dist == {bound - n : n \in S}
<1>0. \A n \in S : n \in Nat /\ n <= bound
  OBVIOUS
<1>1. Dist \subseteq Nat
  BY <1>0
<1>2. Dist # {}
  OBVIOUS
<1>3. PICK i \in Dist : \A j \in Dist : <<j, i>> \notin OpToRel(<, Nat)
  BY <1>1, <1>2, NatLessThanWellFounded, WFMin
<1>4. ASSUME NEW j \in Dist PROVE i <= j
  <2>1. ~ (j < i)
    BY <1>1, <1>3, <1>4 DEF OpToRel
  <2>2. i \in Nat /\ j \in Nat
    BY <1>1, <1>4
  <2> QED
    BY <2>1, <2>2
<1>5. PICK n \in S : i = bound - n
  OBVIOUS
<1>6. \A m \in S : m <= n
  <2> SUFFICES ASSUME NEW m \in S PROVE m <= n
    OBVIOUS
  <2>1. bound - n <= bound - m
    BY <1>4, <1>5
  <2>2. n \in Nat /\ m \in Nat
    BY <1>0
  <2> QED
    BY <2>1, <2>2
<1> QED
  BY <1>6 DEF Newest

(* The search from the head of the list finds a record of the call.        *)
LEMMA FindsRecord ==
  ASSUME RecordsTypeOK, created \in Nat, NEW c, Find(c) # 0
  PROVE  Find(c) \in DOMAIN recs /\ recs[Find(c)].call = c
<1> DEFINE Found == {n \in DOMAIN recs : recs[n].call = c}
<1>1. Found # {} /\ Find(c) = Newest(Found)
  BY DEF Find
<1>2. Found \subseteq 1 .. created
  BY DEF RecordsTypeOK
<1>3. Newest(Found) \in Found
  BY <1>1, <1>2, GreatestExists
<1> QED
  BY <1>1, <1>3

(* A query costs at most one failure, within the bound.                    *)
LEMMA QueryTyped ==
  ASSUME failures \in 0 .. MaxFailures, NEW ok \in BOOLEAN, Query(ok)
  PROVE  /\ failures' \in 0 .. MaxFailures
         /\ failures' = 0 => failures = 0 /\ ok
BY DEF Query

(* A new record has the types of its columns.                              *)
LEMMA NewTyped ==
  ASSUME NEW c \in CallIds
  PROVE  /\ NewRecord(c) \in Record
         /\ NewRecord(c).call = c /\ NewRecord(c).attempts = 0
         /\ NewRecord(c).state = "ORIGINATED" /\ NewRecord(c).expected = "RINGING"
BY DEF NewRecord, Record, State

(* What a pass does to one record: the call stays, the state moves only    *)
(* with the expected state, and never to HUNG_UP.                          *)
LEMMA ReportedTyped ==
  ASSUME NEW r \in Record, NEW status, NEW s, s = Reported(r, status)
  PROVE  /\ s \in Record /\ s.call = r.call /\ s.attempts = r.attempts
         /\ s.state \in {"RINGING", "ANSWERED", r.state}
         /\ s.expected = "RINGING" => s.state = r.state /\ r.expected = "RINGING"
<1>1. CASE status = "ringing" /\ r.state = "ORIGINATED"
  <2>1. s = [r EXCEPT !.state = "RINGING", !.expected = "ANSWERED"]
    BY <1>1 DEF Reported
  <2> QED
    BY <2>1 DEF Record, State
<1>2. CASE status = "answered" /\ r.state = "RINGING"
  <2>1. s = [r EXCEPT !.state = "ANSWERED", !.expected = "HUNG_UP"]
    BY <1>2 DEF Reported
  <2> QED
    BY <2>1 DEF Record, State
<1>3. CASE ~(status = "ringing" /\ r.state = "ORIGINATED") /\
           ~(status = "answered" /\ r.state = "RINGING")
  BY <1>3 DEF Reported
<1> QED
  BY <1>1, <1>2, <1>3

(* A visit touches one record, and takes it off the list only when its     *)
(* call is over.                                                           *)
LEMMA Visited ==
  ASSUME RecordsTypeOK, NEW n \in DOMAIN recs, Visit(n)
  PROVE  /\ DOMAIN recs' \subseteq DOMAIN recs
         /\ recs' \in [DOMAIN recs' -> Record]
         /\ \A m \in DOMAIN recs' :
              /\ recs'[m].attempts <= AttemptLimit + 1
              /\ recs'[m].call = recs[m].call
              /\ recs'[m].state \in {"RINGING", "ANSWERED", recs[m].state}
              /\ recs'[m].expected = "RINGING" =>
                   recs'[m].state = recs[m].state /\ recs[m].expected = "RINGING"
         /\ \A m \in DOMAIN recs \ DOMAIN recs' :
              m = n /\ recs[m].state \in {"HUNG_UP", "FAILED"}
<1> DEFINE old == [recs[n] EXCEPT !.attempts = IF @ > AttemptLimit THEN @ ELSE @ + 1]
<1>1. recs[n] \in Record /\ recs[n].attempts \in Nat /\ recs[n].attempts <= AttemptLimit + 1
  BY DEF RecordsTypeOK, Record
<1>2. /\ old \in Record /\ old.attempts <= AttemptLimit + 1
      /\ old.call = recs[n].call /\ old.state = recs[n].state
      /\ old.expected = recs[n].expected
  BY <1>1 DEF Record
<1>3. PICK status :
        recs' = IF Removable(Reported(old, status)) THEN Without({n})
                ELSE [recs EXCEPT ![n] = Reported(old, status)]
  BY DEF Visit
<1> HIDE DEF old
<1> DEFINE new == Reported(old, status)
<1>4. /\ new \in Record /\ new.call = recs[n].call
      /\ new.attempts <= AttemptLimit + 1
      /\ new.state \in {"RINGING", "ANSWERED", recs[n].state}
      /\ new.expected = "RINGING" =>
           new.state = recs[n].state /\ recs[n].expected = "RINGING"
  <2>1. new \in Record /\ new.call = old.call /\ new.attempts = old.attempts
    BY <1>2, ReportedTyped
  <2>2. /\ new.state \in {"RINGING", "ANSWERED", old.state}
        /\ new.expected = "RINGING" => new.state = old.state /\ old.expected = "RINGING"
    BY <1>2, ReportedTyped
  <2> HIDE DEF new
  <2> QED
    BY <1>2, <2>1, <2>2
<1> HIDE DEF new
<1>5. recs' = IF Removable(new) THEN Without({n}) ELSE [recs EXCEPT ![n] = new]
  BY <1>3 DEF new
<1>6. CASE Removable(new)
  <2>1. new.state \in {"HUNG_UP", "FAILED"}
    BY <1>6 DEF Removable
  <2>2. recs[n].state = new.state
    BY <1>4, <2>1
  <2>3. recs' = [m \in DOMAIN recs \ {n} |-> recs[m]]
    BY <1>5, <1>6 DEF Without
  <2> QED
    BY <2>1, <2>2, <2>3 DEF RecordsTypeOK
<1>7. CASE ~Removable(new)
  <2>1. recs' = [recs EXCEPT ![n] = new]
    BY <1>5, <1>7
  <2> QED
    BY <1>4, <2>1 DEF RecordsTypeOK
<1> QED
  BY <1>6, <1>7

(* A sleep makes the records older and changes nothing else.               *)
LEMMA Slept ==
  ASSUME RecordsTypeOK, Sleep
  PROVE  /\ DOMAIN recs' = DOMAIN recs /\ recs' \in [DOMAIN recs' -> Record]
         /\ \A m \in DOMAIN recs :
              /\ recs'[m].attempts = recs[m].attempts /\ recs'[m].call = recs[m].call
              /\ recs'[m].state = recs[m].state /\ recs'[m].expected = recs[m].expected
<1>1. PICK k \in 1 .. MaxSleep :
       recs' = [n \in DOMAIN recs |->
         [recs[n] EXCEPT !.age = IF @ + k > ExpireLimit THEN ExpireLimit + 1 ELSE @ + k]]
  BY DEF Sleep
<1>2. ASSUME NEW r \in Record
      PROVE  [r EXCEPT !.age = IF @ + k > ExpireLimit THEN ExpireLimit + 1 ELSE @ + k]
               \in Record
  BY DEF Record
<1>3. \A m \in DOMAIN recs : recs[m] \in Record
  BY DEF RecordsTypeOK
<1>4. DOMAIN recs' = DOMAIN recs /\ recs' \in [DOMAIN recs' -> Record]
  BY <1>1, <1>2, <1>3
<1>5. \A m \in DOMAIN recs :
        /\ recs'[m].attempts = recs[m].attempts /\ recs'[m].call = recs[m].call
        /\ recs'[m].state = recs[m].state /\ recs'[m].expected = recs[m].expected
  BY <1>1, <1>3 DEF Record
<1> QED
  BY <1>4, <1>5

(* A state is written with its time.                                       *)
StateSet(r, state) == [r EXCEPT !.state = state, !.age = 0]

LEMMA StateSetTyped ==
  ASSUME NEW r \in Record, NEW state \in State
  PROVE  LET s == StateSet(r, state)
         IN  /\ s \in Record /\ s.state = state
             /\ s.attempts = r.attempts /\ s.call = r.call /\ s.expected = r.expected
<1>1. 0 \in 0 .. ExpireLimit + 1
  OBVIOUS
<1>2. StateSet(r, state) \in Record
  BY <1>1 DEF StateSet, Record
<1> QED
  BY <1>2 DEF StateSet, Record

(* The command writes one field of one record.                             *)
LEMMA Written ==
  ASSUME RecordsTypeOK, WriteRecord
  PROVE  /\ DOMAIN recs' = DOMAIN recs /\ recs' \in [DOMAIN recs' -> Record]
         /\ \A m \in DOMAIN recs :
              /\ recs'[m].attempts = recs[m].attempts /\ recs'[m].call = recs[m].call
              /\ recs'[m].expected = recs[m].expected
              /\ recs'[m].state = IF m = ptr /\ Head(cmd) \in State
                                  THEN Head(cmd) ELSE recs[m].state
<1>1. recs' = [n \in DOMAIN recs |->
       IF n # ptr THEN recs[n]
       ELSE CASE Head(cmd) \in State -> [recs[n] EXCEPT !.state = Head(cmd), !.age = 0]
              [] Head(cmd) = "did" -> [recs[n] EXCEPT !.did = TRUE]
              [] OTHER -> recs[n]]
  BY DEF WriteRecord
<1>2. \A m \in DOMAIN recs : recs[m] \in Record
  BY DEF RecordsTypeOK
<1>3. "did" \notin State
  BY DEF State
<1>4. ASSUME NEW m \in DOMAIN recs
      PROVE  /\ recs'[m] \in Record
             /\ recs'[m].attempts = recs[m].attempts /\ recs'[m].call = recs[m].call
             /\ recs'[m].expected = recs[m].expected
             /\ recs'[m].state = IF m = ptr /\ Head(cmd) \in State
                                 THEN Head(cmd) ELSE recs[m].state
  <2>1. CASE m # ptr
    BY <1>1, <1>2, <2>1
  <2>2. CASE m = ptr /\ Head(cmd) \in State
    <3>1. recs'[m] = [recs[m] EXCEPT !.state = Head(cmd), !.age = 0]
      BY <1>1, <1>3, <2>2
    <3>2. recs'[m] = StateSet(recs[m], Head(cmd))
      BY <3>1 DEF StateSet
    <3>3. /\ recs'[m] \in Record /\ recs'[m].state = Head(cmd)
          /\ recs'[m].attempts = recs[m].attempts /\ recs'[m].call = recs[m].call
          /\ recs'[m].expected = recs[m].expected
      BY <1>2, <2>2, <3>2, StateSetTyped
    <3> QED
      BY <2>2, <3>3
  <2>3. CASE m = ptr /\ Head(cmd) = "did"
    <3>1. recs'[m] = [recs[m] EXCEPT !.did = TRUE]
      BY <1>1, <1>3, <2>3
    <3>2. [recs[m] EXCEPT !.did = TRUE] \in Record
      BY <1>2 DEF Record
    <3> QED
      BY <1>2, <1>3, <2>3, <3>1, <3>2 DEF Record
  <2>4. CASE m = ptr /\ Head(cmd) \notin State /\ Head(cmd) # "did"
    BY <1>1, <1>2, <2>4
  <2> QED
    BY <2>1, <2>2, <2>3, <2>4
<1> QED
  BY <1>1, <1>4

-----------------------------------------------------------------------------
(* What is left of a command, and the place of the command in it.          *)

TestRest ==
  {TestScript,
   <<"did", "route", "ANSWERED", "HUNG_UP", "delete">>,
   <<"route", "ANSWERED", "HUNG_UP", "delete">>,
   <<"ANSWERED", "HUNG_UP", "delete">>,
   <<"HUNG_UP", "delete">>,
   <<"delete">>,
   << >>}

ScriptOK ==
  /\ call = Live => cmd \in LiveScripts
  /\ call # Live => cmd \in TestRest
  /\ cpc = "idle" => cmd = << >>
  /\ cpc \in {"query", "find", "check", "write", "row"} => cmd # << >>
  /\ cpc = "query" => Head(cmd) \in {"did", "route"}
  /\ cpc \in {"find", "write"} => Head(cmd) # "delete"
  /\ cpc = "check" => Head(cmd) \in State
  /\ cpc = "row" => Head(cmd) \in State \cup {"delete"}

(* The stages of a test, one after the other.                              *)
LEMMA TestParts ==
  ASSUME NEW c \in TestRest, c # << >>
  PROVE  /\ Tail(c) \in TestRest
         /\ Head(c) \in {"RINGING", "did", "route", "ANSWERED", "HUNG_UP", "delete"}
         /\ Head(c) = "HUNG_UP" => c = <<"HUNG_UP", "delete">>
         /\ c = <<"HUNG_UP", "delete">> => Head(c) = "HUNG_UP" /\ Tail(c) = <<"delete">>
         /\ c = <<"delete">> <=> Head(c) = "delete"
         /\ c = <<"delete">> => Tail(c) = << >>
<1>1. CASE c = TestScript
  BY <1>1 DEF TestRest, TestScript
<1>2. CASE c = <<"did", "route", "ANSWERED", "HUNG_UP", "delete">>
  BY <1>2 DEF TestRest
<1>3. CASE c = <<"route", "ANSWERED", "HUNG_UP", "delete">>
  BY <1>3 DEF TestRest
<1>4. CASE c = <<"ANSWERED", "HUNG_UP", "delete">>
  BY <1>4 DEF TestRest
<1>5. CASE c = <<"HUNG_UP", "delete">>
  BY <1>5 DEF TestRest
<1>6. CASE c = <<"delete">>
  BY <1>6 DEF TestRest
<1> QED
  BY <1>1, <1>2, <1>3, <1>4, <1>5, <1>6 DEF TestRest

(* A live call has one stage, or none.                                     *)
LEMMA LiveParts ==
  ASSUME NEW c \in LiveScripts, c # << >>
  PROVE  Head(c) = "did" /\ Tail(c) = << >>
<1>1. c = <<"did">>
  BY DEF LiveScripts
<1> QED
  BY <1>1

(* The first step of a stage is the one its kind calls for.                *)
LEMMA FirstFits ==
  ASSUME NEW c \in TestRest \cup LiveScripts
  PROVE  /\ FirstStep(c) \in {"idle", "query", "find", "row"}
         /\ FirstStep(c) = "idle" <=> c = << >>
         /\ FirstStep(c) = "query" => Head(c) \in {"did", "route"}
         /\ FirstStep(c) = "find" => Head(c) # "delete"
         /\ FirstStep(c) = "row" <=> c # << >> /\ Head(c) = "delete"
BY DEF FirstStep

(* The scripts are of the two kinds.                                       *)
LEMMA ScriptsKnown ==
  /\ TestScript \in TestRest /\ << >> \in TestRest
  /\ << >> \in LiveScripts
BY DEF TestRest, LiveScripts

(* Going on to the next stage keeps to the script.                         *)
LEMMA NextFits ==
  ASSUME ScriptOK, cmd # << >>, NextStage, call' = call
  PROVE  /\ ScriptOK'
         /\ cpc' \in {"idle", "query", "find", "row"} /\ ptr' = 0
         /\ cpc' = "row" => cmd' = <<"delete">>
         /\ cmd = <<"HUNG_UP", "delete">> => cmd' = <<"delete">>
         /\ cmd = <<"delete">> => cpc' = "idle"
<1>1. cmd' = Tail(cmd) /\ cpc' = FirstStep(cmd') /\ ptr' = 0
  BY DEF NextStage
<1>2. CASE call = Live
  <2>1. cmd \in LiveScripts /\ cmd' = << >>
    BY <1>1, <1>2, LiveParts DEF ScriptOK
  <2>2. cmd # <<"HUNG_UP", "delete">> /\ cmd # <<"delete">>
    BY <2>1 DEF LiveScripts
  <2>3. cpc' = "idle"
    BY <1>1, <2>1 DEF FirstStep
  <2> QED
    BY <1>1, <1>2, <2>1, <2>2, <2>3, ScriptsKnown DEF ScriptOK
<1>3. CASE call # Live
  <2>1. cmd \in TestRest
    BY <1>3 DEF ScriptOK
  <2>2. cmd' \in TestRest
    BY <1>1, <2>1, TestParts
  <2>3. /\ cpc' \in {"idle", "query", "find", "row"}
        /\ cpc' = "idle" <=> cmd' = << >>
        /\ cpc' = "query" => Head(cmd') \in {"did", "route"}
        /\ cpc' = "find" => Head(cmd') # "delete"
        /\ cpc' = "row" <=> cmd' # << >> /\ Head(cmd') = "delete"
    BY <1>1, <2>2, FirstFits
  <2>4. ScriptOK'
    BY <1>3, <2>2, <2>3 DEF ScriptOK
  <2>5. cpc' = "row" => cmd' = <<"delete">>
    BY <2>2, <2>3, TestParts
  <2>6. cmd = <<"HUNG_UP", "delete">> => cmd' = <<"delete">>
    BY <1>1, <2>1, TestParts
  <2>7. cmd = <<"delete">> => cpc' = "idle"
    BY <1>1, <2>1, <2>3, TestParts
  <2> QED
    BY <1>1, <2>3, <2>4, <2>5, <2>6, <2>7
<1> QED
  BY <1>2, <1>3

(* The command goes through its script, one stage after the other.         *)
LEMMA ScriptStep == TypeOK /\ ScriptOK /\ [Next]_vars => ScriptOK'
<1> SUFFICES ASSUME TypeOK, ScriptOK, [Next]_vars PROVE ScriptOK'
  OBVIOUS
<1>1. CASE UNCHANGED command
  BY <1>1 DEF command, ScriptOK
<1>2. CASE StartTest
  <2>1. /\ cpc' = "push"
        /\ \/ call' = tests + 1 /\ cmd' = TestScript
           \/ call' = Live /\ cmd' \in LiveScripts
    BY <1>2 DEF StartTest
  <2>2. tests + 1 # Live
    BY DEF TypeOK, CommandTypeOK, Live
  <2> QED
    BY <2>1, <2>2, ScriptsKnown DEF ScriptOK
<1>3. CASE PushRecord
  BY <1>3 DEF PushRecord, ScriptOK
<1>4. CASE InsertRow
  <2>1. UNCHANGED <<cmd, call>> /\ cpc' = FirstStep(cmd)
    BY <1>4 DEF InsertRow
  <2>2. cmd \in TestRest \cup LiveScripts
    BY DEF ScriptOK
  <2>3. /\ cpc' \in {"idle", "query", "find", "row"}
        /\ cpc' = "idle" <=> cmd = << >>
        /\ cpc' = "query" => Head(cmd) \in {"did", "route"}
        /\ cpc' = "find" => Head(cmd) # "delete"
        /\ cpc' = "row" <=> cmd # << >> /\ Head(cmd) = "delete"
    BY <2>1, <2>2, FirstFits
  <2> QED
    BY <2>1, <2>3 DEF ScriptOK
<1>5. CASE QueryStage
  <2>1. call' = call /\ cmd # << >> /\ Head(cmd) \in {"did", "route"}
    BY <1>5 DEF QueryStage, ScriptOK
  <2>2. NextStage \/ (cpc' = "find" /\ UNCHANGED cmd)
    BY <1>5 DEF QueryStage
  <2>3. CASE cpc' = "find" /\ UNCHANGED cmd
    BY <2>1, <2>3 DEF ScriptOK
  <2> QED
    BY <2>1, <2>2, <2>3, NextFits
<1>6. CASE FindRecord
  <2>1. call' = call /\ cmd # << >> /\ Head(cmd) # "delete"
    BY <1>6 DEF FindRecord, ScriptOK
  <2>2. \/ NextStage
        \/ cpc' = (IF Head(cmd) \in State THEN "check" ELSE "write") /\ UNCHANGED cmd
    BY <1>6 DEF FindRecord
  <2>3. CASE cpc' = (IF Head(cmd) \in State THEN "check" ELSE "write") /\ UNCHANGED cmd
    BY <2>1, <2>3 DEF ScriptOK
  <2> QED
    BY <2>1, <2>2, <2>3, NextFits
<1>7. CASE CheckTransition
  <2>1. call' = call /\ cmd # << >> /\ Head(cmd) \in State
    BY <1>7 DEF CheckTransition, ScriptOK
  <2>2. NextStage \/ (cpc' = "write" /\ UNCHANGED cmd)
    BY <1>7 DEF CheckTransition
  <2>3. CASE cpc' = "write" /\ UNCHANGED cmd
    BY <2>1, <2>3 DEF ScriptOK, State
  <2> QED
    BY <2>1, <2>2, <2>3, NextFits
<1>8. CASE WriteRecord
  <2>1. call' = call /\ cmd # << >>
    BY <1>8 DEF WriteRecord, ScriptOK
  <2>2. NextStage \/ (Head(cmd) \in State /\ cpc' = "row" /\ UNCHANGED cmd)
    BY <1>8 DEF WriteRecord
  <2>3. CASE Head(cmd) \in State /\ cpc' = "row" /\ UNCHANGED cmd
    BY <2>1, <2>3 DEF ScriptOK
  <2> QED
    BY <2>1, <2>2, <2>3, NextFits
<1>9. CASE WriteRow
  <2>1. call' = call /\ cmd # << >> /\ NextStage
    BY <1>9 DEF WriteRow, ScriptOK
  <2> QED
    BY <2>1, NextFits
<1>10. CASE ValidationThread \/ Cleanup \/ UNCHANGED vars
  BY <1>10, <1>1 DEF ValidationThread, Sleep, BeginPass, EndPass, HangUp, Visit,
     Cleanup, vars, command
<1> QED
  BY <1>2, <1>3, <1>4, <1>5, <1>6, <1>7, <1>8, <1>9, <1>10 DEF Next, Command

-----------------------------------------------------------------------------
(* Type correctness.                                                       *)

(* One record per command, made after the command was counted.             *)
CountOK == tests = created + IF cpc = "push" THEN 1 ELSE 0

(* A pass is over when its thread sleeps, and the thread that hangs up a   *)
(* call stays where it is.                                                 *)
PassOK ==
  /\ ~Held => todo = {}
  /\ flagged # 0 => tpc = "stuck"

BaseInv == TypeOK /\ ScriptOK /\ CountOK /\ PassOK

(* A command writes no state but those of its script.                      *)
LEMMA StatesWritten ==
  ASSUME ScriptOK, cmd # << >>, Head(cmd) \in State
  PROVE  Head(cmd) \in {"RINGING", "ANSWERED", "HUNG_UP"} /\ call # Live
<1>1. call # Live
  BY LiveParts DEF ScriptOK, State
<1> QED
  BY <1>1, TestParts DEF ScriptOK, State

(* Every step keeps the types, the script, the count and the pass.         *)
LEMMA BaseStep == BaseInv /\ [Next]_vars => BaseInv'
<1> SUFFICES ASSUME BaseInv, [Next]_vars PROVE BaseInv'
  OBVIOUS
<1>p. RecordsTypeOK /\ ThreadTypeOK /\ CommandTypeOK /\ ScriptOK /\ CountOK /\ PassOK
  BY DEF BaseInv, TypeOK
<1>n. /\ created \in Nat /\ tests \in Nat /\ failures \in Nat
      /\ \A m \in DOMAIN recs : recs[m] \in Record /\ m \in 1 .. created
  BY <1>p DEF CommandTypeOK, RecordsTypeOK
<1>s. ScriptOK'
  BY ScriptStep DEF BaseInv
<1>q. ASSUME NEW ok \in BOOLEAN, Query(ok) PROVE failures' \in 0 .. MaxFailures
  BY <1>p, <1>q, QueryTyped DEF CommandTypeOK
<1> SUFFICES RecordsTypeOK' /\ ThreadTypeOK' /\ CommandTypeOK' /\ CountOK' /\ PassOK'
  BY <1>s DEF BaseInv, TypeOK
<1>1. CASE UNCHANGED vars
  BY <1>1, <1>p DEF vars, RecordsTypeOK, ThreadTypeOK, CommandTypeOK, CountOK, PassOK,
     Held
<1>2. CASE Sleep
  <2>1. UNCHANGED <<row, todo, flagged, command, created, tests, failures>>
        /\ tpc = "sleep" /\ tpc' = "due"
    BY <1>2 DEF Sleep
  <2>2. RecordsTypeOK'
    BY <1>2, <1>p, <2>1, Slept DEF RecordsTypeOK
  <2>3. DOMAIN recs' = DOMAIN recs
    BY <1>2, <1>p, Slept
  <2> QED
    BY <1>p, <2>1, <2>2, <2>3 DEF ThreadTypeOK, CommandTypeOK, CountOK, PassOK, Held,
       command
<1>3. CASE BeginPass
  BY <1>3, <1>p DEF BeginPass, RecordsTypeOK, ThreadTypeOK, CommandTypeOK, CountOK,
     PassOK, Held, command
<1>4. CASE EndPass
  BY <1>4, <1>p DEF EndPass, RecordsTypeOK, ThreadTypeOK, CommandTypeOK, CountOK,
     PassOK, Held, command
<1>5. ASSUME NEW n \in todo, HangUp(n)
      PROVE  RecordsTypeOK' /\ ThreadTypeOK' /\ CommandTypeOK' /\ CountOK' /\ PassOK'
  <2>1. /\ UNCHANGED <<recs, todo, command, created, tests>>
        /\ flagged' = n /\ tpc' = "stuck" /\ n \in DOMAIN recs
    BY <1>5, <1>p DEF HangUp, ThreadTypeOK
  <2>2. PICK ok \in BOOLEAN :
          /\ Query(ok)
          /\ row' = [c \in DOMAIN row |->
               IF ok /\ c = recs[n].call THEN "FAILED" ELSE row[c]]
    BY <1>5 DEF HangUp
  <2>3. DOMAIN row' = DOMAIN row /\ row' \in [DOMAIN row' -> State]
    BY <1>p, <2>2 DEF RecordsTypeOK, State
  <2>4. RecordsTypeOK'
    BY <1>p, <2>1, <2>3 DEF RecordsTypeOK
  <2>5. failures' \in 0 .. MaxFailures
    BY <1>q, <2>2
  <2> QED
    BY <1>p, <2>1, <2>4, <2>5 DEF ThreadTypeOK, CommandTypeOK, CountOK, PassOK, Held,
       command
<1>6. ASSUME NEW n \in todo, Visit(n)
      PROVE  RecordsTypeOK' /\ ThreadTypeOK' /\ CommandTypeOK' /\ CountOK' /\ PassOK'
  <2>1. /\ UNCHANGED <<row, tpc, flagged, command, created, tests, failures>>
        /\ tpc = "visit" /\ todo' = todo \ {n} /\ n \in DOMAIN recs
    BY <1>6, <1>p DEF Visit, ThreadTypeOK
  <2>2. /\ DOMAIN recs' \subseteq DOMAIN recs /\ recs' \in [DOMAIN recs' -> Record]
        /\ \A m \in DOMAIN recs' : recs'[m].attempts <= AttemptLimit + 1
        /\ \A m \in DOMAIN recs \ DOMAIN recs' : m = n
    BY <1>6, <1>p, <2>1, Visited
  <2>3. RecordsTypeOK'
    BY <1>p, <2>1, <2>2 DEF RecordsTypeOK
  <2>4. flagged = 0
    BY <1>p, <2>1 DEF PassOK
  <2> QED
    BY <1>p, <2>1, <2>2, <2>3, <2>4 DEF ThreadTypeOK, CommandTypeOK, CountOK, PassOK,
       Held, command
<1>7. CASE Cleanup
  <2>1. /\ UNCHANGED <<row, tpc, todo, flagged, command, created, tests, failures>>
        /\ ~Held
    BY <1>7 DEF Cleanup, thread
  <2>2. PICK gone \in SUBSET DOMAIN recs : recs' = Without(gone)
    BY <1>7 DEF Cleanup
  <2>3. /\ DOMAIN recs' \subseteq DOMAIN recs
        /\ \A m \in DOMAIN recs' : recs'[m] = recs[m]
        /\ recs' \in [DOMAIN recs' -> Record]
    BY <1>n, <2>2 DEF Without
  <2>4. RecordsTypeOK'
    BY <1>p, <2>1, <2>3 DEF RecordsTypeOK
  <2>5. todo = {} /\ flagged = 0
    BY <1>p, <2>1 DEF PassOK, Held
  <2> QED
    BY <1>p, <2>1, <2>4, <2>5 DEF ThreadTypeOK, CommandTypeOK, CountOK, PassOK, Held,
       command
<1>8. CASE StartTest
  <2>1. /\ UNCHANGED <<recs, row, tpc, todo, flagged, created, failures>>
        /\ cpc = "idle" /\ cpc' = "push" /\ ptr' = 0
        /\ tests < MaxTests /\ tests' = tests + 1
        /\ call' = tests + 1 \/ call' = Live
    BY <1>8 DEF StartTest, thread
  <2>2. call' \in CallIds /\ tests' \in 0 .. MaxTests
    BY <1>n, <2>1 DEF CallIds, Live
  <2>3. CommandTypeOK'
    BY <1>p, <1>n, <2>1, <2>2 DEF CommandTypeOK
  <2>4. CountOK'
    BY <1>p, <1>n, <2>1 DEF CountOK
  <2> QED
    BY <1>p, <2>1, <2>3, <2>4 DEF RecordsTypeOK, ThreadTypeOK, PassOK, Held
<1>9. CASE PushRecord
  <2>1. /\ UNCHANGED <<row, tpc, todo, flagged, cmd, call, ptr, tests, failures>>
        /\ cpc = "push" /\ cpc' = "insert" /\ created' = created + 1
        /\ recs' = [m \in DOMAIN recs \cup {created'} |->
                      IF m = created' THEN NewRecord(call) ELSE recs[m]]
    BY <1>9 DEF PushRecord, thread
  <2>2. created' \in 0 .. MaxTests /\ tests = created'
    BY <1>p, <1>n, <2>1 DEF CountOK, CommandTypeOK
  <2>3. NewRecord(call) \in Record /\ NewRecord(call).attempts = 0
    BY <1>p, NewTyped DEF CommandTypeOK
  <2>4. RecordsTypeOK'
    <3>1. DOMAIN recs' = DOMAIN recs \cup {created'}
      BY <2>1
    <3>2. \A m \in DOMAIN recs' : /\ recs'[m] \in Record
                                  /\ recs'[m].attempts <= AttemptLimit + 1
      BY <1>p, <1>n, <2>1, <2>3 DEF RecordsTypeOK
    <3>3. DOMAIN recs' \subseteq 1 .. created'
      BY <1>n, <2>1, <3>1
    <3>4. recs' \in [DOMAIN recs' -> Record]
      BY <2>1, <3>2
    <3> QED
      BY <1>p, <2>1, <3>2, <3>3, <3>4 DEF RecordsTypeOK
  <2>5. CommandTypeOK'
    BY <1>p, <1>n, <2>1, <2>2 DEF CommandTypeOK
  <2>6. CountOK'
    BY <1>n, <2>1, <2>2 DEF CountOK
  <2>7. DOMAIN recs \subseteq DOMAIN recs'
    BY <2>1
  <2> QED
    BY <1>p, <2>1, <2>4, <2>5, <2>6, <2>7 DEF ThreadTypeOK, PassOK, Held
<1>10. CASE InsertRow
  <2>1. /\ UNCHANGED <<recs, tpc, todo, flagged, cmd, call, ptr, created, tests>>
        /\ cpc = "insert" /\ cpc' = FirstStep(cmd)
    BY <1>10 DEF InsertRow, thread
  <2>2. PICK ok \in BOOLEAN :
          /\ Query(ok)
          /\ row' = [c \in DOMAIN row \cup (IF ok THEN {call} ELSE {}) |->
                       IF c \in DOMAIN row THEN row[c] ELSE "ORIGINATED"]
    BY <1>10 DEF InsertRow
  <2>3. DOMAIN row' \subseteq CallIds /\ row' \in [DOMAIN row' -> State]
    BY <1>p, <2>2 DEF RecordsTypeOK, CommandTypeOK, State
  <2>4. RecordsTypeOK'
    BY <1>p, <2>1, <2>3 DEF RecordsTypeOK
  <2>5. /\ cpc' \in {"idle", "query", "find", "row"}
        /\ cpc' = "idle" <=> cmd = << >>
    <3>1. cmd \in TestRest \cup LiveScripts
      BY <1>p DEF ScriptOK
    <3> QED
      BY <2>1, <3>1, FirstFits
  <2>6. CommandTypeOK'
    BY <1>p, <1>q, <2>1, <2>2, <2>5 DEF CommandTypeOK
  <2> QED
    BY <1>p, <2>1, <2>4, <2>5, <2>6 DEF ThreadTypeOK, CountOK, PassOK, Held
<1>11. ASSUME UNCHANGED <<recs, row, tpc, todo, flagged, call, created, tests>>,
              failures' \in 0 .. MaxFailures, cpc \notin {"push", "idle"},
              \/ cmd # << >> /\ NextStage
              \/ cpc' \in {"find", "check", "write", "row"} /\ ptr' \in 0 .. created
       PROVE RecordsTypeOK' /\ ThreadTypeOK' /\ CommandTypeOK' /\ CountOK' /\ PassOK'
  <2>1. /\ cpc' \in {"idle", "find", "check", "write", "row", "query"}
        /\ cpc' = "idle" => cmd' = << >>
        /\ ptr' \in 0 .. created
    <3>1. CASE cmd # << >> /\ NextStage
      <4>1. ScriptOK' /\ cpc' \in {"idle", "query", "find", "row"} /\ ptr' = 0
        BY <1>p, <1>11, <3>1, NextFits
      <4> QED
        BY <1>n, <4>1 DEF ScriptOK
    <3>2. CASE cpc' \in {"find", "check", "write", "row"} /\ ptr' \in 0 .. created
      BY <3>2
    <3> QED
      BY <1>11, <3>1, <3>2
  <2>2. CommandTypeOK'
    BY <1>p, <1>11, <2>1 DEF CommandTypeOK
  <2>3. CountOK'
    BY <1>p, <1>11, <2>1 DEF CountOK
  <2> QED
    BY <1>p, <1>11, <2>2, <2>3 DEF RecordsTypeOK, ThreadTypeOK, PassOK, Held
<1>12. CASE QueryStage
  <2>1. /\ UNCHANGED <<recs, row, tpc, todo, flagged, call, created, tests>>
        /\ cpc = "query" /\ cmd # << >>
    BY <1>12, <1>p DEF QueryStage, ScriptOK, thread
  <2>2. NextStage \/ (cpc' = "find" /\ ptr' = ptr)
    BY <1>12 DEF QueryStage
  <2>3. failures' \in 0 .. MaxFailures
    BY <1>12, <1>q DEF QueryStage
  <2>4. ptr \in 0 .. created
    BY <1>p DEF CommandTypeOK
  <2> QED
    BY <1>11, <2>1, <2>2, <2>3, <2>4
<1>13. CASE FindRecord
  <2>1. /\ UNCHANGED <<recs, row, tpc, todo, flagged, call, created, tests>>
        /\ cpc = "find" /\ cmd # << >> /\ failures' = failures
    BY <1>13, <1>p DEF FindRecord, ScriptOK, thread
  <2>2. \/ NextStage
        \/ /\ Find(call) # 0 /\ ptr' = Find(call)
           /\ cpc' = IF Head(cmd) \in State THEN "check" ELSE "write"
    BY <1>13 DEF FindRecord
  <2>3. Find(call) # 0 => Find(call) \in 0 .. created
    BY <1>p, <1>n, FindsRecord
  <2>4. failures \in 0 .. MaxFailures
    BY <1>p DEF CommandTypeOK
  <2> QED
    BY <1>11, <2>1, <2>2, <2>3, <2>4
<1>14. CASE CheckTransition
  <2>1. /\ UNCHANGED <<recs, row, tpc, todo, flagged, call, created, tests>>
        /\ cpc = "check" /\ cmd # << >> /\ failures' = failures
    BY <1>14, <1>p DEF CheckTransition, ScriptOK, thread
  <2>2. NextStage \/ (cpc' = "write" /\ ptr' = ptr)
    BY <1>14 DEF CheckTransition
  <2>3. ptr \in 0 .. created /\ failures \in 0 .. MaxFailures
    BY <1>p DEF CommandTypeOK
  <2> QED
    BY <1>11, <2>1, <2>2, <2>3
<1>15. CASE WriteRecord
  <2>1. /\ UNCHANGED <<row, tpc, todo, flagged, call, created, tests, failures>>
        /\ cpc = "write" /\ cmd # << >>
    BY <1>15, <1>p DEF WriteRecord, ScriptOK, thread
  <2>2. /\ DOMAIN recs' = DOMAIN recs /\ recs' \in [DOMAIN recs' -> Record]
        /\ \A m \in DOMAIN recs : recs'[m].attempts = recs[m].attempts
    BY <1>15, <1>p, Written
  <2>3. RecordsTypeOK'
    BY <1>p, <2>1, <2>2 DEF RecordsTypeOK
  <2>4. NextStage \/ (cpc' = "row" /\ ptr' = ptr)
    BY <1>15 DEF WriteRecord
  <2>5. /\ cpc' \in {"idle", "query", "find", "row"}
        /\ cpc' = "idle" => cmd' = << >>
        /\ ptr' \in 0 .. created
    <3>1. CASE NextStage
      <4>1. ScriptOK' /\ cpc' \in {"idle", "query", "find", "row"} /\ ptr' = 0
        BY <1>p, <2>1, <3>1, NextFits
      <4> QED
        BY <1>n, <4>1 DEF ScriptOK
    <3>2. CASE cpc' = "row" /\ ptr' = ptr
      BY <1>p, <3>2 DEF CommandTypeOK
    <3> QED
      BY <2>4, <3>1, <3>2
  <2>6. CommandTypeOK'
    BY <1>p, <2>1, <2>5 DEF CommandTypeOK
  <2>7. CountOK'
    BY <1>p, <2>1, <2>5 DEF CountOK
  <2> QED
    BY <1>p, <2>1, <2>2, <2>3, <2>6, <2>7 DEF ThreadTypeOK, PassOK, Held
<1>16. CASE WriteRow
  <2>1. /\ UNCHANGED <<recs, tpc, todo, flagged, call, created, tests>>
        /\ cpc = "row" /\ cmd # << >> /\ NextStage
    BY <1>16, <1>p DEF WriteRow, ScriptOK, thread
  <2>2. PICK ok \in BOOLEAN :
          /\ Query(ok)
          /\ row' = IF ~ok THEN row
                    ELSE IF Head(cmd) = "delete"
                    THEN [c \in DOMAIN row \ {call} |-> row[c]]
                    ELSE [c \in DOMAIN row |-> IF c = call THEN Head(cmd) ELSE row[c]]
    BY <1>16 DEF WriteRow
  <2>3. Head(cmd) # "delete" => Head(cmd) \in State
    BY <1>p, <2>1 DEF ScriptOK
  <2>4. DOMAIN row' \subseteq DOMAIN row /\ row' \in [DOMAIN row' -> State]
    BY <1>p, <2>2, <2>3 DEF RecordsTypeOK
  <2>5. RecordsTypeOK'
    BY <1>p, <2>1, <2>4 DEF RecordsTypeOK
  <2>6. cpc' \in {"idle", "query", "find", "row"} /\ ptr' = 0 /\ ScriptOK'
    BY <1>p, <2>1, NextFits
  <2>7. failures' \in 0 .. MaxFailures
    BY <1>q, <2>2
  <2>8. CommandTypeOK'
    BY <1>p, <1>n, <2>1, <2>6, <2>7 DEF CommandTypeOK, ScriptOK
  <2>9. CountOK'
    BY <1>p, <2>1, <2>6 DEF CountOK
  <2> QED
    BY <1>p, <2>1, <2>5, <2>8, <2>9 DEF ThreadTypeOK, PassOK, Held
<1> QED
  BY <1>1, <1>2, <1>3, <1>4, <1>5, <1>6, <1>7, <1>8, <1>9, <1>10, <1>12, <1>13, <1>14,
     <1>15, <1>16 DEF Next, ValidationThread, Command

(* Before the first command and the first pass.                            *)
LEMMA BaseInit == Init => BaseInv
<1> SUFFICES ASSUME Init PROVE BaseInv
  OBVIOUS
<1>1. RecordsTypeOK
  BY DEF Init, RecordsTypeOK
<1>2. ThreadTypeOK /\ PassOK /\ CountOK
  BY DEF Init, ThreadTypeOK, PassOK, CountOK, Held
<1>3. CommandTypeOK
  BY DEF Init, CommandTypeOK, CallIds, Live
<1>4. ScriptOK
  BY ScriptsKnown DEF Init, ScriptOK
<1> QED
  BY <1>1, <1>2, <1>3, <1>4 DEF BaseInv, TypeOK

(* Type correctness: every variable keeps to the values the C declarations *)
(* and the two threads and the command give it, whatever the interleaving; *)
(* and the validation thread goes on only over records of the list.        *)
THEOREM TypeCorrect == Spec => []TypeOK
<1>1. BaseInv => TypeOK
  BY DEF BaseInv
<1> QED
  BY <1>1, BaseInit, BaseStep, PTL DEF Spec

-----------------------------------------------------------------------------
(* Why the command's pointer stays good.                                   *)
(*                                                                         *)
(* The list drops a record only when its call has hung up, and a call      *)
(* hangs up only in the last stage of the one test that works on it.       *)

(* Calls are numbered as the tests are; but for the live call, each has    *)
(* one record, and neither record nor row before its test makes them.      *)
CallsOK ==
  /\ call <= tests
  /\ \A n \in DOMAIN recs : recs[n].call <= tests
  /\ \A c \in DOMAIN row : c <= tests
  /\ \A m, n \in DOMAIN recs :
       recs[m].call = recs[n].call /\ recs[m].call # Live => m = n
  /\ cpc = "push" /\ call # Live => \A n \in DOMAIN recs : recs[n].call # call
  /\ cpc \in {"push", "insert"} /\ call # Live => call \notin DOMAIN row

(* The stages of the test that look for the record are behind it.          *)
Done == \/ cpc = "idle" \/ cmd = <<"delete">>
        \/ cpc = "row" /\ cmd = <<"HUNG_UP", "delete">>

HungUpOK ==
  \A n \in DOMAIN recs :
    /\ recs[n].state # "FAILED"
    /\ recs[n].state = "HUNG_UP" => recs[n].call # Live
    /\ recs[n].state = "HUNG_UP" /\ recs[n].call = call => Done

PointerOK ==
  cpc \in {"check", "write"} => ptr \in DOMAIN recs /\ recs[ptr].call = call

PointerInv == CallsOK /\ HungUpOK /\ PointerOK

(* What the two threads may do to the list and the table.                  *)
LEMMA ThreadStep ==
  ASSUME BaseInv, ValidationThread \/ Cleanup
  PROVE  /\ UNCHANGED <<cmd, cpc, call, ptr, created, tests>> /\ DOMAIN row' = DOMAIN row
         /\ flagged' = 0 => flagged = 0 /\ row' = row /\ failures' = failures
         /\ DOMAIN recs' \subseteq DOMAIN recs
         /\ \A m \in DOMAIN recs' :
              /\ recs'[m].call = recs[m].call
              /\ recs'[m].state \in {"RINGING", "ANSWERED", recs[m].state}
              /\ recs'[m].expected = "RINGING" =>
                   recs'[m].state = recs[m].state /\ recs[m].expected = "RINGING"
         /\ \A m \in DOMAIN recs \ DOMAIN recs' : recs[m].state \in {"HUNG_UP", "FAILED"}
<1>p. RecordsTypeOK /\ ThreadTypeOK
  BY DEF BaseInv, TypeOK
<1>1. CASE Sleep
  BY <1>1, <1>p, Slept DEF Sleep, command
<1>2. CASE BeginPass \/ EndPass
  BY <1>2 DEF BeginPass, EndPass, command
<1>3. ASSUME NEW n \in todo, HangUp(n)
      PROVE  /\ UNCHANGED <<recs, cmd, cpc, call, ptr, created, tests>>
             /\ DOMAIN row' = DOMAIN row /\ flagged' # 0
  <2>1. n # 0
    BY <1>p DEF RecordsTypeOK, ThreadTypeOK
  <2> QED
    BY <1>3, <2>1 DEF HangUp, command
<1>4. ASSUME NEW n \in todo, Visit(n)
      PROVE  /\ UNCHANGED <<cmd, cpc, call, ptr, created, tests>> /\ DOMAIN row' = DOMAIN row
             /\ UNCHANGED <<flagged, row, failures>>
             /\ DOMAIN recs' \subseteq DOMAIN recs
             /\ \A m \in DOMAIN recs' :
                  /\ recs'[m].call = recs[m].call
                  /\ recs'[m].state \in {"RINGING", "ANSWERED", recs[m].state}
                  /\ recs'[m].expected = "RINGING" =>
                       recs'[m].state = recs[m].state /\ recs[m].expected = "RINGING"
             /\ \A m \in DOMAIN recs \ DOMAIN recs' :
                  recs[m].state \in {"HUNG_UP", "FAILED"}
  <2>1. n \in DOMAIN recs
    BY <1>p DEF ThreadTypeOK
  <2>2. UNCHANGED <<cmd, cpc, call, ptr, created, tests, flagged, row, failures>>
    BY <1>4 DEF Visit, command
  <2> QED
    BY <1>4, <1>p, <2>1, <2>2, Visited
<1>5. CASE Cleanup
  <2>1. UNCHANGED <<row, flagged, cmd, cpc, call, ptr, created, tests, failures>>
    BY <1>5 DEF Cleanup, thread, command
  <2>2. recs' = Without({n \in DOMAIN recs : recs[n].state = "HUNG_UP"
                                               /\ recs[n].age > ExpireLimit})
    BY <1>5 DEF Cleanup
  <2> QED
    BY <2>1, <2>2 DEF Without
<1> QED
  BY <1>1, <1>2, <1>3, <1>4, <1>5 DEF ValidationThread

(* While a stage looks for its record or uses it, it is not the last.      *)
LEMMA NotDone ==
  ASSUME ScriptOK, cpc \in {"query", "find", "check", "write"}
  PROVE  ~Done
BY DEF ScriptOK, Done, State

(* What the steps between two writes of the command do.                    *)
LEMMA LookStep ==
  ASSUME BaseInv, QueryStage \/ FindRecord \/ CheckTransition
  PROVE  /\ UNCHANGED <<recs, row, flagged, call, created, tests>>
         /\ failures' = 0 => failures = 0
         /\ cpc \in {"query", "find", "check"}
         /\ cpc' \in {"idle", "query", "find", "check", "write", "row"}
         /\ cpc' = "row" => cmd' = <<"delete">>
         /\ cpc' \in {"check", "write"} =>
              (cpc = "find" /\ Find(call) # 0 /\ ptr' = Find(call)) \/
              (cpc = "check" /\ ptr' = ptr)
<1>p. ScriptOK /\ CommandTypeOK
  BY DEF BaseInv, TypeOK
<1>1. /\ UNCHANGED <<recs, row, flagged, call, created, tests>>
      /\ cpc \in {"query", "find", "check"}
  BY DEF QueryStage, FindRecord, CheckTransition, thread
<1>2. failures' = 0 => failures = 0
  BY <1>p, QueryTyped DEF QueryStage, FindRecord, CheckTransition, CommandTypeOK
<1>3. cmd # << >>
  BY <1>1, <1>p DEF ScriptOK
<1>4. \/ NextStage
      \/ cpc' = "find"
      \/ cpc' \in {"check", "write"} /\ cpc = "find" /\ Find(call) # 0 /\ ptr' = Find(call)
      \/ cpc' = "write" /\ cpc = "check" /\ ptr' = ptr
  BY DEF QueryStage, FindRecord, CheckTransition
<1>5. NextStage => /\ cpc' \in {"idle", "query", "find", "row"}
                   /\ cpc' = "row" => cmd' = <<"delete">>
  BY <1>1, <1>3, <1>p, NextFits
<1> QED
  BY <1>1, <1>2, <1>4, <1>5

(* What the write of the command does.                                     *)
LEMMA WriteStep ==
  ASSUME BaseInv, WriteRecord
  PROVE  /\ UNCHANGED <<row, flagged, call, created, tests, failures>>
         /\ cpc = "write"
         /\ \/ /\ Head(cmd) \in {"RINGING", "ANSWERED", "HUNG_UP"} /\ call # Live
               /\ cpc' = "row" /\ cmd' = cmd
            \/ /\ Head(cmd) \notin State
               /\ cpc' \in {"idle", "query", "find", "row"}
               /\ cpc' = "row" => cmd' = <<"delete">>
<1>p. ScriptOK
  BY DEF BaseInv
<1>1. /\ UNCHANGED <<row, flagged, call, created, tests, failures>>
      /\ cpc = "write"
  BY DEF WriteRecord, thread
<1>2. cmd # << >>
  BY <1>1, <1>p DEF ScriptOK
<1>3. CASE Head(cmd) \in State
  BY <1>1, <1>2, <1>3, <1>p, StatesWritten DEF WriteRecord
<1>4. CASE Head(cmd) \notin State
  <2>1. NextStage
    BY <1>4 DEF WriteRecord
  <2> QED
    BY <1>1, <1>2, <1>4, <1>p, <2>1, NextFits
<1> QED
  BY <1>3, <1>4

(* What the UPDATE or DELETE that ends a stage does.                       *)
LEMMA RowStep ==
  ASSUME BaseInv, WriteRow
  PROVE  /\ UNCHANGED <<recs, flagged, call, created, tests>>
         /\ cpc = "row" /\ cpc' \in {"idle", "query", "find", "row"}
         /\ cpc' = "row" => cmd' = <<"delete">>
         /\ Done => Done'
         /\ DOMAIN row' \subseteq DOMAIN row
         /\ \A c \in DOMAIN row' : c # call => row'[c] = row[c]
         /\ failures' = 0 =>
              /\ failures = 0
              /\ \/ Head(cmd) = "delete" /\ call \notin DOMAIN row'
                 \/ /\ Head(cmd) \in State
                    /\ call \in DOMAIN row' => row'[call] = Head(cmd)
         /\ call # Live
<1>p. ScriptOK /\ CommandTypeOK
  BY DEF BaseInv, TypeOK
<1>1. /\ UNCHANGED <<recs, flagged, call, created, tests>>
      /\ cpc = "row" /\ NextStage
  BY DEF WriteRow, thread
<1>2. cmd # << >> /\ Head(cmd) \in State \cup {"delete"}
  BY <1>1, <1>p DEF ScriptOK
<1>3. /\ cpc' \in {"idle", "query", "find", "row"}
      /\ cpc' = "row" => cmd' = <<"delete">>
      /\ cmd = <<"HUNG_UP", "delete">> => cmd' = <<"delete">>
      /\ cmd = <<"delete">> => cpc' = "idle"
  BY <1>1, <1>2, <1>p, NextFits
<1>4. Done => Done'
  BY <1>1, <1>3 DEF Done
<1>5. PICK ok \in BOOLEAN :
        /\ Query(ok)
        /\ row' = IF ~ok THEN row
                  ELSE IF Head(cmd) = "delete"
                  THEN [c \in DOMAIN row \ {call} |-> row[c]]
                  ELSE [c \in DOMAIN row |-> IF c = call THEN Head(cmd) ELSE row[c]]
  BY DEF WriteRow
<1>6. failures' = 0 => failures = 0 /\ ok
  BY <1>p, <1>5, QueryTyped DEF CommandTypeOK
<1>7. /\ DOMAIN row' \subseteq DOMAIN row
      /\ \A c \in DOMAIN row' : c # call => row'[c] = row[c]
  BY <1>5
<1>8. ok => \/ Head(cmd) = "delete" /\ call \notin DOMAIN row'
            \/ /\ Head(cmd) \in State
               /\ call \in DOMAIN row' => row'[call] = Head(cmd)
  BY <1>2, <1>5
<1>9. call # Live
  <2> SUFFICES ASSUME call = Live PROVE FALSE
    OBVIOUS
  <2>1. Head(cmd) = "did"
    BY <1>2, <1>p, LiveParts DEF ScriptOK
  <2> QED
    BY <1>2, <2>1 DEF State
<1> QED
  BY <1>1, <1>3, <1>4, <1>6, <1>7, <1>8, <1>9

(* Before a call's test there is neither record nor row; after it there    *)
(* is one record.                                                          *)
LEMMA CallsStep == BaseInv /\ CallsOK /\ [Next]_vars => CallsOK'
<1> SUFFICES ASSUME BaseInv, CallsOK, [Next]_vars PROVE CallsOK'
  OBVIOUS
<1>n. created \in Nat /\ tests \in Nat
  BY DEF BaseInv, TypeOK, CommandTypeOK
<1>1. ASSUME UNCHANGED <<call, tests>>,
             DOMAIN recs' \subseteq DOMAIN recs,
             \A m \in DOMAIN recs' : recs'[m].call = recs[m].call,
             DOMAIN row' \subseteq DOMAIN row,
             cpc' = cpc \/ cpc' \notin {"push", "insert"}
      PROVE  CallsOK'
  BY <1>1 DEF CallsOK
<1>2. CASE ValidationThread \/ Cleanup
  BY <1>1, <1>2, ThreadStep
<1>3. CASE StartTest
  <2>1. /\ UNCHANGED <<recs, row>> /\ tests' = tests + 1
        /\ call' = tests + 1 \/ call' = Live
    BY <1>3 DEF StartTest
  <2>2. /\ \A m \in DOMAIN recs : recs[m].call \in Nat
        /\ \A c \in DOMAIN row : c \in Nat
    BY <1>n DEF BaseInv, TypeOK, RecordsTypeOK, Record, CallIds
  <2> QED
    BY <1>n, <2>1, <2>2 DEF CallsOK, Live
<1>4. CASE PushRecord
  <2>1. /\ UNCHANGED <<row, call, tests>> /\ cpc = "push" /\ cpc' = "insert"
        /\ created' = created + 1
        /\ recs' = [m \in DOMAIN recs \cup {created'} |->
                      IF m = created' THEN NewRecord(call) ELSE recs[m]]
    BY <1>4 DEF PushRecord
  <2>2. NewRecord(call).call = call
    BY DEF NewRecord
  <2>4. \A m \in DOMAIN recs' :
          \/ m = created' /\ recs'[m].call = call
          \/ m \in DOMAIN recs /\ recs'[m].call = recs[m].call
    BY <2>1, <2>2
  <2>5. \A m, n \in DOMAIN recs' :
          recs'[m].call = recs'[n].call /\ recs'[m].call # Live => m = n
    BY <2>1, <2>4 DEF CallsOK
  <2>6. \A m \in DOMAIN recs' : recs'[m].call <= tests
    BY <2>4 DEF CallsOK
  <2> QED
    BY <2>1, <2>5, <2>6 DEF CallsOK
<1>5. CASE InsertRow
  <2>1. /\ UNCHANGED <<recs, call, tests>> /\ cpc = "insert" /\ cpc' = FirstStep(cmd)
        /\ DOMAIN row' \subseteq DOMAIN row \cup {call}
    BY <1>5 DEF InsertRow
  <2>2. cpc' \notin {"push", "insert"}
    BY <2>1, FirstFits DEF BaseInv, ScriptOK
  <2> QED
    BY <2>1, <2>2 DEF CallsOK
<1>6. CASE QueryStage \/ FindRecord \/ CheckTransition
  BY <1>1, <1>6, LookStep
<1>7. CASE WriteRecord
  <2>1. DOMAIN recs' = DOMAIN recs /\ \A m \in DOMAIN recs : recs'[m].call = recs[m].call
    BY <1>7, Written DEF BaseInv, TypeOK
  <2> QED
    BY <1>1, <1>7, <2>1, WriteStep
<1>8. CASE WriteRow
  BY <1>1, <1>8, RowStep
<1>9. CASE UNCHANGED vars
  BY <1>1, <1>9 DEF vars
<1> QED
  BY <1>2, <1>3, <1>4, <1>5, <1>6, <1>7, <1>8, <1>9 DEF Next, Command

(* A record hangs up in the last stage of its test.                        *)
LEMMA HungUpStep == BaseInv /\ PointerInv /\ [Next]_vars => HungUpOK'
<1> SUFFICES ASSUME BaseInv, PointerInv, [Next]_vars PROVE HungUpOK'
  OBVIOUS
<1>p. ScriptOK /\ CallsOK /\ HungUpOK /\ PointerOK /\ RecordsTypeOK
  BY DEF BaseInv, TypeOK, PointerInv
<1>1. ASSUME UNCHANGED <<recs, call>>, Done => Done' PROVE HungUpOK'
  BY <1>1, <1>p DEF HungUpOK
<1>2. CASE ValidationThread \/ Cleanup
  <2>1. Done => Done'
    BY <1>2, ThreadStep DEF Done
  <2> QED
    BY <1>2, <1>p, <2>1, ThreadStep DEF HungUpOK
<1>3. CASE StartTest
  <2>1. recs' = recs /\ (call' = tests + 1 \/ call' = Live)
    BY <1>3 DEF StartTest
  <2>2. \A m \in DOMAIN recs : recs[m].call <= tests /\ recs[m].call \in Nat
    BY <1>p DEF CallsOK, RecordsTypeOK, Record, CallIds
  <2>3. \A m \in DOMAIN recs : recs[m].call # tests + 1
    BY <2>2 DEF BaseInv, TypeOK, CommandTypeOK
  <2> QED
    BY <1>p, <2>1, <2>3 DEF HungUpOK
<1>4. CASE PushRecord
  <2>1. /\ UNCHANGED <<call, cmd>> /\ cpc = "push"
        /\ recs' = [m \in DOMAIN recs \cup {created'} |->
                      IF m = created' THEN NewRecord(call) ELSE recs[m]]
    BY <1>4 DEF PushRecord
  <2>2. NewRecord(call).state = "ORIGINATED"
    BY DEF NewRecord
  <2>3. \A m \in DOMAIN recs' :
          \/ recs'[m].state = "ORIGINATED"
          \/ m \in DOMAIN recs /\ recs'[m] = recs[m]
    BY <2>1, <2>2
  <2>4. Done => Done'
    BY <2>1 DEF Done
  <2> QED
    BY <1>p, <2>1, <2>3, <2>4 DEF HungUpOK
<1>5. CASE InsertRow
  <2>1. UNCHANGED <<recs, call, cmd>> /\ cpc = "insert"
    BY <1>5 DEF InsertRow
  <2> QED
    BY <1>1, <2>1 DEF Done
<1>6. CASE QueryStage \/ FindRecord \/ CheckTransition
  <2>1. UNCHANGED <<recs, call>> /\ cpc \in {"query", "find", "check"}
    BY <1>6, LookStep
  <2> QED
    BY <1>1, <1>p, <2>1, NotDone
<1>7. CASE WriteRecord
  <2>1. /\ call' = call /\ cpc = "write" /\ ~Done
        /\ recs[ptr].call = call
    BY <1>7, <1>p, WriteStep, NotDone DEF PointerOK
  <2>2. /\ DOMAIN recs' = DOMAIN recs
        /\ \A m \in DOMAIN recs :
             /\ recs'[m].call = recs[m].call
             /\ recs'[m].state = IF m = ptr /\ Head(cmd) \in State
                                 THEN Head(cmd) ELSE recs[m].state
    BY <1>7, <1>p, Written
  <2>3. CASE /\ Head(cmd) \in {"RINGING", "ANSWERED", "HUNG_UP"} /\ call # Live
             /\ cpc' = "row" /\ cmd' = cmd
    <3>1. Head(cmd) = "HUNG_UP" => Done'
      <4>1. cmd \in TestRest /\ cmd # << >>
        BY <1>p, <2>1, <2>3 DEF ScriptOK
      <4> QED
        BY <2>3, <4>1, TestParts DEF Done
    <3> QED
      BY <1>p, <2>1, <2>2, <2>3, <3>1 DEF HungUpOK
  <2>4. CASE Head(cmd) \notin State
    BY <1>p, <2>1, <2>2, <2>4 DEF HungUpOK
  <2> QED
    BY <1>7, <2>3, <2>4, WriteStep
<1>8. CASE WriteRow
  BY <1>1, <1>8, RowStep
<1>9. CASE UNCHANGED vars
  BY <1>1, <1>9 DEF vars, Done
<1> QED
  BY <1>2, <1>3, <1>4, <1>5, <1>6, <1>7, <1>8, <1>9 DEF Next, Command

(* The pointer names a record of the call under test, and nobody drops it. *)
LEMMA PointerStep == BaseInv /\ PointerInv /\ [Next]_vars => PointerOK'
<1> SUFFICES ASSUME BaseInv, PointerInv, [Next]_vars PROVE PointerOK'
  OBVIOUS
<1>p. ScriptOK /\ HungUpOK /\ PointerOK /\ RecordsTypeOK /\ created \in Nat
  BY DEF BaseInv, TypeOK, CommandTypeOK, PointerInv
<1>1. CASE cpc' \notin {"check", "write"}
  BY <1>1 DEF PointerOK
<1>2. CASE ValidationThread \/ Cleanup
  <2>1. UNCHANGED <<cpc, call, ptr>>
    BY <1>2, ThreadStep
  <2>2. SUFFICES ASSUME cpc \in {"check", "write"}
                 PROVE  ptr \in DOMAIN recs' /\ recs'[ptr].call = call
    BY <2>1 DEF PointerOK
  <2>3. ptr \in DOMAIN recs /\ recs[ptr].call = call /\ ~Done
    BY <1>p, <2>2, NotDone DEF PointerOK
  <2>4. recs[ptr].state \notin {"HUNG_UP", "FAILED"}
    BY <1>p, <2>3 DEF HungUpOK
  <2>5. ptr \in DOMAIN recs'
    BY <1>2, <2>3, <2>4, ThreadStep
  <2> QED
    BY <1>2, <2>3, <2>5, ThreadStep
<1>3. CASE QueryStage \/ FindRecord \/ CheckTransition
  <2>1. SUFFICES ASSUME cpc' \in {"check", "write"}
                 PROVE  ptr' \in DOMAIN recs /\ recs[ptr'].call = call
    BY <1>3, LookStep DEF PointerOK
  <2>2. \/ cpc = "find" /\ Find(call) # 0 /\ ptr' = Find(call)
        \/ cpc = "check" /\ ptr' = ptr
    BY <1>3, <2>1, LookStep
  <2>3. CASE cpc = "find" /\ Find(call) # 0 /\ ptr' = Find(call)
    BY <1>p, <2>3, FindsRecord
  <2>4. CASE cpc = "check" /\ ptr' = ptr
    BY <1>p, <2>4 DEF PointerOK
  <2> QED
    BY <2>2, <2>3, <2>4
<1>4. CASE StartTest \/ PushRecord
  BY <1>1, <1>4 DEF StartTest, PushRecord
<1>5. CASE InsertRow
  <2>1. cpc' = FirstStep(cmd)
    BY <1>5 DEF InsertRow
  <2> QED
    BY <1>1, <1>p, <2>1, FirstFits DEF ScriptOK
<1>6. CASE WriteRecord
  BY <1>1, <1>6, WriteStep
<1>7. CASE WriteRow
  BY <1>1, <1>7, RowStep
<1>8. CASE UNCHANGED vars
  BY <1>8, <1>p DEF vars, PointerOK
<1> QED
  BY <1>2, <1>3, <1>4, <1>5, <1>6, <1>7, <1>8 DEF Next, Command

(* In every instance: the pointer find_validation_record returned names a  *)
(* record of the list whenever the command uses it, although the mutex is  *)
(* released in between and the clock may jump at any sleep.                *)
THEOREM PointerStays == Spec => []PointerLive
<1>1. Init => PointerInv
  BY DEF Init, PointerInv, CallsOK, HungUpOK, PointerOK, Live
<1>2. BaseInv /\ PointerInv /\ [Next]_vars => PointerInv'
  BY CallsStep, HungUpStep, PointerStep DEF PointerInv
<1>3. PointerInv => PointerLive
  BY DEF PointerInv, PointerOK, PointerLive
<1> QED
  BY <1>1, <1>2, <1>3, BaseInit, BaseStep, PTL DEF Spec

-----------------------------------------------------------------------------
(* Why the table shows the state of the record.                            *)
(*                                                                         *)
(* A state goes to the record first; the row is behind from that write to  *)
(* the UPDATE, in the step where the command stands between them.          *)

Writing(c) == c = call /\ cpc = "row" /\ Head(cmd) \in State

Shown(n) ==
  recs[n].call \in DOMAIN row /\ recs[n].expected = "RINGING" =>
    recs[n].state = IF Writing(recs[n].call) THEN Head(cmd) ELSE row[recs[n].call]

(* Nobody moves the record of a live call, nor one whose row is not there. *)
Unmoved ==
  \A n \in DOMAIN recs :
    /\ recs[n].expected = "RINGING"
    /\ recs[n].call = Live \/ (cpc = "insert" /\ recs[n].call = call)
    => recs[n].state = "ORIGINATED"

LiveRow == flagged = 0 /\ Live \in DOMAIN row => row[Live] = "ORIGINATED"

ShownInv ==
  /\ Unmoved /\ LiveRow
  /\ failures = 0 /\ flagged = 0 => \A n \in DOMAIN recs : Shown(n)

(* The row and the record move together, or the record is out of sight.    *)
LEMMA ShownStep == BaseInv /\ PointerInv /\ ShownInv /\ [Next]_vars => ShownInv'
<1> SUFFICES ASSUME BaseInv, PointerInv, ShownInv, [Next]_vars PROVE ShownInv'
  OBVIOUS
<1>p. /\ ScriptOK /\ CallsOK /\ PointerOK /\ RecordsTypeOK
      /\ Unmoved /\ LiveRow
      /\ failures = 0 /\ flagged = 0 => \A n \in DOMAIN recs : Shown(n)
  BY DEF BaseInv, TypeOK, PointerInv, ShownInv
<1>d. "delete" \notin State /\ Head(<<"delete">>) = "delete"
  BY DEF State
<1>1. CASE ValidationThread \/ Cleanup
  <2>1. UNCHANGED <<cmd, cpc, call>>
    BY <1>1, ThreadStep
  <2>2. Unmoved'
    BY <1>1, <1>p, <2>1, ThreadStep DEF Unmoved
  <2>3. LiveRow'
    BY <1>1, <1>p, ThreadStep DEF LiveRow
  <2>4. ASSUME failures' = 0, flagged' = 0, NEW n \in DOMAIN recs' PROVE Shown(n)'
    <3>1. failures = 0 /\ flagged = 0 /\ row' = row
      BY <1>1, <2>4, ThreadStep
    <3>2. n \in DOMAIN recs /\ Shown(n)
      BY <1>1, <1>p, <2>4, <3>1, ThreadStep
    <3>3. /\ recs'[n].call = recs[n].call
          /\ recs'[n].expected = "RINGING" =>
               recs'[n].state = recs[n].state /\ recs[n].expected = "RINGING"
      BY <1>1, <2>4, ThreadStep
    <3> QED
      BY <2>1, <3>1, <3>2, <3>3 DEF Shown, Writing
  <2> QED
    BY <2>2, <2>3, <2>4 DEF ShownInv
<1>2. ASSUME UNCHANGED <<recs, row, flagged>>, failures' = 0 => failures = 0,
             cpc # "row", cpc' # "insert", cpc' = "row" => Head(cmd') = "delete"
      PROVE  ShownInv'
  <2>1. Unmoved' /\ LiveRow'
    BY <1>2, <1>p DEF Unmoved, LiveRow
  <2>2. \A n : Shown(n) => Shown(n)'
    BY <1>2, <1>d DEF Shown, Writing
  <2> QED
    BY <1>2, <1>p, <2>1, <2>2 DEF ShownInv
<1>3. CASE StartTest
  BY <1>2, <1>3 DEF StartTest, thread
<1>4. CASE PushRecord
  <2>1. /\ UNCHANGED <<row, flagged, call, cmd, failures>>
        /\ cpc = "push" /\ cpc' = "insert"
        /\ recs' = [m \in DOMAIN recs \cup {created'} |->
                      IF m = created' THEN NewRecord(call) ELSE recs[m]]
    BY <1>4 DEF PushRecord, thread
  <2>2. NewRecord(call).state = "ORIGINATED" /\ NewRecord(call).call = call
    BY DEF NewRecord
  <2>3. \A m \in DOMAIN recs' :
          \/ recs'[m].state = "ORIGINATED" /\ recs'[m].call = call
          \/ m \in DOMAIN recs /\ recs'[m] = recs[m]
    BY <2>1, <2>2
  <2>4. \A m \in DOMAIN recs : recs[m].call = call => call = Live
    BY <1>p, <2>1 DEF CallsOK
  <2>5. Unmoved' /\ LiveRow'
    BY <1>p, <2>1, <2>3, <2>4 DEF Unmoved, LiveRow
  <2>6. call \in DOMAIN row => call = Live
    BY <1>p, <2>1 DEF CallsOK
  <2>7. ASSUME failures' = 0, flagged' = 0, NEW n \in DOMAIN recs' PROVE Shown(n)'
    <3>1. CASE recs'[n].state = "ORIGINATED" /\ recs'[n].call = call
      BY <1>p, <2>1, <2>6, <2>7, <3>1 DEF Shown, Writing, LiveRow
    <3>2. CASE n \in DOMAIN recs /\ recs'[n] = recs[n]
      BY <1>p, <2>1, <2>7, <3>2 DEF Shown, Writing
    <3> QED
      BY <2>3, <3>1, <3>2
  <2> QED
    BY <2>5, <2>7 DEF ShownInv
<1>5. CASE InsertRow
  <2>1. /\ UNCHANGED <<recs, flagged, call, cmd>>
        /\ cpc = "insert" /\ cpc' = FirstStep(cmd)
    BY <1>5 DEF InsertRow, thread
  <2>2. cpc' # "insert" /\ (cpc' = "row" => Head(cmd) = "delete")
    BY <1>p, <2>1, FirstFits DEF ScriptOK
  <2>3. PICK ok \in BOOLEAN :
          /\ Query(ok)
          /\ row' = [c \in DOMAIN row \cup (IF ok THEN {call} ELSE {}) |->
                       IF c \in DOMAIN row THEN row[c] ELSE "ORIGINATED"]
    BY <1>5 DEF InsertRow
  <2>4. failures' = 0 => failures = 0
    BY <2>3, QueryTyped DEF BaseInv, TypeOK, CommandTypeOK
  <2>5. Unmoved' /\ LiveRow'
    BY <1>p, <2>1, <2>2, <2>3 DEF Unmoved, LiveRow
  <2>6. ASSUME failures' = 0, flagged' = 0, NEW n \in DOMAIN recs PROVE Shown(n)'
    <3>1. Shown(n) /\ ~Writing(recs[n].call) /\ ~Writing(recs[n].call)'
      BY <1>p, <1>d, <2>1, <2>2, <2>4, <2>6 DEF Writing
    <3>2. CASE recs[n].call \in DOMAIN row
      BY <2>1, <2>3, <3>1, <3>2 DEF Shown
    <3>3. CASE recs[n].call \notin DOMAIN row
      BY <1>p, <2>1, <2>3, <3>1, <3>3 DEF Shown, Unmoved
    <3> QED
      BY <3>2, <3>3
  <2> QED
    BY <2>1, <2>5, <2>6 DEF ShownInv
<1>6. CASE QueryStage \/ FindRecord \/ CheckTransition
  BY <1>2, <1>6, <1>d, LookStep
<1>7. CASE WriteRecord
  <2>1. /\ UNCHANGED <<row, flagged, call, failures>> /\ cpc = "write"
        /\ ptr \in DOMAIN recs /\ recs[ptr].call = call
    BY <1>7, <1>p, WriteStep DEF PointerOK
  <2>2. /\ DOMAIN recs' = DOMAIN recs
        /\ \A m \in DOMAIN recs :
             /\ recs'[m].call = recs[m].call /\ recs'[m].expected = recs[m].expected
             /\ recs'[m].state = IF m = ptr /\ Head(cmd) \in State
                                 THEN Head(cmd) ELSE recs[m].state
    BY <1>7, <1>p, Written
  <2>3. cpc' # "insert"
    BY <1>7, WriteStep
  <2>4. LiveRow'
    BY <1>p, <2>1 DEF LiveRow
  <2>5. CASE /\ Head(cmd) \in {"RINGING", "ANSWERED", "HUNG_UP"} /\ call # Live
             /\ cpc' = "row" /\ cmd' = cmd
    <3>1. Unmoved'
      BY <1>p, <2>1, <2>2, <2>3, <2>5 DEF Unmoved
    <3>2. ASSUME failures' = 0, flagged' = 0, NEW n \in DOMAIN recs PROVE Shown(n)'
      <4>1. CASE n = ptr
        BY <2>1, <2>2, <2>5, <4>1 DEF Shown, Writing, State
      <4>2. CASE n # ptr
        <5>1. recs[n].call # call
          BY <1>p, <2>1, <2>5, <4>2 DEF CallsOK
        <5>2. Shown(n)
          BY <1>p, <2>1, <3>2
        <5> QED
          BY <2>1, <2>2, <4>2, <5>1, <5>2 DEF Shown, Writing
      <4> QED
        BY <4>1, <4>2
    <3> QED
      BY <2>2, <2>4, <3>1, <3>2 DEF ShownInv
  <2>6. CASE Head(cmd) \notin State /\ (cpc' = "row" => cmd' = <<"delete">>)
    <3>1. Unmoved'
      BY <1>p, <2>1, <2>2, <2>3, <2>6 DEF Unmoved
    <3>2. ASSUME failures' = 0, flagged' = 0, NEW n \in DOMAIN recs PROVE Shown(n)'
      <4>1. Shown(n)
        BY <1>p, <2>1, <3>2
      <4> QED
        BY <1>d, <2>1, <2>2, <2>6, <4>1 DEF Shown, Writing
    <3> QED
      BY <2>2, <2>4, <3>1, <3>2 DEF ShownInv
  <2> QED
    BY <1>7, <2>5, <2>6, WriteStep
<1>8. CASE WriteRow
  <2>1. /\ UNCHANGED <<recs, flagged, call>> /\ cpc = "row" /\ call # Live
        /\ cpc' # "insert" /\ (cpc' = "row" => cmd' = <<"delete">>)
        /\ DOMAIN row' \subseteq DOMAIN row
        /\ \A c \in DOMAIN row' : c # call => row'[c] = row[c]
    BY <1>8, RowStep
  <2>2. Unmoved' /\ LiveRow'
    BY <1>p, <2>1 DEF Unmoved, LiveRow
  <2>3. ASSUME failures' = 0, flagged' = 0, NEW n \in DOMAIN recs PROVE Shown(n)'
    <3>1. Shown(n) /\ ~Writing(recs[n].call)'
      BY <1>8, <1>p, <1>d, <2>1, <2>3, RowStep DEF Writing
    <3>2. CASE recs[n].call # call
      BY <2>1, <3>1, <3>2 DEF Shown, Writing
    <3>3. CASE recs[n].call = call
      <4>1. \/ call \notin DOMAIN row'
            \/ Head(cmd) \in State /\ (call \in DOMAIN row' => row'[call] = Head(cmd))
        BY <1>8, <2>3, RowStep
      <4> QED
        BY <2>1, <3>1, <3>3, <4>1 DEF Shown, Writing
    <3> QED
      BY <3>2, <3>3
  <2> QED
    BY <2>1, <2>2, <2>3 DEF ShownInv
<1>9. CASE UNCHANGED vars
  BY <1>9, <1>p DEF vars, ShownInv, Unmoved, LiveRow, Shown, Writing
<1> QED
  BY <1>1, <1>3, <1>4, <1>5, <1>6, <1>7, <1>8, <1>9 DEF Next, Command

(* In every instance: while queries work, nothing was reported of a call   *)
(* and the validation thread hung up none, call_validations shows the      *)
(* state of the call's latest record whenever no command is between its    *)
(* write to the record and its write to the row.                           *)
THEOREM RowsShow == Spec => []RowShowsRecord
<1>1. Init => PointerInv /\ ShownInv
  BY DEF Init, PointerInv, CallsOK, HungUpOK, PointerOK, Live, ShownInv, Unmoved, LiveRow
<1>2. BaseInv /\ PointerInv /\ [Next]_vars => PointerInv'
  BY CallsStep, HungUpStep, PointerStep DEF PointerInv
<1>3. BaseInv /\ PointerInv /\ ShownInv /\ [Next]_vars => ShownInv'
  BY ShownStep
<1>4. ShownInv => RowShowsRecord
  BY DEF ShownInv, Shown, Writing, RowShowsRecord, NewRecord
<1> QED
  BY <1>1, <1>2, <1>3, <1>4, BaseInit, BaseStep, PTL DEF Spec

=============================================================================

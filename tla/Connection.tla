---------------------------- MODULE Connection ----------------------------
(***************************************************************************)
(* The database layer of src/db/database_pg.c: one connection per process, *)
(* a mutex held from the check of the connection to the answer of the      *)
(* statement, and PQreset when the connection is known to be lost.  A      *)
(* statement is therefore one step, whichever thread sends it; what one    *)
(* thread's statements do to another's is what this module keeps: they     *)
(* share the session, and with it the transaction that is open in it.      *)
(*                                                                         *)
(* The transaction is PostgreSQL's: a statement that fails in it aborts    *)
(* it, every later one is refused, and COMMIT then rolls back.  It ends    *)
(* with the session.  A statement whose answer is lost on the way back is  *)
(* taken as not executed.                                                  *)
(***************************************************************************)
EXTENDS Naturals

CONSTANTS
  Rows,        \* rows the process may write
  Old,         \* those of them that may be there before
  MaxCuts,     \* bound: connections lost
  MaxErrors    \* bound: statements refused by the database

ASSUME ConnectionAssumption == Old \subseteq Rows /\ MaxCuts \in Nat /\ MaxErrors \in Nat

VARIABLES
  server,      \* the database takes connections
  conn,        \* PQstatus(db->conn): "cut" is lost and not noticed yet
  tx,          \* the transaction of the session
  table,       \* rows that are committed
  pending,     \* rows written in the open transaction
  undone,      \* why transactions that were open did not commit
  cuts, errors

dbvars == <<server, conn, tx, table, pending, undone, cuts, errors>>

ConnectionTypeOK ==
  /\ server \in BOOLEAN
  /\ conn \in {"none", "ok", "cut", "bad", "closed"}
  /\ tx \in {"none", "open", "aborted"}
  /\ table \subseteq Rows /\ pending \subseteq Rows
  /\ undone \subseteq {"cut", "error"}
  /\ cuts \in 0 .. MaxCuts /\ errors \in 0 .. MaxErrors
  /\ conn # "ok" => tx = "none"
  /\ tx # "open" => pending = {}

ConnectionInit ==
  /\ server \in BOOLEAN /\ conn = "none" /\ tx = "none"
  /\ table \in SUBSET Old /\ pending = {} /\ undone = {}
  /\ cuts = 0 /\ errors = 0

-----------------------------------------------------------------------------

(* db_reconnect, with three tries of PQreset, before every statement *)
Arrives == conn = "ok" \/ (conn = "bad" /\ server)

(* the reset connection is a new session, with nothing open *)
Accepted(insert) ==
  /\ Arrives /\ tx # "aborted"
  /\ conn' = "ok"
  /\ IF tx = "open"
     THEN pending' = pending \cup insert /\ UNCHANGED table
     ELSE table' = table \cup insert /\ UNCHANGED pending
  /\ UNCHANGED <<server, tx, undone, cuts, errors>>

(* refused by the database; in a transaction, this and all that follows *)
Refused ==
  /\ Arrives
  /\ conn' = "ok" /\ pending' = {}
  /\ tx' = IF tx = "none" THEN "none" ELSE "aborted"
  /\ undone' = IF tx = "open" THEN undone \cup {"error"} ELSE undone
  /\ UNCHANGED <<server, table, cuts>>

(* PQexec finds the connection gone, or no reset got through *)
Lost ==
  /\ conn \in {"cut", "bad"} /\ ~Arrives
  /\ conn' = "bad"
  /\ UNCHANGED <<server, tx, table, pending, undone, cuts, errors>>

(* What db_query and db_execute do of a statement that writes these rows.  *)
(* The database may refuse it; it must in an aborted transaction.          *)
Statement(insert, ok) ==
  \/ ok /\ Accepted(insert)
  \/ ~ok /\ Lost
  \/ ~ok /\ Refused /\ tx = "aborted" /\ UNCHANGED errors
  \/ ~ok /\ Refused /\ tx # "aborted" /\ errors < MaxErrors /\ errors' = errors + 1

(* a statement the database cannot but refuse *)
Misfit == Lost \/ (Refused /\ UNCHANGED errors)

Begin ==
  \/ Lost
  \/ /\ Arrives
     /\ conn' = "ok" /\ tx' = IF tx = "none" THEN "open" ELSE tx
     /\ UNCHANGED <<server, table, pending, undone, cuts, errors>>

(* of an aborted transaction, a ROLLBACK; of none, a warning *)
Commit ==
  \/ Lost
  \/ /\ Arrives
     /\ conn' = "ok" /\ tx' = "none"
     /\ table' = table \cup pending /\ pending' = {}
     /\ UNCHANGED <<server, undone, cuts, errors>>

-----------------------------------------------------------------------------

(* the session ends: PQfinish, the process, or the connection *)
EndSession(status) ==
  /\ conn' = status /\ tx' = "none" /\ pending' = {}
  /\ undone' = IF tx = "none" THEN undone ELSE undone \cup {"cut"}
  /\ UNCHANGED table

(* db_init; a connection that is refused leaves no database *)
Connect ==
  /\ server /\ conn = "none" /\ conn' = "ok"
  /\ UNCHANGED <<server, tx, table, pending, undone, cuts, errors>>

(* db_close *)
Close ==
  /\ EndSession("closed")
  /\ UNCHANGED <<server, cuts, errors>>

(* the connection is lost, with or without the server behind it *)
Cut ==
  /\ conn = "ok" /\ cuts < MaxCuts
  /\ EndSession("cut")
  /\ server' \in BOOLEAN /\ cuts' = cuts + 1
  /\ UNCHANGED errors

ServerStarts ==
  /\ ~server /\ server' = TRUE
  /\ UNCHANGED <<conn, tx, table, pending, undone, cuts, errors>>
=============================================================================

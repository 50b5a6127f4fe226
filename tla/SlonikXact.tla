---------------------------- MODULE SlonikXact ----------------------------
(***************************************************************************)
(* slonik's admin connection to one node (slonik/dbutil.c): the client    *)
(* flag adminfo->have_xact, kept by db_begin_xact / db_commit_xact /      *)
(* db_rollback_xact and the db_exec_* wrappers that open a transaction     *)
(* on first use, against the server session's transaction state.          *)
(*                                                                         *)
(* The server follows PostgreSQL: a failed statement aborts the open      *)
(* transaction and every later statement fails until it ends; COMMIT of   *)
(* an aborted transaction rolls back and still reports COMMAND_OK; COMMIT *)
(* may itself fail (a deferred constraint) and end the transaction; BEGIN *)
(* inside a transaction and COMMIT outside one only warn.  The connection  *)
(* may break at any time, rolling back the open transaction; the answer   *)
(* to a COMMIT the server carried out may be what is lost.                 *)
(*                                                                         *)
(* slonik's own statements (slonik.c) are not in the sources: any order of *)
(* calls is allowed, each command run at most once.                        *)
(***************************************************************************)
EXTENDS Naturals, FiniteSets

CONSTANTS
  Cmd,      \* the SQL commands a script runs, model values
  ReqCmd    \* db_check_requirements' three statements, in order

VARIABLES
  conn,        \* adminfo->dbconn: "none", "ok", or "broken" (socket lost)
  have_xact,   \* adminfo->have_xact
  srv,         \* server session: "idle", "inxact", "aborted"
  work,        \* commands that succeeded in the open server transaction
  committed,   \* commands whose effect is durable
  ran,         \* commands already passed to a db_exec_* call
  chk          \* the next statement of a running db_check_requirements, or 0

vars == <<conn, have_xact, srv, work, committed, ran, chk>>

Init ==
  /\ conn = "none" /\ have_xact = FALSE /\ srv = "idle"
  /\ work = {} /\ committed = {} /\ ran = {} /\ chk = 0

\* The server session ends (PQfinish, or the socket is lost): any open
\* transaction is rolled back.
SessionEnds == srv' = "idle" /\ work' = {}

-----------------------------------------------------------------------------
\* db_connect: PQconnectdb; NULL or a bad status returns -1.
db_connect ==
  /\ chk = 0 /\ conn = "none"
  /\ \E ok \in BOOLEAN : conn' = IF ok THEN "ok" ELSE "none"
  /\ UNCHANGED <<have_xact, srv, work, committed, ran, chk>>

\* The socket breaks; the server rolls the session's transaction back.
ConnectionLost ==
  /\ conn = "ok"
  /\ conn' = "broken"
  /\ SessionEnds
  /\ UNCHANGED <<have_xact, committed, ran, chk>>

\* db_begin_xact as the db_exec_* wrappers call it, then PQexec of command
\* c.  BEGIN is sent only when have_xact is FALSE and sets it on success.
\* The command fails on a broken socket or an aborted transaction, runs in
\* the transaction if one is open on the server, and commits by itself if
\* none is.  A failure inside a transaction aborts it.  The wrappers differ
\* only in the result they accept (evcommand also wants exactly one row)
\* and in what they return, which changes no state here.
Exec(c) ==
  /\ conn # "none" /\ c \notin ran
  /\ ran' = ran \cup {c}
  /\ LET begun == have_xact \/ (conn = "ok" /\ srv # "aborted")
         s0    == IF ~have_xact /\ srv = "idle" THEN "inxact" ELSE srv
     IN IF ~begun
        THEN UNCHANGED <<have_xact, srv, work, committed>>
        ELSE /\ have_xact' = TRUE
             /\ \/ /\ conn = "broken" \/ s0 = "aborted"
                   /\ srv' = s0 /\ UNCHANGED <<work, committed>>
                \/ /\ conn = "ok" /\ s0 = "inxact"
                   /\ \E ok \in BOOLEAN :
                        /\ srv' = IF ok THEN "inxact" ELSE "aborted"
                        /\ work' = IF ok THEN work \cup {c} ELSE work
                   /\ UNCHANGED committed
                \/ /\ conn = "ok" /\ s0 = "idle"
                   /\ committed' = committed \cup {c}
                   /\ UNCHANGED <<srv, work>>
  /\ UNCHANGED conn

db_exec_command(c) == chk = 0 /\ Exec(c) /\ UNCHANGED chk
db_exec_select(c) == chk = 0 /\ Exec(c) /\ UNCHANGED chk
db_exec_evcommand(c) == chk = 0 /\ Exec(c) /\ UNCHANGED chk

\* db_get_nodeid, db_get_version and db_check_namespace call db_begin_xact
\* and then db_exec_select: they leave the transaction open.
db_get_nodeid(c) == db_exec_select(c)
db_get_version(c) == db_exec_select(c)
db_check_namespace(c) == db_exec_select(c)

\* db_begin_xact called on its own: BEGIN unless have_xact is set.
db_begin_xact ==
  /\ chk = 0 /\ conn # "none" /\ ~have_xact
  /\ conn = "ok" /\ srv = "idle"
  /\ have_xact' = TRUE /\ srv' = "inxact"
  /\ UNCHANGED <<conn, work, committed, ran, chk>>

\* Mutant: have_xact cleared only after the COMMIT succeeded.
KeptOnCommitFailure(rc) == rc = "fail"

\* db_commit_xact clears have_xact before it sends COMMIT.
HaveXactAfterCommit(rc) == FALSE

\* db_commit_xact: without a transaction it returns 0 and changes nothing;
\* otherwise COMMIT, and only PGRES_COMMAND_OK is checked.  The server
\* commits a running transaction, or fails the COMMIT (a deferred
\* constraint) and rolls back, or commits and the answer is lost; an
\* aborted transaction is rolled back and COMMAND_OK returned.
db_commit_xact ==
  /\ chk = 0 /\ conn # "none" /\ have_xact
  /\ \E outcome \in {"done", "error", "answerLost"} :
       LET rc == IF conn = "broken" \/ outcome # "done" THEN "fail" ELSE "ok"
           durable == conn = "ok" /\ srv = "inxact" /\ outcome # "error"
       IN /\ conn = "broken" => outcome = "done"
          /\ srv # "inxact" => outcome = "done"
          /\ have_xact' = HaveXactAfterCommit(rc)
          /\ committed' = IF durable THEN committed \cup work ELSE committed
          /\ conn' = IF outcome = "answerLost" THEN "broken" ELSE conn
          /\ SessionEnds
  /\ UNCHANGED <<ran, chk>>

\* db_rollback_xact: a no-op without a transaction; otherwise clears
\* have_xact and sends ROLLBACK.
RollbackEffect ==
  /\ have_xact' = FALSE
  /\ SessionEnds

db_rollback_xact ==
  /\ chk = 0 /\ conn # "none" /\ have_xact
  /\ RollbackEffect
  /\ UNCHANGED <<conn, committed, ran, chk>>

DisconnectRollsBack == have_xact

\* db_disconnect: rolls back an open transaction, then PQfinish.
db_disconnect ==
  /\ chk = 0 /\ conn # "none"
  /\ IF DisconnectRollsBack THEN RollbackEffect ELSE SessionEnds /\ UNCHANGED have_xact
  /\ conn' = "none"
  /\ UNCHANGED <<committed, ran, chk>>

\* db_check_requirements: db_begin_xact, then the select for PL/pgSQL and
\* the loads of $libdir/xxid and $libdir/slony1_funcs; it returns -1 at
\* the first statement that fails (or when the select finds no row),
\* leaving the transaction open.  Statement i is ReqCmd[i].
CheckRequirementsStart ==
  /\ chk = 0 /\ conn # "none" /\ ReqCmd[1] \notin ran
  /\ chk' = 1
  /\ UNCHANGED <<conn, have_xact, srv, work, committed, ran>>

\* A statement succeeded when its effect is in the transaction (or durable).
Succeeded(c) == c \in work' \/ c \in committed'

CheckRequirementsStep ==
  /\ chk \in 1..3
  /\ Exec(ReqCmd[chk])
  /\ \E found \in BOOLEAN :
       chk' = IF Succeeded(ReqCmd[chk]) /\ chk < 3 /\ (chk = 1 => found)
              THEN chk + 1 ELSE 0

\* slonik runs one statement at a time: every call but ConnectionLost waits
\* for a running db_check_requirements (chk = 0 in its guard).
Next ==
  \/ db_connect \/ ConnectionLost
  \/ db_begin_xact
  \/ \E c \in Cmd : \/ db_exec_command(c) \/ db_exec_select(c) \/ db_exec_evcommand(c)
                   \/ db_get_nodeid(c) \/ db_get_version(c) \/ db_check_namespace(c)
  \/ db_commit_xact \/ db_rollback_xact \/ db_disconnect
  \/ CheckRequirementsStart \/ CheckRequirementsStep

Spec == Init /\ [][Next]_vars

-----------------------------------------------------------------------------
(* Properties.                                                            *)

\* While the connection is up, have_xact is TRUE exactly when the server
\* session has a transaction block open (running or aborted): db_begin_xact
\* is skipped only inside one, and after db_commit_xact, even a failed one,
\* slonik sends BEGIN again.
HaveXactTracksServer == conn = "ok" => (have_xact <=> srv # "idle")


=============================================================================

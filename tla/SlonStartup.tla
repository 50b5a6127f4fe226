---------------------------- MODULE SlonStartup ----------------------------
(***************************************************************************)
(* How slon comes to know the configuration of its node, and keeps it      *)
(* current, while administrators change it concurrently.                   *)
(*                                                                         *)
(* slon main (slon.c) connects to the local database, asks for the local   *)
(* node id (db_getLocalNodeId) and checks the schema and module versions   *)
(* (db_checkSchemaVersion, both in slon/dbutils.c).  In the worker child   *)
(* it then opens one SERIALIZABLE transaction and reads sl_node, sl_path,  *)
(* sl_listen, sl_set and sl_subscribe, and the highest local ev_seqno      *)
(* (rtcfg_lastevent), rolls back and starts its threads.  From then on the *)
(* local listener thread (not among the sources) applies every local       *)
(* event with ev_seqno > rtcfg_lastevent to the runtime configuration.     *)
(*                                                                         *)
(* Administrative transactions (slonik's stored procedures, not among the  *)
(* sources) change one configuration table and call createEvent in the    *)
(* same transaction; createEvent (slony1_funcs.c) locks sl_event in        *)
(* EXCLUSIVE mode before it draws nextval(sl_event_seq).  SYNC             *)
(* transactions call createEvent alone.                                   *)
(*                                                                         *)
(* Table contents are abstracted to the change that wrote them last: the   *)
(* value of a table is the ev_seqno of the event created with its last     *)
(* change, 0 for the contents it had before.  sl_event holds the           *)
(* committed events in commit order, so a snapshot is a prefix of it.      *)
(* Every query of the startup may fail (lost connection, missing schema):  *)
(* slon_exit(-1) ends the process, and the watchdog parent with it.        *)
(***************************************************************************)
EXTENDS Integers, Sequences, SequencesExt, FiniteSets

CONSTANTS
  Admin,          \* database sessions running administrative transactions
  ChangedTables,  \* the configuration tables they change
  NodeIds,        \* last_value of sl_local_node_id the database may hold
  Versions,       \* slonyVersion() / getModuleVersion() the database may return
  SLONY_I_VERSION_STRING,
  MaxEvents       \* bound on values drawn from sl_event_seq

\* The reads of the startup transaction, in the order of slon.c main.
LoadOrder == <<"sl_node", "sl_path", "sl_listen", "sl_set", "sl_subscribe">>
Tables == {LoadOrder[i] : i \in 1..Len(LoadOrder)}

ASSUME ChangedTables \subseteq Tables

\* A SYNC event changes no table.
SYNC == "SYNC"
NoAdmin == "none"
NoSnapshot == -1

Phase == {"connect", "nodeid", "schema", "begin", "load", "lastevent",
          "rollback", "running", "exited"}

VARIABLES
  db,          \* what the local database holds: [nodeId, schema, module]
  phase,       \* where slon main is
  loadIdx,     \* the next LoadOrder read
  snapLen,     \* the prefix of sl_event the startup snapshot sees
  nodeid,      \* rtcfg_nodeid
  rtcfg,       \* the runtime configuration: table -> change it reflects
  lastevent,   \* rtcfg_lastevent, then the listener's last local event
  admin,       \* session -> [pc, tbl, seqno] of its open transaction
  eventLock,   \* holder of the EXCLUSIVE lock on sl_event
  eventSeq,    \* next value of sl_event_seq
  sl_event     \* committed events [seqno, tbl], in commit order

vars == <<db, phase, loadIdx, snapLen, nodeid, rtcfg, lastevent, admin,
          eventLock, eventSeq, sl_event>>
slonVars == <<phase, loadIdx, snapLen, nodeid, rtcfg, lastevent>>
adminVars == <<admin, eventLock, eventSeq, sl_event>>

Idle == [pc |-> "idle", tbl |-> SYNC, seqno |-> 0]

TypeOK ==
  /\ db \in [nodeId : NodeIds, schema : Versions, module : Versions]
  /\ phase \in Phase
  /\ loadIdx \in 1..Len(LoadOrder)
  /\ snapLen \in {NoSnapshot} \cup 0..MaxEvents
  /\ nodeid \in NodeIds \cup {-1}
  /\ rtcfg \in [Tables -> 0..MaxEvents]
  /\ lastevent \in -1..MaxEvents
  /\ admin \in [Admin -> [pc : {"idle", "changed", "evented"},
                          tbl : ChangedTables \cup {SYNC}, seqno : 0..MaxEvents]]
  /\ eventLock \in Admin \cup {NoAdmin}
  /\ eventSeq \in 1..(MaxEvents + 1)
  /\ sl_event \in Seq([seqno : 1..MaxEvents, tbl : ChangedTables \cup {SYNC}])

-----------------------------------------------------------------------------
(* What a set of committed events says.                                    *)

\* The contents of table t after the events evs, applied in order.
LastChange(evs, t) ==
  LET ix == {i \in 1..Len(evs) : evs[i].tbl = t}
  IN  IF ix = {} THEN 0 ELSE evs[CHOOSE i \in ix : \A j \in ix : j <= i].seqno

ConfigOf(evs) == [t \in Tables |-> LastChange(evs, t)]

\* select coalesce(max(ev_seqno), -1) from sl_event where ev_origin = node
MaxSeqno(evs) ==
  IF evs = <<>> THEN -1
  ELSE LET s == {evs[i].seqno : i \in 1..Len(evs)} IN CHOOSE m \in s : \A n \in s : n <= m

\* Mutant: every statement reads the latest committed state.
CurrentView(n) == sl_event

\* The startup transaction is SERIALIZABLE: each of its queries reads the
\* snapshot of the first, the first n committed events.
StartupView(n) == SubSeq(sl_event, 1, n)

-----------------------------------------------------------------------------
(* slon/dbutils.c.                                                         *)

\* db_getLocalNodeId: -1 when the select fails (or returns other than one
\* row), else last_value of sl_local_node_id.
db_getLocalNodeId(ok) == IF ok THEN db.nodeId ELSE -1

\* Mutant: the module check overwrites the schema check's result.
checkSchemaVersionModuleOnly(ok1, ok2) ==
  IF ~ok1 \/ ~ok2 \/ db.module # SLONY_I_VERSION_STRING THEN -1 ELSE 0

\* db_checkSchemaVersion: a failed select returns -1 at once; a wrong
\* version sets retval = -1 and goes on to the next check.
db_checkSchemaVersion(ok1, ok2) ==
  LET schema == IF db.schema # SLONY_I_VERSION_STRING THEN -1 ELSE 0
  IN  CASE ~ok1 -> -1
        [] ~ok2 -> -1
        [] db.module # SLONY_I_VERSION_STRING -> -1
        [] OTHER -> schema

-----------------------------------------------------------------------------
(* slon main.  Each step is one query with its error branch.               *)

Exit == phase' = "exited" /\ UNCHANGED <<loadIdx, snapLen, nodeid, rtcfg, lastevent>>

Go(p) == phase' = p

\* PQconnectdb(rtcfg_conninfo); NULL or not CONNECTION_OK exits.
StartupConnect ==
  /\ phase = "connect"
  /\ UNCHANGED <<db, adminVars>>
  /\ \/ Go("nodeid") /\ UNCHANGED <<loadIdx, snapLen, nodeid, rtcfg, lastevent>>
     \/ Exit

\* rtcfg_nodeid = db_getLocalNodeId(startup_conn); "Node is not
\* initialized properly" when it is negative.
StartupNodeId ==
  /\ phase = "nodeid"
  /\ UNCHANGED <<db, adminVars>>
  /\ \E ok \in BOOLEAN :
       LET id == db_getLocalNodeId(ok)
       IN  IF id < 0 THEN Exit
           ELSE Go("schema") /\ nodeid' = id
                /\ UNCHANGED <<loadIdx, snapLen, rtcfg, lastevent>>

\* db_checkSchemaVersion(startup_conn) < 0 exits.
StartupCheckSchema ==
  /\ phase = "schema"
  /\ UNCHANGED <<db, adminVars>>
  /\ \E ok1, ok2 \in BOOLEAN :
       IF db_checkSchemaVersion(ok1, ok2) < 0 THEN Exit
       ELSE Go("begin") /\ UNCHANGED <<loadIdx, snapLen, nodeid, rtcfg, lastevent>>

\* "start transaction; set transaction isolation level serializable;"
StartupBegin ==
  /\ phase = "begin"
  /\ UNCHANGED <<db, adminVars>>
  /\ \/ Go("load") /\ UNCHANGED <<loadIdx, snapLen, nodeid, rtcfg, lastevent>>
     \/ Exit

\* One of the configuration selects, stored into the runtime
\* configuration; the first one takes the snapshot.
StartupLoad ==
  /\ phase = "load"
  /\ UNCHANGED <<db, adminVars>>
  /\ \/ LET snap == IF snapLen = NoSnapshot THEN Len(sl_event) ELSE snapLen
            t    == LoadOrder[loadIdx]
        IN  /\ snapLen' = snap
            /\ rtcfg' = [rtcfg EXCEPT ![t] = LastChange(StartupView(snap), t)]
            /\ IF loadIdx = Len(LoadOrder)
               THEN Go("lastevent") /\ UNCHANGED loadIdx
               ELSE loadIdx' = loadIdx + 1 /\ UNCHANGED phase
            /\ UNCHANGED <<nodeid, lastevent>>
     \/ Exit

\* Mutant: the last event selected outside the startup snapshot.
StartupLastEventUnsnapshotted ==
  /\ phase = "lastevent"
  /\ UNCHANGED <<db, adminVars>>
  /\ \/ Go("rollback") /\ lastevent' = MaxSeqno(sl_event)
        /\ UNCHANGED <<loadIdx, snapLen, nodeid, rtcfg>>
     \/ Exit

\* "Remember the last known local event sequence"
StartupLastEvent ==
  /\ phase = "lastevent"
  /\ UNCHANGED <<db, adminVars>>
  /\ \/ Go("rollback") /\ lastevent' = MaxSeqno(StartupView(snapLen))
        /\ UNCHANGED <<loadIdx, snapLen, nodeid, rtcfg>>
     \/ Exit

\* "rollback transaction;", PQfinish(startup_conn), start the threads.
StartupRollback ==
  /\ phase = "rollback"
  /\ UNCHANGED <<db, adminVars>>
  /\ \/ Go("running") /\ UNCHANGED <<loadIdx, snapLen, nodeid, rtcfg, lastevent>>
     \/ Exit

-----------------------------------------------------------------------------
(* The local listener thread: after startup it selects the local events    *)
(* with ev_seqno > its last event, applies them in ev_seqno order and      *)
(* remembers the highest.                                                  *)
LocalListenerPoll ==
  LET new  == {sl_event[i] : i \in {i \in 1..Len(sl_event) : sl_event[i].seqno > lastevent}}
      todo == SetToSortSeq(new, LAMBDA e, f : e.seqno < f.seqno)
  IN  /\ phase = "running"
      /\ new # {}
      /\ UNCHANGED <<db, adminVars>>
      /\ rtcfg' = [t \in Tables |-> IF \E e \in new : e.tbl = t
                                     THEN LastChange(todo, t) ELSE rtcfg[t]]
      /\ lastevent' = MaxSeqno(todo)
      /\ UNCHANGED <<phase, loadIdx, snapLen, nodeid>>

-----------------------------------------------------------------------------
(* The administrative and SYNC transactions on the local node.             *)

\* The stored procedure updates its configuration table; the row lock
\* makes a second writer of the same table wait for the first to end.
AdminChange(a, t) ==
  /\ admin[a].pc = "idle"
  /\ t # SYNC => \A b \in Admin \ {a} : admin[b].pc = "idle" \/ admin[b].tbl # t
  /\ admin' = [admin EXCEPT ![a] = [pc |-> "changed", tbl |-> t, seqno |-> 0]]
  /\ UNCHANGED <<db, slonVars, eventLock, eventSeq, sl_event>>

\* Mutant: the INSERT plan without the LOCK TABLE.
EventLockIgnored(a) == TRUE

\* LOCK TABLE sl_event IN EXCLUSIVE MODE: free or already held by a.
EventLockFree(a) == eventLock \in {NoAdmin, a}

\* _Slony_I_createEvent: lock sl_event, insert with nextval(sl_event_seq).
createEvent(a) ==
  /\ admin[a].pc = "changed"
  /\ eventSeq <= MaxEvents
  /\ EventLockFree(a)
  /\ admin' = [admin EXCEPT ![a].pc = "evented", ![a].seqno = eventSeq]
  /\ eventLock' = a
  /\ eventSeq' = eventSeq + 1
  /\ UNCHANGED <<db, slonVars, sl_event>>

Release(a) == eventLock' = IF eventLock = a THEN NoAdmin ELSE eventLock

AdminCommit(a) ==
  /\ admin[a].pc = "evented"
  /\ sl_event' = Append(sl_event, [seqno |-> admin[a].seqno, tbl |-> admin[a].tbl])
  /\ admin' = [admin EXCEPT ![a] = Idle]
  /\ Release(a)
  /\ UNCHANGED <<db, slonVars, eventSeq>>

\* An error or ROLLBACK; a sequence value drawn stays used.
AdminAbort(a) ==
  /\ admin[a].pc # "idle"
  /\ admin' = [admin EXCEPT ![a] = Idle]
  /\ Release(a)
  /\ UNCHANGED <<db, slonVars, eventSeq, sl_event>>

-----------------------------------------------------------------------------
Init ==
  /\ db \in [nodeId : NodeIds, schema : Versions, module : Versions]
  /\ phase = "connect"
  /\ loadIdx = 1
  /\ snapLen = NoSnapshot
  /\ nodeid = -1
  /\ rtcfg = [t \in Tables |-> 0]
  /\ lastevent = -1
  /\ admin = [a \in Admin |-> Idle]
  /\ eventLock = NoAdmin
  /\ eventSeq = 1
  /\ sl_event = <<>>

Startup ==
  \/ StartupConnect \/ StartupNodeId \/ StartupCheckSchema \/ StartupBegin
  \/ StartupLoad \/ StartupLastEvent \/ StartupRollback

Next ==
  \/ Startup
  \/ LocalListenerPoll
  \/ \E a \in Admin :
       \/ \E t \in ChangedTables \cup {SYNC} : AdminChange(a, t)
       \/ createEvent(a) \/ AdminCommit(a) \/ AdminAbort(a)

\* slon main runs its startup to the end, and the local listener polls
\* (on NOTIFY or its timeout) whenever events are waiting.  The
\* administrative sessions need no fairness.
Fairness == WF_vars(Startup) /\ WF_vars(LocalListenerPoll)

Spec == Init /\ [][Next]_vars /\ Fairness

-----------------------------------------------------------------------------
(* Properties.                                                            *)

\* slon reads its configuration only from a node whose sl_local_node_id
\* is set and whose schema and module both have slon's version: the two
\* checks of db_checkSchemaVersion, the second made even after the first
\* failed, together refuse every mismatch.
ConfigReadOnlyFromMatchingNode ==
  phase \in {"begin", "load", "lastevent", "rollback", "running"} =>
    /\ nodeid = db.nodeId /\ nodeid >= 0
    /\ db.schema = SLONY_I_VERSION_STRING
    /\ db.module = SLONY_I_VERSION_STRING

\* Once the listener has applied every committed event above its last one,
\* slon's runtime configuration is the committed configuration: the
\* SERIALIZABLE startup transaction reads the tables and rtcfg_lastevent
\* from one snapshot, and createEvent's lock makes every event committed
\* after that snapshot carry a larger ev_seqno, so no administrative
\* change is both missing from the tables read and at or below
\* rtcfg_lastevent.
RuntimeConfigCurrent ==
  (phase = "running" /\ MaxSeqno(sl_event) <= lastevent) => rtcfg = ConfigOf(sl_event)


\* Once administrators stop creating events, a slon that started comes to
\* hold the committed configuration and keeps it: the startup snapshot
\* together with the listener's polls from rtcfg_lastevent leave no
\* committed change behind for good.
EventuallyConfigCurrent ==
  <>[](phase = "running" => rtcfg = ConfigOf(sl_event))

\* The runtime configuration promised by spec sections 4.2 and 4.4.  Once
\* started, slon's configuration reflects the committed events with
\* ev_seqno at or below rtcfg_lastevent; before that it holds none.
KnownEvents ==
  IF phase = "running"
  THEN Cardinality({i \in 1..Len(sl_event) : sl_event[i].seqno <= lastevent})
  ELSE -1

Abstract == INSTANCE RuntimeConfig
              WITH Event <- [seqno : 1..MaxEvents, tbl : ChangedTables \cup {SYNC}],
                   committed <- sl_event, known <- KnownEvents,
                   config <- IF phase = "running" THEN rtcfg
                             ELSE [t \in Tables |-> -1]

\* At every moment after startup, not only once the listener has caught
\* up, slon's runtime configuration is the configuration as of a prefix of
\* the committed events (those at or below rtcfg_lastevent), and every
\* listener poll only lengthens that prefix: the five startup selects, the
\* select of rtcfg_lastevent and each poll never leave rtcfg a mix of an
\* older and a newer state, whatever administrative transactions commit
\* in between.
ImplementsRuntimeConfig == Abstract!Spec
=============================================================================

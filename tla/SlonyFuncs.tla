----------------------------- MODULE SlonyFuncs -----------------------------
(***************************************************************************)
(* The capture plane of one Slony-I node: the C functions and triggers of  *)
(* src/backend/slony1_funcs.c, called by concurrent database backends.     *)
(*                                                                         *)
(* Every backend keeps its own Slony_I_ClusterStatus block (cs), created   *)
(* lazily by getClusterStatus and never rolled back with a transaction.    *)
(* createEvent and logTrigger share its currentXid field as their          *)
(* "once per transaction" marker.  The database around the functions is    *)
(* modelled only as far as they use it: transactions with xids, the        *)
(* EXCLUSIVE lock on sl_event, the sequences sl_event_seq and              *)
(* sl_action_seq (not transactional), and the tables sl_event, sl_log_1/2  *)
(* and the replicated user tables, whose rows become visible at commit.    *)
(*                                                                         *)
(* Row contents and the text of cmddata are abstracted away: a row change  *)
(* is identified by a ghost id so that its log row can be found.           *)
(***************************************************************************)
EXTENDS Naturals, Sequences, FiniteSets

CONSTANTS
  Backend,       \* the database sessions of the node
  SuperUser,     \* the sessions connected as a superuser
  EvType,        \* event types passed to createEvent
  MaxXid,        \* bound on transaction ids handed out
  MaxEvents,     \* bound on values drawn from sl_event_seq
  MaxRows        \* bound on row changes made by user statements

ASSUME SuperUser \subseteq Backend
ASSUME "SYNC" \in EvType
ASSUME MaxXid \in Nat /\ MaxEvents \in Nat /\ MaxRows \in Nat

\* SLON_ROLE_UNSET, SLON_ROLE_NORMAL, SLON_ROLE_SLON
ROLE_UNSET  == "unset"
ROLE_NORMAL == "normal"
ROLE_SLON   == "slon"
Role == {ROLE_UNSET, ROLE_NORMAL, ROLE_SLON}

\* The have_plan bits PLAN_NOTIFY_EVENT, PLAN_INSERT_EVENT, PLAN_INSERT_LOG.
Plan == {"notify_event", "insert_event", "insert_log"}

\* plan_active_log: NULL until logTrigger chooses sl_log_1 for a transaction.
NoPlan == "NULL"
LogPlan == {NoPlan, "sl_log_1", "sl_log_2"}

\* InvalidTransactionId; no backend is in a transaction with this id.
InvalidXid == 0
Xid == 1..MaxXid

\* A replicated table on the node carries either the log trigger (the node
\* is origin of its set), denyAccess (the node subscribes to its set) or
\* lockedSet (a MOVE_SET is in progress).
OriginTab == "origin_table"
SubscriberTab == "subscriber_table"

\* A backend without a status block yet (clusterStatusList has no entry).
NoStatus == [exists |-> FALSE, role |-> ROLE_UNSET, currentXid |-> InvalidXid,
             activeLog |-> NoPlan, havePlan |-> {}]
NoBackend == "no_backend"

StatusRec == [exists : BOOLEAN, role : Role, currentXid : {InvalidXid} \cup Xid,
              activeLog : LogPlan, havePlan : SUBSET Plan]

EmptyWork == [events |-> <<>>, logs |-> {}, rows |-> {}, notify |-> FALSE]

VARIABLES
  cs,          \* backend -> its Slony_I_ClusterStatus, or NoStatus
  xact,        \* backend -> xid of its open transaction, InvalidXid if none
  work,        \* backend -> uncommitted effects of its open transaction
  eventLock,   \* holder of the EXCLUSIVE lock on sl_event, or NoBackend
  nextXid,     \* the next transaction id the server hands out
  eventSeq,    \* next value of sl_event_seq
  actionSeq,   \* next value of sl_action_seq
  rowId,       \* ghost: id of the next user row change
  sl_event,    \* committed events, in commit order
  sl_log,      \* committed log rows
  userRows,    \* committed changes to replicated tables
  notified     \* xids of committed transactions that executed NOTIFY

vars == <<cs, xact, work, eventLock, nextXid, eventSeq, actionSeq, rowId,
          sl_event, sl_log, userRows, notified>>

EventRec == [seqno : Nat, xid : Xid, type : EvType, seqlog : BOOLEAN]
LogRec   == [xid : Xid, actionseq : Nat, table : LogPlan \ {NoPlan}, row : Nat]
RowRec   == [xid : Xid, table : {OriginTab, SubscriberTab}, id : Nat,
             backend : Backend]

TypeOK ==
  /\ cs \in [Backend -> StatusRec]
  /\ xact \in [Backend -> {InvalidXid} \cup Xid]
  /\ work \in [Backend -> [events : Seq(EventRec), logs : SUBSET LogRec,
                           rows : SUBSET RowRec, notify : BOOLEAN]]
  /\ eventLock \in Backend \cup {NoBackend}
  /\ nextXid \in 1..(MaxXid + 1)
  /\ eventSeq \in 1..(MaxEvents + 1)
  /\ actionSeq \in 1..(MaxRows + 1)
  /\ rowId \in 1..(MaxRows + 1)
  /\ sl_event \in Seq(EventRec)
  /\ sl_log \subseteq LogRec
  /\ userRows \subseteq RowRec
  /\ notified \subseteq Xid

----------------------------------------------------------------------------
(* getClusterStatus: find or create the backend's status block and make   *)
(* sure the requested SPI plans are prepared.  A new block starts with     *)
(* every field zero: role UNSET, currentXid invalid, no active log plan.   *)
getClusterStatus(b, mask) ==
  LET c == IF cs[b].exists THEN cs[b] ELSE [NoStatus EXCEPT !.exists = TRUE]
  IN  [c EXCEPT !.havePlan = @ \cup mask]

\* An elog(ERROR) inside a function aborts the transaction: its effects are
\* discarded and its locks released.  The status block is malloc'ed backend
\* memory and keeps whatever the function had set before the error.
AbortWith(b, c) ==
  /\ cs' = [cs EXCEPT ![b] = c]
  /\ xact' = [xact EXCEPT ![b] = InvalidXid]
  /\ work' = [work EXCEPT ![b] = EmptyWork]
  /\ eventLock' = IF eventLock = b THEN NoBackend ELSE eventLock

Published == <<sl_event, sl_log, userRows, notified>>

----------------------------------------------------------------------------
(* The transactions of a backend (PostgreSQL, not Slony code).            *)

Begin(b) ==
  /\ xact[b] = InvalidXid
  /\ nextXid <= MaxXid
  /\ xact' = [xact EXCEPT ![b] = nextXid]
  /\ nextXid' = nextXid + 1
  /\ UNCHANGED <<cs, work, eventLock, eventSeq, actionSeq, rowId, Published>>

Commit(b) ==
  /\ xact[b] # InvalidXid
  /\ sl_event' = sl_event \o work[b].events
  /\ sl_log' = sl_log \cup work[b].logs
  /\ userRows' = userRows \cup work[b].rows
  /\ notified' = IF work[b].notify THEN notified \cup {xact[b]} ELSE notified
  /\ xact' = [xact EXCEPT ![b] = InvalidXid]
  /\ work' = [work EXCEPT ![b] = EmptyWork]
  /\ eventLock' = IF eventLock = b THEN NoBackend ELSE eventLock
  /\ UNCHANGED <<cs, nextXid, eventSeq, actionSeq, rowId>>

Rollback(b) ==
  /\ xact[b] # InvalidXid
  /\ AbortWith(b, cs[b])
  /\ UNCHANGED <<nextXid, eventSeq, actionSeq, rowId, Published>>

\* The session ends (client disconnect or backend crash); a new backend
\* process later takes its place with an empty clusterStatusList.
Disconnect(b) ==
  /\ AbortWith(b, NoStatus)
  /\ UNCHANGED <<nextXid, eventSeq, actionSeq, rowId, Published>>

----------------------------------------------------------------------------
(* The guards the functions test, one operator each.  Each is preceded by *)
(* a faulty variant, the kind of slip the code could make, used to confirm *)
(* that a property below detects it.                                       *)

EventLockIgnored(b) == TRUE
\* LOCK TABLE sl_event IN EXCLUSIVE MODE in the saved INSERT plan: the
\* lock is free or already held by this transaction.
EventLockFree(b) == eventLock \in {NoBackend, b}

AnyoneMayBecomeSlon(b) == TRUE
\* setSessionRole('slon') requires superuser().
MayBecomeSlon(b) == b \in SuperUser

AnyRoleChange(old, new) == TRUE
\* setSessionRole: "cannot change session role once set".
RoleChangeAllowed(old, new) == old \in {ROLE_UNSET, new}

AnyRoleName(r) == TRUE
\* setSessionRole accepts the texts 'normal' and 'slon'; any other is
\* "invalid session role".
RoleName(r) == r \in {ROLE_NORMAL, ROLE_SLON}

NeverRefuses(role) == FALSE
\* logTrigger: "called in non-client session" for a replication session.
LogTriggerRefuses(role) == role = ROLE_SLON

----------------------------------------------------------------------------
(* The SQL-callable functions.                                            *)

\* _Slony_I_createEvent: NOTIFY once per transaction (judged by currentXid),
\* LOCK sl_event IN EXCLUSIVE MODE, insert the event with
\* nextval(sl_event_seq), and for SYNC and ENABLE_SUBSCRIPTION also record
\* the sequence values into sl_seqlog.  The lock is held until commit.
createEvent(b, t) ==
  LET x  == xact[b]
      c  == getClusterStatus(b, {"notify_event", "insert_event"})
      ev == [seqno |-> eventSeq, xid |-> x, type |-> t,
             seqlog |-> t \in {"SYNC", "ENABLE_SUBSCRIPTION"}]
  IN
  /\ x # InvalidXid
  /\ eventSeq <= MaxEvents
  /\ EventLockFree(b)
  /\ cs' = [cs EXCEPT ![b] = [c EXCEPT !.currentXid = x]]
  /\ work' = [work EXCEPT ![b].events = Append(@, ev),
                          ![b].notify = @ \/ c.currentXid # x]
  /\ eventLock' = b
  /\ eventSeq' = eventSeq + 1
  /\ UNCHANGED <<xact, nextXid, actionSeq, rowId, Published>>

\* _Slony_I_getLocalNodeId: creates the status block if needed.
getLocalNodeId(b) ==
  /\ xact[b] # InvalidXid
  /\ cs' = [cs EXCEPT ![b] = getClusterStatus(b, {})]
  /\ UNCHANGED <<xact, work, eventLock, nextXid, eventSeq, actionSeq, rowId,
                 Published>>

\* _Slony_I_setSessionRole: 'normal' or (for a superuser only) 'slon'; the
\* role may be set while UNSET or to the value it already has.
setSessionRole(b, r) ==
  LET c == getClusterStatus(b, {}) IN
  /\ xact[b] # InvalidXid
  /\ \/ /\ RoleName(r)
        /\ r = ROLE_SLON => MayBecomeSlon(b)
        /\ RoleChangeAllowed(c.role, r)
        /\ cs' = [cs EXCEPT ![b] = [c EXCEPT !.role = r]]
        /\ UNCHANGED <<xact, work, eventLock>>
     \/ /\ \/ ~RoleName(r)
           \/ r = ROLE_SLON /\ ~MayBecomeSlon(b)
           \/ ~RoleChangeAllowed(c.role, r)
        /\ AbortWith(b, c)
  /\ UNCHANGED <<nextXid, eventSeq, actionSeq, rowId, Published>>

\* _Slony_I_getSessionRole: an UNSET role is fixed to NORMAL by asking.
getSessionRole(b) ==
  LET c == getClusterStatus(b, {}) IN
  /\ xact[b] # InvalidXid
  /\ cs' = [cs EXCEPT ![b] = IF c.role = ROLE_UNSET
                               THEN [c EXCEPT !.role = ROLE_NORMAL] ELSE c]
  /\ UNCHANGED <<xact, work, eventLock, nextXid, eventSeq, actionSeq, rowId,
                 Published>>

----------------------------------------------------------------------------
(* The triggers, fired by a user statement changing one row.              *)

\* _Slony_I_logTrigger, AFTER ROW on a table of a set this node originates.
\* A replication session may not fire it; otherwise the role is forced to
\* NORMAL.  Only when currentXid differs from the transaction is the active
\* log plan chosen (always sl_log_1).  The row is then inserted through
\* plan_active_log; SPI_execp's result is not checked, so with a NULL plan
\* the insert fails silently and the row change goes unlogged.
logTrigger(b) ==
  LET x   == xact[b]
      c0  == getClusterStatus(b, {"insert_log"})
      c1  == IF c0.role = ROLE_UNSET THEN [c0 EXCEPT !.role = ROLE_NORMAL] ELSE c0
      c   == IF c1.currentXid # x
               THEN [c1 EXCEPT !.activeLog = "sl_log_1", !.currentXid = x]
               ELSE c1
      row == [xid |-> x, table |-> OriginTab, id |-> rowId, backend |-> b]
      log == [xid |-> x, actionseq |-> actionSeq, table |-> c.activeLog,
              row |-> rowId]
  IN
  /\ x # InvalidXid
  /\ rowId <= MaxRows
  /\ \/ /\ LogTriggerRefuses(c0.role)
        /\ AbortWith(b, c0)
        /\ UNCHANGED <<actionSeq, rowId>>
     \/ /\ ~LogTriggerRefuses(c0.role)
        /\ cs' = [cs EXCEPT ![b] = c]
        /\ work' = [work EXCEPT
                      ![b].rows = @ \cup {row},
                      ![b].logs = IF c.activeLog = NoPlan THEN @ ELSE @ \cup {log}]
        /\ actionSeq' = IF c.activeLog = NoPlan THEN actionSeq ELSE actionSeq + 1
        /\ rowId' = rowId + 1
        /\ UNCHANGED <<xact, eventLock>>
  /\ UNCHANGED <<nextXid, eventSeq, Published>>

\* _Slony_I_denyAccess, BEFORE ROW on a table of a set this node subscribes
\* to: only a replication session may change the row.  An UNSET role is set
\* to NORMAL before the error is raised.
denyAccess(b) ==
  LET x   == xact[b]
      c0  == getClusterStatus(b, {"insert_log"})
      row == [xid |-> x, table |-> SubscriberTab, id |-> rowId, backend |-> b]
  IN
  /\ x # InvalidXid
  /\ rowId <= MaxRows
  /\ \/ /\ c0.role \in {ROLE_UNSET, ROLE_NORMAL}
        /\ AbortWith(b, [c0 EXCEPT !.role = ROLE_NORMAL])
        /\ UNCHANGED rowId
     \/ /\ c0.role = ROLE_SLON
        /\ cs' = [cs EXCEPT ![b] = c0]
        /\ work' = [work EXCEPT ![b].rows = @ \cup {row}]
        /\ rowId' = rowId + 1
        /\ UNCHANGED <<xact, eventLock>>
  /\ UNCHANGED <<nextXid, eventSeq, actionSeq, Published>>

\* _Slony_I_lockedSet, BEFORE ROW on a table of a set being moved: always
\* raises an error, without touching the status block.
lockedSet(b) ==
  /\ xact[b] # InvalidXid
  /\ AbortWith(b, cs[b])
  /\ UNCHANGED <<nextXid, eventSeq, actionSeq, rowId, Published>>

----------------------------------------------------------------------------
Init ==
  /\ cs = [b \in Backend |-> NoStatus]
  /\ xact = [b \in Backend |-> InvalidXid]
  /\ work = [b \in Backend |-> EmptyWork]
  /\ eventLock = NoBackend
  /\ nextXid = 1
  /\ eventSeq = 1
  /\ actionSeq = 1
  /\ rowId = 1
  /\ sl_event = <<>>
  /\ sl_log = {}
  /\ userRows = {}
  /\ notified = {}

Next ==
  \E b \in Backend :
    \/ Begin(b) \/ Commit(b) \/ Rollback(b) \/ Disconnect(b)
    \/ \E t \in EvType : createEvent(b, t)
    \/ getLocalNodeId(b)
    \/ \E r \in {ROLE_NORMAL, ROLE_SLON, "invalid"} : setSessionRole(b, r)
    \/ getSessionRole(b)
    \/ logTrigger(b)
    \/ denyAccess(b)
    \/ lockedSet(b)

Spec == Init /\ [][Next]_vars

----------------------------------------------------------------------------
(* Properties.                                                            *)

\* The EXCLUSIVE lock createEvent takes on sl_event before nextval() makes
\* event sequence numbers follow commit order: of two committed events, the
\* one committed first has the smaller ev_seqno, even when the two
\* transactions call createEvent and commit in interleaved order.
EventSeqnoCommitOrder ==
  \A i, j \in 1..Len(sl_event) : i < j => sl_event[i].seqno < sl_event[j].seqno

\* A replicated table on a subscriber is changed only by a replication
\* (slon) session, and setSessionRole grants that role only to a
\* superuser: every committed row change of a subscribed table was made by
\* a superuser session.
SubscriberChangedOnlyByReplication ==
  \A r \in userRows : r.table = SubscriberTab => r.backend \in SuperUser

\* No transaction both applies replicated changes and writes log rows: the
\* log trigger refuses replication sessions, and the role of a session,
\* once set, never changes, so replicated data cannot be captured again
\* (an apply loop).
NoReplicatedApplyIsLogged ==
  \A r \in userRows, l \in sl_log : r.table = SubscriberTab => r.xid # l.xid

\* setSessionRole, getSessionRole, logTrigger and denyAccess all touch the
\* session role: once it is NORMAL or SLON, no step of the same session
\* changes it.
SessionRoleFixedOnceSet ==
  [][\A b \in Backend :
        (cs[b].exists /\ cs'[b].exists /\ cs[b].role # ROLE_UNSET)
           => cs'[b].role = cs[b].role]_cs

\* Every committed change to a table of a set this node originates has a
\* log row, so that subscribers receive it (spec section 4.1: the log
\* trigger "appends exactly one log row").
EveryOriginChangeLogged ==
  \A r \in userRows : r.table = OriginTab => \E l \in sl_log : l.row = r.id

\* Every committed transaction that created an event executed
\* NOTIFY <cluster>_Event, waking the listeners (spec section 4.1: "Once
\* per transaction it issues NOTIFY").
EventTransactionNotified ==
  \A i \in 1..Len(sl_event) : sl_event[i].xid \in notified

=============================================================================

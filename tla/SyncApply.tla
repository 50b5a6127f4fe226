------------------------------ MODULE SyncApply ------------------------------
(***************************************************************************)
(* Replication of one set from its origin to one subscriber.               *)
(*                                                                         *)
(* Origin (src/backend/slony1_funcs.c): user transactions change rows of a *)
(* replicated table; for every change logTrigger appends a log row stamped *)
(* with the transaction's xid and nextval(sl_action_seq).  A row change    *)
(* holds the row lock until its transaction ends.  The sync thread calls   *)
(* createEvent('SYNC'), which stores the transaction snapshot (xmin, xmax, *)
(* the in-progress list xip) in the event.                                 *)
(*                                                                         *)
(* Subscriber (the remote worker of the slon daemon, spec section 4.5):    *)
(* applies a group of up to GroupMax SYNCs in one transaction, selecting   *)
(* the log rows of the transactions that became visible between the       *)
(* snapshot of the last confirmed SYNC and the snapshot of the last SYNC   *)
(* of the group, in log_actionseq order, and stores the confirmation in    *)
(* the same transaction.  The apply may fail and be rolled back, and the   *)
(* daemon may restart; it then resumes from the durable confirmation.      *)
(*                                                                         *)
(* Rows are abstracted to the key they write; the value written is the    *)
(* log row itself, so a table state is a function from keys to log rows.   *)
(***************************************************************************)
EXTENDS Naturals, Sequences, FiniteSets

CONSTANTS
  Keys,          \* primary keys of the replicated table
  GroupMax,      \* sync_group_maxsize
  MaxXid,        \* bound on origin transaction ids
  MaxRows,       \* bound on values drawn from sl_action_seq
  MaxSync,       \* bound on SYNC events, the initial one included
  MaxFail,       \* bound on failed or interrupted group applies
  Selects(_, _, _)  \* the worker's log selection: Selects(xid, prev, last)

ASSUME GroupMax \in Nat \ {0}
ASSUME MaxXid \in Nat /\ MaxRows \in Nat /\ MaxSync \in Nat \ {0}
ASSUME MaxFail \in Nat

NoRow == [xid |-> 0, key |-> "none", actionseq |-> 0]
Row == [xid : 1..MaxXid, key : Keys, actionseq : 1..MaxRows]
Table == [Keys -> Row \cup {NoRow}]
Snapshot == [xmin : Nat, xmax : Nat, xip : SUBSET (1..MaxXid), state : Table]

VARIABLES
  nextXid,       \* next transaction id of the origin
  running,       \* xids of the origin transactions in progress
  pendingLog,    \* log rows written by transactions still in progress
  rowLock,       \* key -> xid of the transaction holding its row lock, or 0
  actionSeq,     \* next value of sl_action_seq
  sl_log,        \* committed log rows (sl_log_1 of the origin)
  origin,        \* committed state of the table on the origin
  syncs,         \* SYNC events in ev_seqno order (with a ghost origin state)
  replica,       \* committed state of the table on the subscriber
  confirmed,     \* the subscriber's sl_confirm: index of last applied SYNC
  worker,        \* remote worker: idle, or applying a group not yet committed
  applied,       \* ghost: the log rows applied by each committed group
  failures       \* number of failed or interrupted group applies so far

originVars == <<nextXid, running, pendingLog, rowLock, actionSeq, sl_log,
                origin, syncs>>
subscriberVars == <<replica, confirmed, worker, applied, failures>>
vars == <<originVars, subscriberVars>>

Idle == [pc |-> "idle", upto |-> 0, rows |-> {}, table |-> [k \in Keys |-> NoRow]]

TypeOK ==
  /\ nextXid \in 1..(MaxXid + 1)
  /\ running \subseteq 1..MaxXid
  /\ pendingLog \subseteq Row
  /\ rowLock \in [Keys -> 0..MaxXid]
  /\ actionSeq \in 1..(MaxRows + 1)
  /\ sl_log \subseteq Row
  /\ origin \in Table
  /\ syncs \in Seq(Snapshot)
  /\ replica \in Table
  /\ confirmed \in 1..Len(syncs)
  /\ worker \in [pc : {"idle", "applying"}, upto : 0..Len(syncs),
                 rows : SUBSET Row, table : Table]
  /\ applied \in Seq(SUBSET Row)
  /\ failures \in 0..MaxFail

----------------------------------------------------------------------------
(* Transaction visibility as recorded by createEvent: a transaction is    *)
(* visible in a snapshot when it started before xmax and was not in        *)
(* progress.                                                               *)
Visible(x, snap) == x < snap.xmax /\ x \notin snap.xip

SelectsVisibleInLast(x, prev, last) == Visible(x, last)
\* Spec section 4.5 (3b): the rows of the transactions that became visible
\* between the previous snapshot and the last snapshot of the group.
DeltaSelects(x, prev, last) == Visible(x, last) /\ ~Visible(x, prev)

LastWriteByXid(w) ==
  CHOOSE r \in w : \A r2 \in w : \/ r2.xid < r.xid
                                \/ (r2.xid = r.xid /\ r2.actionseq <= r.actionseq)
\* Of several log rows for one key, the one applied last.
LastWrite(w) == CHOOSE r \in w : \A r2 \in w : r2.actionseq <= r.actionseq

\* Apply rows "ordered by (log_origin, log_actionseq)": the last row of
\* each key in that order determines its final value.
ApplyRows(t, rows) ==
  [k \in Keys |-> LET w == {r \in rows : r.key = k}
                  IN  IF w = {} THEN t[k] ELSE LastWrite(w)]

----------------------------------------------------------------------------
(* Origin.                                                                *)

BeginTx ==
  /\ nextXid <= MaxXid
  /\ running' = running \cup {nextXid}
  /\ nextXid' = nextXid + 1
  /\ UNCHANGED <<pendingLog, rowLock, actionSeq, sl_log, origin, syncs,
                 subscriberVars>>

\* A user statement changes the row of key k; the AFTER trigger logTrigger
\* appends the log row (log_xid = currentXid, log_actionseq =
\* nextval(sl_action_seq)).  The row lock is held until the end of the
\* transaction; another writer of the same row waits.
logTrigger(x, k) ==
  /\ x \in running
  /\ rowLock[k] \in {0, x}
  /\ actionSeq <= MaxRows
  /\ pendingLog' = pendingLog \cup {[xid |-> x, key |-> k, actionseq |-> actionSeq]}
  /\ rowLock' = [rowLock EXCEPT ![k] = x]
  /\ actionSeq' = actionSeq + 1
  /\ UNCHANGED <<nextXid, running, sl_log, origin, syncs, subscriberVars>>

EndTx(x) ==
  /\ running' = running \ {x}
  /\ pendingLog' = {r \in pendingLog : r.xid # x}
  /\ rowLock' = [k \in Keys |-> IF rowLock[k] = x THEN 0 ELSE rowLock[k]]

CommitTx(x) ==
  LET mine == {r \in pendingLog : r.xid = x} IN
  /\ x \in running
  /\ EndTx(x)
  /\ sl_log' = sl_log \cup mine
  /\ origin' = ApplyRows(origin, mine)
  /\ UNCHANGED <<nextXid, actionSeq, syncs, subscriberVars>>

AbortTx(x) ==
  /\ x \in running
  /\ EndTx(x)
  /\ UNCHANGED <<nextXid, actionSeq, sl_log, origin, syncs, subscriberVars>>

\* The sync thread's transaction calls createEvent('SYNC'): the event gets
\* the serializable snapshot: xmin, xmax and the list of transactions in
\* progress.  The origin state it sees is kept as a ghost field.
createEventSync ==
  /\ Len(syncs) < MaxSync
  /\ syncs' = Append(syncs,
        [xmin |-> IF running = {} THEN nextXid
                  ELSE CHOOSE m \in running : \A y \in running : m <= y,
         xmax |-> nextXid,
         xip |-> running,
         state |-> origin])
  /\ UNCHANGED <<nextXid, running, pendingLog, rowLock, actionSeq, sl_log,
                 origin, subscriberVars>>

----------------------------------------------------------------------------
(* Subscriber: the remote worker of the provider (= origin).              *)

\* The remote worker takes the next n <= GroupMax SYNCs after the
\* confirmed one, opens the apply transaction and streams the selected
\* log rows into the table.
FullGroupsOnly == {GroupMax}
GroupSizes == 1..GroupMax

RemoteWorkerApply ==
  \E n \in GroupSizes :
    LET last == confirmed + n
        rows == {r \in sl_log : Selects(r.xid, syncs[confirmed], syncs[last])}
    IN
    /\ worker.pc = "idle"
    /\ last <= Len(syncs)
    /\ worker' = [pc |-> "applying", upto |-> last, rows |-> rows,
                  table |-> ApplyRows(replica, rows)]
    /\ UNCHANGED <<originVars, replica, confirmed, applied, failures>>

ConfirmedNextAfter(w) == w.upto + 1
\* The sl_confirm row stores the ev_seqno of the last SYNC of the group.
ConfirmedAfter(w) == w.upto

\* The group's changes and the new sl_confirm row commit together.
RemoteWorkerCommit ==
  /\ worker.pc = "applying"
  /\ replica' = worker.table
  /\ confirmed' = ConfirmedAfter(worker)
  /\ applied' = Append(applied, worker.rows)
  /\ worker' = Idle
  /\ UNCHANGED <<originVars, failures>>

\* A database error during the apply rolls the whole group back; the
\* worker reconnects and starts over from the confirmed SYNC.
RemoteWorkerFail ==
  /\ worker.pc = "applying"
  /\ failures < MaxFail
  /\ worker' = Idle
  /\ failures' = failures + 1
  /\ UNCHANGED <<originVars, replica, confirmed, applied>>

\* The slon daemon restarts (watchdog restart or crash).  The open apply
\* transaction dies with its connection, and startup reads the last
\* event of every node back from sl_confirm.
\* A restart while the worker is idle changes nothing of this state; one
\* that interrupts an apply counts against MaxFail.
SlonRestart ==
  /\ worker.pc = "applying" => failures < MaxFail
  /\ worker' = Idle
  /\ failures' = IF worker.pc = "applying" THEN failures + 1 ELSE failures
  /\ UNCHANGED <<originVars, replica, confirmed, applied>>

----------------------------------------------------------------------------
InitSync == [xmin |-> 1, xmax |-> 1, xip |-> {}, state |-> [k \in Keys |-> NoRow]]

Init ==
  /\ nextXid = 1
  /\ running = {}
  /\ pendingLog = {}
  /\ rowLock = [k \in Keys |-> 0]
  /\ actionSeq = 1
  /\ sl_log = {}
  /\ origin = [k \in Keys |-> NoRow]
  /\ syncs = <<InitSync>>
  /\ replica = [k \in Keys |-> NoRow]
  /\ confirmed = 1
  /\ worker = Idle
  /\ applied = <<>>
  /\ failures = 0

Next ==
  \/ BeginTx
  \/ \E x \in running, k \in Keys : logTrigger(x, k)
  \/ \E x \in running : CommitTx(x) \/ AbortTx(x)
  \/ createEventSync
  \/ RemoteWorkerApply
  \/ RemoteWorkerCommit
  \/ RemoteWorkerFail
  \/ SlonRestart

\* The remote worker thread is always scheduled again; failures are bounded.
Fairness == WF_vars(RemoteWorkerApply) /\ WF_vars(RemoteWorkerCommit)

Spec == Init /\ [][Next]_vars /\ Fairness

----------------------------------------------------------------------------
(* Properties.                                                            *)

\* The subscriber's table is exactly the origin's table as seen by the
\* snapshot of the last confirmed SYNC, whatever the interleaving of
\* origin transactions, row locks, SYNC snapshots, grouped applies,
\* failures and restarts: applying by snapshot delta in log_actionseq
\* order reproduces commit order.
ReplicaMatchesConfirmedSync == replica = syncs[confirmed].state

\* Every committed log row of a transaction visible in the confirmed SYNC
\* has been applied exactly once, and no other row (at-most-once apply,
\* spec section 3).
AppliedExactlyOnce ==
  /\ \A i, j \in 1..Len(applied) : i # j => applied[i] \cap applied[j] = {}
  /\ UNION {applied[i] : i \in 1..Len(applied)}
       = {r \in sl_log : Visible(r.xid, syncs[confirmed])}

\* The subscriber eventually confirms the last SYNC the origin generated.
EventuallyCaughtUp == <>[](confirmed = Len(syncs))

=============================================================================

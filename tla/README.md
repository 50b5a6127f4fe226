# TLA+ models of Slony-I replication

This directory holds TLA+ specifications of the Slony-I sources under `src/src/`,
the TLC configurations that check them, and `PROJECT.json`. That file lists the
components, the runs, the mutants, the source lines each definition models, the
findings and the hazards.

## The system

Slony-I replicates tables from an origin node to subscriber nodes in two planes.

* **Capture, in the origin's PostgreSQL backends** (`src/src/backend/slony1_funcs.c`).
  * Every backend keeps a per-cluster status block (`Slony_I_ClusterStatus`). It holds
    the session role (unset, normal or slon), `currentXid`, `plan_active_log`, the
    prepared SPI plans and the `cmddata` buffer. It lives in backend memory, so it
    survives aborted transactions.
  * `logTrigger` fires AFTER ROW on the origin's replicated tables. It renders the
    change as SQL text (`cmddata`) and writes one row to `sl_log_1`, stamped with the
    xid and `nextval(sl_action_seq)`.
  * `denyAccess` fires BEFORE ROW on a subscriber's replicated tables. Only a session
    whose role is `slon` may change them.
  * `lockedSet` refuses every change while a MOVE_SET is in progress.
  * `createEvent` does three things:
    * it takes `LOCK sl_event IN EXCLUSIVE MODE` and inserts the event with
      `nextval(sl_event_seq)`;
    * it issues the NOTIFY once per transaction;
    * for SYNC events, it stores the transaction snapshot.
  * `slon_quote_literal` and `slon_quote_identifier` quote the pieces of `cmddata`.
    `killBackend` signals another backend.
* **Transport and apply, in the slon daemon** (`src/src/slon/slon.c` and the threads
  the spec describes).
  * A watchdog parent process forks the worker child. The two talk over a pipe, and
    the parent's signal handler drains and restarts or stops the child.
  * The sync thread generates SYNC events.
  * The remote worker of a subscriber selects the log rows of the transactions that
    became visible between two SYNC snapshots. It applies them in `log_actionseq`
    order and writes `sl_confirm` in the same transaction.
  * After a restart, slon reads each node's last event back from `sl_confirm`.
* **Utilities.**
  * `src/src/slon/dbutils.c` holds slon's connections, the schema version check and
    `slon_mkquery`.
  * `src/src/slonik/dbutil.c` holds slonik's admin connection, with its transaction
    flag `have_xact`, and its own copy of `slon_mkquery`.

## Modules

| Module | Models | Sources |
|---|---|---|
| `SlonyFuncs` | The capture functions, called by several backends at once, with their status blocks, transactions, aborts and disconnects | slony1_funcs.c |
| `SyncApply` | Origin transactions and the log trigger, SYNC snapshots, and the remote worker's grouped apply with failures and restarts | slony1_funcs.c, slon.c, spec §3/§4.5 |
| `SqlText` | Pure operators, with no variables, for the quoting and formatting routines and the SQL scanner that reads their output back | slony1_funcs.c, slon.c, dbutils.c, slonik/dbutil.c |
| `QueryFormat` | A harness that calls each conversion of `SqlText` on every bounded argument, plus `killBackend` | as above |
| `LogPayload` | The `cmddata` that logTrigger assembles for INSERT/UPDATE/DELETE, its growing buffer, and the subscriber's apply of it | slony1_funcs.c 462-903 |
| `Watchdog` | slon's parent/child process structure, pipes, signals, `slon_kill_child`, and the alarm-bounded join | slon.c |
| `RuntimeConfig` | The abstract promise of the runtime configuration: a started daemon holds the configuration as of a prefix of the committed events and only lengthens that prefix. `SlonStartup` refines it | spec §4.2/§4.4 |
| `SlonStartup` | slon main's startup (connect, `db_getLocalNodeId`, `db_checkSchemaVersion`, the SERIALIZABLE configuration read and `rtcfg_lastevent`), the local listener catching up from it, and concurrent administrative transactions calling `createEvent` | slon.c, dbutils.c, slony1_funcs.c, spec §4.2/§4.4 |
| `SlonikXact` | slonik's `have_xact` against a PostgreSQL session that aborts, fails at COMMIT and loses its socket | slonik/dbutil.c |
| `MC_*` | Model values and definitions for TLC | |

### SlonyFuncs

**State.**
* `cs`: backend → status block. `exists` is FALSE until `getClusterStatus` creates the block.
* `xact`: the open transaction of each backend.
* `work`: each backend's uncommitted events, log rows and row changes, and whether it issued NOTIFY.
* `eventLock`: the holder of the sl_event lock.
* The sequences.
* The committed `sl_event`, `sl_log` and user rows, and the notified xids.

**Actions.**
* One action per SQL-callable function: `createEvent`, `getLocalNodeId`,
  `setSessionRole`, `getSessionRole`, `logTrigger`, `denyAccess` and `lockedSet`.
  * Each action is the whole function, including the `getClusterStatus` lookup or
    creation, and the `elog(ERROR)` paths of the functions' own checks.
  * The errors inside `getClusterStatus` are not modelled: a failed read of
    `sl_local_node_id`, an uninitialized node (1262-1268) and a failed
    `SPI_prepare`. Each of them aborts the transaction and leaves no status-block
    state behind. A new block is linked into `clusterStatusList` only at 1278,
    after the node checks, and a failed prepare leaves its `have_plan` bit clear.
    Modelled, they would be aborts that change nothing a property reads.
  * An error aborts the transaction (`AbortWith`) but keeps the status-block fields
    that were set before it.
* `Begin`, `Commit`, `Rollback` and `Disconnect` come from PostgreSQL. A disconnect
  drops the backend's status block.

Here the log row's text is not modelled: `LogPayload` models it.

### SyncApply

**State.**
* Origin: the running transactions, their pending log rows, row locks,
  `sl_action_seq`, the committed `sl_log` and the origin table.
* `syncs`: the SYNC snapshots, each with the origin table it saw as a ghost field.
* Subscriber: the replica, `confirmed`, and the worker (idle, or applying an
  uncommitted group). A ghost records the rows each group applied.

**Actions.**
* `logTrigger`, `CommitTx` and `AbortTx` on the origin.
* `createEventSync` computes xmin, xmax and xip as createEvent does.
* `RemoteWorkerApply` takes up to GroupMax SYNCs. It selects the rows visible in the
  group's last snapshot and not in the previous one (`DeltaSelects`).
* `RemoteWorkerCommit` commits the rows together with the confirm.
* `RemoteWorkerFail` and `SlonRestart` drop an uncommitted group.

### SqlText and QueryFormat

**Data.**
* A string is a sequence of characters.
* The alphabet is: two lower-case letters, one upper-case letter, a digit, `_`, `'`,
  `\`, `"` and `mb`. `mb` stands for one multibyte character.
* `SqlText` has the code's conversions as operators:
  * `slon_quote_literal` (and `LiteralChar`);
  * `slon_quote_identifier` (and `SafeIdent`, `IsKeyword`);
  * the namespace `"_<cluster>"` built in slon's `main`;
  * `slon_appendquery_int` (RECURSIVE, with `%s`, `%q`, `%d`, `%` and `\`) with
    `slon_mkquery`, and slonik's copy of both;
  * killBackend's name test.
* The reference is the SQL scanner: `ReadLiteral` (`''` and backslash escapes,
  standard_conforming_strings off), `ReadIdentifier` (delimited, or folded to lower
  case and not a keyword) and `ReadInt`.

**Actions.** Each step of the `QueryFormat` harness is one call of one conversion on
any bounded argument, then `Consume`.

### LogPayload

**State.**
* `origin`: the rows of one table.
* `log`: the `cmddata` of its log rows, in order.
* `cmddataSize`: the backend's `cs->cmddata_size`.
* `overrun`: a ghost flag, set if any write went past the buffer.

**Actions.** `LogInsert`, `LogUpdate` and `LogDelete` are one row change, then the
whole trigger branch:
* the walk over physical columns (`AttkindWalk`), which skips dropped ones and
  advances `attkind_idx` only on the columns not dropped, reading the NUL past the
  end of `attkind` as "not a key" (`AttkindAt`);
* for INSERT, leaving NULL columns out;
* for UPDATE:
  * the changed-column test (both NULL, or both set and equal);
  * `NULL` written as a keyword;
  * the first key column when nothing changed;
  * the WHERE built from the old key;
* each quoted piece through `SqlText`;
* every buffer write in the code's order (`Steps`):
  * a checked piece grows the buffer by doubling until it holds `used + 16 + len`
    (`Slack`, `Grow`);
  * separators and closing bytes are written unchecked, and UPDATE's comma comes
    before the check;
* the log insert (`Logged`).

**Apply.** The subscriber's apply is modelled from the spec, because the remote
worker is not in the sources. It executes `insert into t <cmddata>`, `update t set …`
and `delete from t where …`:
* it reads each piece back with the scanner;
* an INSERT fills the columns it does not list with their DEFAULT.

**Data abstraction.** `cmddata` is kept as its quoted pieces, not as one string.
QueryFormat checks separately that each piece reads back as one token.

### Watchdog

**State.**
* The daemon image (`gen`, incremented by execvp on SIGHUP).
* The parent's control point, its pending signals and its signal mask.
* Per generation:
  * the child's control point;
  * the local listener's state;
  * the scheduler's shutdown flag;
  * the bytes in `watchdog_pipe` and in `sched_wakeuppipe`.
* `lastRead`: a ghost holding the byte `slon_kill_child` last read.

**Actions.**
* The parent's steps:
  * `InstallHandlers`, `WriteP` and `WaitReturns`;
  * `Deliver` of a signal, as default action or handler;
  * `DrainWrite`, then `DrainRead` (`'c'`: exit or exec) or `DrainTimeout` (SIGKILL);
  * `Restart`.
* The child's steps:
  * `ChildReadP`, `ChildStartup`, `ListenerCheck` and `SpuriousWakeup`;
  * `Scheduler`, `MainloopReturns` and `JoinRemote`;
  * `ShutdownTimeout` (the alarm handler's SIGQUIT) and `ChildFinish`.
* `SendSignal`: the outside world's signals.

### SlonStartup

How slon learns its node's configuration while administrators change it.

**State.**
* `db`: what the local database holds (`sl_local_node_id`, the schema and module
  versions), chosen in `Init`.
* slon main: `phase`, the next configuration read `loadIdx`, the snapshot
  `snapLen`, `nodeid`, `rtcfg` and `lastevent` (`rtcfg_lastevent`, then the
  listener's last local event).
* Administrative sessions: `admin`, the `sl_event` lock `eventLock`, `eventSeq`
  (`sl_event_seq`), and the committed events `sl_event` in commit order.

The contents of a configuration table are abstracted to the event of its last
change, so `rtcfg[t]` says which committed change slon's copy of table `t`
reflects. Because `sl_event` is in commit order, a snapshot is a prefix of it
(`StartupView`).

**Actions.**
* `StartupConnect`, `StartupNodeId` (with `db_getLocalNodeId`) and
  `StartupCheckSchema` (with `db_checkSchemaVersion`).
* `StartupBegin`, `StartupLoad` (sl_node, sl_path, sl_listen, sl_set,
  sl_subscribe in code order; the first read takes the snapshot),
  `StartupLastEvent` and `StartupRollback`.
* Every one of these steps may fail; failure is `slon_exit(-1)` (`Exit`).
* `LocalListenerPoll` (spec §4.4; the thread is not in the sources).
* `AdminChange`, `createEvent`, `AdminCommit` and `AdminAbort`: slonik's stored
  procedures (not in the sources) and SYNC transactions. Two writers of one table
  wait on its row lock.

**Refinement.** `RuntimeConfig` has the committed events `committed`, the length
`known` of the prefix the daemon's configuration reflects (-1 before it has one)
and that configuration `config`. Its actions are `Commit`, `Start` (take any
committed prefix) and `Advance` (take a longer one). `SlonStartup` maps
`sl_event` to `committed`. Once `phase` is "running", it maps the number of
committed events with `ev_seqno <= lastevent` to `known`, and `rtcfg` to
`config`; before that, to -1 and the empty configuration. The property
`ImplementsRuntimeConfig` (`Abstract!Spec`) holds only if that set of events
is a prefix in commit order, `rtcfg` equals its configuration after the startup
and after every poll, and no poll shrinks it.

### SlonikXact

**State.**
* `conn` (none, ok or broken) and `have_xact`.
* The server session (idle, in a transaction, or aborted).
* The uncommitted work and the committed commands.

**Actions.**
* `db_connect` and `db_disconnect`, which rolls back an open transaction.
* `db_begin_xact`, `db_commit_xact` and `db_rollback_xact`.
* The `db_exec_*` wrappers and the query helpers that open a transaction on first
  use.
* `db_check_requirements` (`CheckRequirementsStart`, `CheckRequirementsStep`): its
  three statements one at a time, returning -1 at the first failure (or when
  PL/pgSQL is missing) with the transaction left open. No other call of slonik runs
  meanwhile; `chk` says which statement is next.
* `ConnectionLost`.
* A COMMIT may succeed, fail (a deferred constraint) or lose its answer.

## Runs

| Run | Config | Result | What it shows |
|---|---|---|---|
| slonyfuncs | SlonyFuncs.cfg | pass, 301k states | Committed events carry increasing ev_seqno. Subscriber tables change only in replication sessions. Replication sessions log nothing. A session role, once set, never changes. |
| slonyfuncs_log_lost | SlonyFuncs_EveryOriginChangeLogged.cfg | violation | `createEvent` before the first logged change leaves `plan_active_log` NULL, so the log insert fails unchecked. |
| syncapply | SyncApply.cfg | pass, 355k states | Across failures, restarts and groups: the replica equals the origin as seen by the confirmed SYNC; every row is applied exactly once; the last SYNC is eventually confirmed, even after two failed or interrupted applies. |
| watchdog | Watchdog.cfg | pass, 8k states | Never two live workers. A drain always ends in exit or restart, whatever signals arrive meanwhile. |
| watchdog_parent_reads_own_p | Watchdog_ParentReadsChildAck.cfg | violation | `slon_kill_child` can read the parent's own `'p'` from the shared pipe and SIGKILL a healthy child. |
| watchdog_orphan | Watchdog_NoOrphanWorker.cfg | violation | A SIGTERM before the parent installs its handlers kills the parent and leaves the child blocked on the pipe. |
| watchdog_term_blocked | Watchdog_TermHonoured.cfg | violation | A SIGHUP inside the SIGTERM handler execs a new image with SIGTERM blocked. |
| queryformat | QueryFormat.cfg | pass, 30k states | For every string of up to 4 characters, the SQL that slon and slonik build reads back as the value passed: literals, identifiers (unchanged exactly per spec §8 item 5), the namespace, and `%q`/`%d`; and the namespace `main` builds fits its `strlen * 2 + 4` bytes (`NamespaceFitsAllocation`, exact for a name of only double quotes; `ByteLen` counts the multibyte character as two bytes). |
| slonstartup | SlonStartup.cfg | pass, 114k states | slon reads its configuration only from an initialized node whose schema and module both match its version. Once the listener has caught up, the runtime configuration equals the committed one: no administrative change falls between the tables read and `rtcfg_lastevent`. Mutants: `db_checkSchemaVersion` letting the module check overwrite the schema result; each startup query reading the latest committed state instead of one snapshot. `EventuallyConfigCurrent`: under fair scheduling of slon main and the listener, a started slon eventually holds the committed configuration; dropping `createEvent`'s lock breaks it (and the invariant). `ImplementsRuntimeConfig`: SlonStartup implements `RuntimeConfig`, so at every moment after startup (not only once caught up) `rtcfg` is the configuration of a prefix of the committed events, and the prefix only grows. Reading `rtcfg_lastevent` outside the startup snapshot breaks it. |
| slonikxact | SlonikXact.cfg | pass, 1.1k states | `have_xact` agrees with the server's transaction block, whatever statements, COMMITs and connections fail. |
| logpayload | LogPayload.cfg | pass, 15k states | Replaying the logged `cmddata` reproduces the origin's rows (spec §8 item 3). No buffer write passes the end of `cmddata_buf`. |
| logpayload_default_null | LogPayload_DefaultNull.cfg | violation | An explicit NULL inserted into a column with a DEFAULT replicates as the DEFAULT. |

Every property of a passing run has a mutant in `PROJECT.json`: a faulty variant of
the code it depends on. TLC finds the property violated under each mutant. For
LogPayload the mutants are:
* a column set from NULL to a value taken as unchanged;
* an `attkind_idx` that also counts dropped columns;
* a buffer slack of 7 bytes instead of 16.

## Bounds

* **SlonyFuncs:**
  * two backends, one of them a superuser;
  * 3 transactions, 2 events and 2 row changes.

  These allow two concurrent event creators, and `createEvent` and `logTrigger` in
  either order in one transaction.
* **SyncApply:**
  * two keys, 3 transactions and 2 log rows;
  * 3 SYNCs, GroupMax 2 and two failures (a worker error or a slon restart).

  These give contended keys, commits out of order, a transaction in progress during a
  SYNC, a group of two, and an apply redone twice, also after a restart.
* **QueryFormat:**
  * strings of up to 4 characters over the 9-character alphabet;
  * the keyword `as`;
  * node ids -1..12 (a sign and two digits).
* **LogPayload:**
  * the table `(a, s, "A", "as")` with `s` dropped and attkind `vvk`: the key
    `"as"` follows the dropped column, so a walk that counted `s` would take `"A"`
    as the key;
  * 2 key values, 2 data values and NULL;
  * up to 4 row changes;
  * an initial buffer of 16 bytes.

  The code starts at 8192 bytes. The buffer is scaled down with the string lengths so
  that it grows (16, 32, 64) during the run.

  The run tells apart slacks of 7 bytes or fewer from 16. It does not reach the exact
  alignment at which a slack of 8–10 bytes would overrun `") values ("`.
* **SlonStartup:**
  * two administrative sessions changing `sl_node` and `sl_subscribe` (the first
    and the last table read), or creating SYNCs;
  * 3 values of `sl_event_seq`;
  * node ids -1 (uninitialized) and 1, and two versions.

  This lets a change commit between any two startup reads, two events commit in
  either order, and every check fail. `TypeOK` is stated in the module but not in
  the run: no plausible slip of the code breaks it.
  `CHECK_DEADLOCK FALSE`: slon may exit, and the sessions stop at the sequence
  bound.
* **Watchdog:** 2 daemon images and 3 signals from outside. This is enough for a
  SIGHUP restart, a signal during a drain, and a nested SIGHUP.
* **SlonikXact:** 4 commands, reduced by symmetry, and the three statements of
  `db_check_requirements`.

## Fairness

`SyncApply` assumes weak fairness of `RemoteWorkerApply` and `RemoteWorkerCommit`:
* the worker thread loops on its queue;
* failures are bounded.

Origin activity is not fair.

`Watchdog` assumes weak fairness of signal delivery, of each parent step and of each
child's steps:
* the kernel delivers pending unblocked signals;
* the processes are scheduled;
* `select` in `slon_kill_child` times out.

Sending signals is not fair.

`SlonStartup` assumes weak fairness of slon main's startup steps and of the local
listener's poll:
* the main thread runs its startup without waiting on anything but the database;
* the listener polls on NOTIFY and on a timeout (spec §4.4).

The administrative sessions are not fair.

The other modules check safety only.

## Findings

See `PROJECT.json` "findings":
* **A lost log row** when `createEvent` precedes the first row change of a transaction
  (slony1_funcs.c:452 and :899).
* **The watchdog's shared pipe** (slon.c:840).
* **Handlers installed after fork** (slon.c:677).
* **SIGTERM left blocked** by an exec from a nested handler (slon.c:769).
* **NULL replaced by DEFAULT.** logTrigger omits NULL columns from the INSERT
  (slony1_funcs.c:506), so the subscriber writes the column's DEFAULT.

Cases the models contain but no run states are hazards with notes in
`PROJECT.json`:
* killBackend's `memcmp(..., 0)` (already recorded in spec §9);
* the condition wait without a predicate;
* COMMIT of an aborted transaction reported as success;
* an UPDATE skipped for values that are equal but differ in text;
* the missing NOTIFY (a divergence from spec §4.1). `createEvent` skips the NOTIFY
  in a transaction whose first Slony call was `logTrigger`. It has the same cause as
  the lost log row: `currentXid` is a marker shared by the two functions.
  `EventTransactionNotified` in SlonyFuncs states the spec's promise. TLC finds it
  violated, but its run was retired to make room for `slonstartup`.

The spec §3 selection formula and spec §8 invariant 2 were also found not to hold.
Their runs were retired to make room for the LogPayload runs; the apply that the code
and §4.5 describe (`DeltaSelects`) is the one checked.

## Not modelled

* `slon_connectdb`, `slon_disconnectdb` and the dummy connection's lock
  (dbutils.c). Their callers are the listener and worker threads, which are not in
  the sources. slon main connects with `PQconnectdb` directly, before any thread
  exists. With only the code in the sources, a model of these functions could
  only restate the two mutexes. A failed `sql_on_connection` statement is only
  logged, and the connection is used anyway (a hazard with a note).
* slon main's option parsing (`getopt`, `set_config_option`, the
  `sync_interval_timeout` adjustment): the configuration parser and the option
  bounds are outside the sources, and none of it has concurrent state.
* slonik's notice receiver: it only prints.
* The runtime configuration, the scheduler, the sync and cleanup threads: only their
  start and join are in slon.c. The local listener appears only as far as it catches
  up from `rtcfg_lastevent` (SlonStartup). The models reduce them to what
  the watchdog protocol and the SYNC apply see.
* The equality operator lookup by type in logTrigger: abstracted to text equality.
* The remote worker's apply: modelled from the spec (`SyncApply`, and the replay in
  `LogPayload`).

------------------------------ MODULE Watchdog ------------------------------
(***************************************************************************)
(* The slon process structure (src/slon/slon.c, main and its handlers).    *)
(*                                                                         *)
(* main() creates watchdog_pipe and sched_wakeuppipe and forks.  The      *)
(* parent (watchdog) installs sighandler, writes 'p' into watchdog_pipe    *)
(* and wait()s for the child.  The child (worker) reads the 'p', ignores   *)
(* the signals, loads the configuration, starts the local listener and     *)
(* waits on slon_wait_listen_cond until the listener has checked that no   *)
(* other slon serves the node, then runs until the scheduler reads a byte  *)
(* from sched_wakeuppipe; it joins its threads (the remote ones under      *)
(* alarm(20)) and writes 'c' into watchdog_pipe.  On SIGHUP, SIGINT or     *)
(* SIGTERM the parent's handler runs slon_kill_child: it writes into the   *)
(* wakeup pipe and waits up to 60 s for a byte on watchdog_pipe; on 'c' it *)
(* execvp()s itself (SIGHUP) or exits, otherwise it SIGKILLs the child.    *)
(*                                                                         *)
(* Both pipes exist in both processes with both ends open.  execvp keeps   *)
(* the pid, the signal mask and the pending signals; a new image starts    *)
(* with default dispositions and forks a new child: one generation each.   *)
(* The child's threads are reduced to what the watchdog protocol sees;     *)
(* the local listener and the scheduler are modelled from the spec.        *)
(***************************************************************************)
EXTENDS Naturals, Sequences, FiniteSets

CONSTANTS
  MaxGen,       \* daemon images: the first and those exec'ed on SIGHUP
  MaxSignals    \* bound on signals sent to the watchdog from outside

ASSUME MaxGen \in Nat \ {0} /\ MaxSignals \in Nat

Gen == 1..MaxGen
Signal == {"SIGHUP", "SIGINT", "SIGTERM", "SIGQUIT", "SIGCHLD"}
\* Default action of these (before sighandler is installed): terminate.
Fatal == Signal \ {"SIGCHLD"}
\* signal() blocks the signal during its handler; SIGHUP has SA_NODEFER.
Deferred == Signal \ {"SIGHUP"}

QuitFallsThrough == Signal \ {"SIGCHLD"}
\* The sighandler cases that run slon_kill_child.
DrainSignal == {"SIGHUP", "SIGINT", "SIGTERM"}

ParentPc == {"setup", "ready", "wait", "drainWrite", "drainRead", "exited"}
Drain == {"drainWrite", "drainRead"}
ChildPc == {"unforked", "awaitP", "startup", "condwait", "running",
            "joinRemote", "joinLocal", "done", "dead"}
Ended == {"done", "dead"}
Alive == ChildPc \ (Ended \cup {"unforked"})

Byte == [byte : {"p", "c"}, from : {"parent", "child"}]
NoByte == [byte |-> "none", from |-> "none"]

VARIABLES
  gen,        \* the current daemon image
  ppc,        \* control point of the watchdog (parent) process
  reason,     \* the signal whose handler runs slon_kill_child
  pending,    \* signals sent to the watchdog, not yet delivered
  blocked,    \* the watchdog's signal mask
  sent,       \* signals sent from outside so far
  hups,       \* SIGHUPs among them
  child,      \* generation -> control point of its worker process
  listener,   \* generation -> local listener thread: none, started, checked
  schedDown,  \* generation -> the scheduler has read the shutdown byte
  wdPipe,     \* generation -> bytes in its watchdog_pipe
  wakePipe,   \* generation -> bytes in its sched_wakeuppipe
  lastRead    \* ghost: the byte slon_kill_child last read from watchdog_pipe

vars == <<gen, ppc, reason, pending, blocked, sent, hups, child, listener,
          schedDown, wdPipe, wakePipe, lastRead>>

TypeOK ==
  /\ gen \in Gen
  /\ ppc \in ParentPc
  /\ reason \in {"SIGHUP", "SIGINT", "SIGTERM", "none"}
  /\ pending \subseteq Signal /\ blocked \subseteq Signal
  /\ sent \in 0..MaxSignals /\ hups \in 0..MaxSignals
  /\ child \in [Gen -> ChildPc]
  /\ listener \in [Gen -> {"none", "started", "checked"}]
  /\ schedDown \in [Gen -> BOOLEAN]
  /\ wdPipe \in [Gen -> Seq(Byte)]
  /\ wakePipe \in [Gen -> Seq({"p"})]
  /\ lastRead \in Byte \cup {NoByte}

\* kill(pid, SIGKILL): a process that already exited is unaffected.
Kill(g) == child' = [child EXCEPT ![g] = IF @ \in Ended THEN @ ELSE "dead"]

SetChild(g, pc) == child' = [child EXCEPT ![g] = pc]

----------------------------------------------------------------------------
(* The watchdog.                                                          *)

\* The signals come from outside (kill, the terminal, init scripts).
SendSignal(s) ==
  /\ ppc # "exited"
  /\ sent < MaxSignals
  /\ s = "SIGHUP" => hups < MaxGen - 1
  /\ pending' = pending \cup {s}
  /\ sent' = sent + 1
  /\ hups' = IF s = "SIGHUP" THEN hups + 1 ELSE hups
  /\ UNCHANGED <<gen, ppc, reason, blocked, child, listener, schedDown,
                 wdPipe, wakePipe, lastRead>>

\* Parent branch after fork: sigaction/signal(..., sighandler).
InstallHandlers ==
  /\ ppc = "setup"
  /\ ppc' = "ready"
  /\ UNCHANGED <<gen, reason, pending, blocked, sent, hups, child, listener,
                 schedDown, wdPipe, wakePipe, lastRead>>

\* write(watchdog_pipe[1], "p", 1): tell the child the parent is ready.
WriteP ==
  /\ ppc = "ready"
  /\ wdPipe' = [wdPipe EXCEPT ![gen] = Append(@, [byte |-> "p", from |-> "parent"])]
  /\ ppc' = "wait"
  /\ UNCHANGED <<gen, reason, pending, blocked, sent, hups, child, listener,
                 schedDown, wakePipe, lastRead>>

\* while ((pid = wait(&child_status)) != slon_cpid); slon_exit(0).
WaitReturns ==
  /\ ppc = "wait"
  /\ child[gen] \in Ended
  /\ ppc' = "exited"
  /\ UNCHANGED <<gen, reason, pending, blocked, sent, hups, child, listener,
                 schedDown, wdPipe, wakePipe, lastRead>>

\* Delivery of a pending, unblocked signal.  Before the handlers are
\* installed the default action applies.  sighandler: SIGCHLD returns;
\* SIGQUIT kills the child and exits; SIGHUP, SIGINT and SIGTERM run
\* slon_kill_child, from which the handler never returns; a signal
\* delivered during it runs a nested handler that starts over.
Deliver(s) ==
  /\ ppc # "exited"
  /\ s \in pending \ blocked
  /\ pending' = pending \ {s}
  /\ \/ /\ ppc = "setup"
        /\ ppc' = IF s \in Fatal THEN "exited" ELSE ppc
        /\ UNCHANGED <<reason, blocked, child>>
     \/ /\ ppc # "setup" /\ s = "SIGCHLD"
        /\ UNCHANGED <<ppc, reason, blocked, child>>
     \/ /\ ppc # "setup" /\ s = "SIGQUIT" /\ s \notin DrainSignal
        /\ Kill(gen)
        /\ ppc' = "exited"
        /\ UNCHANGED <<reason, blocked>>
     \/ /\ ppc # "setup" /\ s \in DrainSignal
        /\ ppc' = "drainWrite"
        /\ reason' = s
        /\ blocked' = IF s \in Deferred THEN blocked \cup {s} ELSE blocked
        /\ UNCHANGED child
  /\ UNCHANGED <<gen, sent, hups, listener, schedDown, wdPipe, wakePipe, lastRead>>

\* slon_kill_child: select() for writing, then write the shutdown byte.
DrainWrite ==
  /\ ppc = "drainWrite"
  /\ wakePipe' = [wakePipe EXCEPT ![gen] = Append(@, "p")]
  /\ ppc' = "drainRead"
  /\ UNCHANGED <<gen, reason, pending, blocked, sent, hups, child, listener,
                 schedDown, wdPipe, lastRead>>

AnyByteAcks(r) == TRUE
\* if (pipe_c != 'c') ... kill(slon_cpid, SIGKILL)
AckByte(r) == r.byte = "c"

NeverTimesOut == FALSE
\* select(..., &tv) with tv = 60 s returns 0 (or -1 on EINTR) while
\* nothing can be read.
SelectTimesOut == wdPipe[gen] = <<>>

\* execvp(main_argv[0], main_argv): the new image runs main() again with
\* default dispositions, the same mask and pending signals, new pipes,
\* and forks a new child.
Restart ==
  /\ gen' = gen + 1
  /\ ppc' = "setup"
  /\ child' = [child EXCEPT ![gen + 1] = "awaitP"]

\* slon_kill_child: read one byte from watchdog_pipe.  'c' lets the
\* handler go on: execvp for SIGHUP, slon_exit(-1) otherwise; any other
\* byte kills the child.
DrainRead ==
  LET r == Head(wdPipe[gen]) IN
  /\ ppc = "drainRead"
  /\ wdPipe[gen] # <<>>
  /\ wdPipe' = [wdPipe EXCEPT ![gen] = Tail(@)]
  /\ lastRead' = r
  /\ \/ /\ AckByte(r) /\ reason = "SIGHUP"
        /\ Restart
     \/ /\ AckByte(r) /\ reason # "SIGHUP"
        /\ ppc' = "exited"
        /\ UNCHANGED <<gen, child>>
     \/ /\ ~AckByte(r)
        /\ Kill(gen)
        /\ ppc' = "exited"
        /\ UNCHANGED gen
  /\ UNCHANGED <<reason, pending, blocked, sent, hups, listener, schedDown, wakePipe>>

\* slon_kill_child: select timed out or failed: SIGKILL and slon_exit(-1).
DrainTimeout ==
  /\ ppc = "drainRead"
  /\ SelectTimesOut
  /\ Kill(gen)
  /\ ppc' = "exited"
  /\ UNCHANGED <<gen, reason, pending, blocked, sent, hups, listener,
                 schedDown, wdPipe, wakePipe, lastRead>>

----------------------------------------------------------------------------
(* The worker (child) process of generation g.                            *)

\* read(watchdog_pipe[0], &pipe_c, 1) blocks until a byte arrives; a
\* byte other than 'p' is fatal.
ChildReadP(g) ==
  /\ child[g] = "awaitP"
  /\ wdPipe[g] # <<>>
  /\ wdPipe' = [wdPipe EXCEPT ![g] = Tail(@)]
  /\ SetChild(g, IF Head(wdPipe[g]).byte = "p" THEN "startup" ELSE "dead")
  /\ UNCHANGED <<gen, ppc, reason, pending, blocked, sent, hups, listener,
                 schedDown, wakePipe, lastRead>>

\* signal(..., SIG_IGN), sched_start_mainloop, the configuration queries
\* (each may fail: slon_exit(-1)), then with slon_wait_listen_lock held
\* create the local listener and pthread_cond_wait.
ChildStartup(g) ==
  /\ child[g] = "startup"
  /\ \/ /\ SetChild(g, "condwait")
        /\ listener' = [listener EXCEPT ![g] = "started"]
     \/ /\ SetChild(g, "dead")
        /\ UNCHANGED listener
  /\ UNCHANGED <<gen, ppc, reason, pending, blocked, sent, hups, schedDown,
                 wdPipe, wakePipe, lastRead>>

\* The local listener checks that no other slon serves this node and
\* signals slon_wait_listen_cond (spec section 4.4).
ListenerCheck(g) ==
  /\ child[g] \in Alive
  /\ listener[g] = "started"
  /\ listener' = [listener EXCEPT ![g] = "checked"]
  /\ SetChild(g, IF child[g] = "condwait" THEN "running" ELSE child[g])
  /\ UNCHANGED <<gen, ppc, reason, pending, blocked, sent, hups, schedDown,
                 wdPipe, wakePipe, lastRead>>

\* pthread_cond_wait is not in a loop over a predicate: a spurious wakeup
\* returns with no signal.
SpuriousWakeup(g) ==
  /\ child[g] = "condwait"
  /\ SetChild(g, "running")
  /\ UNCHANGED <<gen, ppc, reason, pending, blocked, sent, hups, listener,
                 schedDown, wdPipe, wakePipe, lastRead>>

\* The scheduler thread (running since sched_start_mainloop) reads the
\* shutdown byte from the wakeup pipe (spec section 4.3).
Scheduler(g) ==
  /\ child[g] \in {"condwait", "running"}
  /\ wakePipe[g] # <<>>
  /\ wakePipe' = [wakePipe EXCEPT ![g] = Tail(@)]
  /\ schedDown' = [schedDown EXCEPT ![g] = TRUE]
  /\ UNCHANGED <<gen, ppc, reason, pending, blocked, sent, hups, child,
                 listener, wdPipe, lastRead>>

\* sched_wait_mainloop returns; alarm(20) is armed.
MainloopReturns(g) ==
  /\ child[g] = "running"
  /\ schedDown[g]
  /\ SetChild(g, "joinRemote")
  /\ UNCHANGED <<gen, ppc, reason, pending, blocked, sent, hups, listener,
                 schedDown, wdPipe, wakePipe, lastRead>>

\* rtcfg_joinAllRemoteThreads returns; alarm(0).
JoinRemote(g) ==
  /\ child[g] = "joinRemote"
  /\ SetChild(g, "joinLocal")
  /\ UNCHANGED <<gen, ppc, reason, pending, blocked, sent, hups, listener,
                 schedDown, wdPipe, wakePipe, lastRead>>

\* The alarm fires first: main_sigalrmhandler sends SIGQUIT to the
\* watchdog and exits.
ShutdownTimeout(g) ==
  /\ child[g] = "joinRemote"
  /\ SetChild(g, "dead")
  /\ pending' = IF ppc # "exited" THEN pending \cup {"SIGQUIT"} ELSE pending
  /\ UNCHANGED <<gen, ppc, reason, blocked, sent, hups, listener, schedDown,
                 wdPipe, wakePipe, lastRead>>

\* Join the local threads, write 'c' into watchdog_pipe, exit(0).
ChildFinish(g) ==
  /\ child[g] = "joinLocal"
  /\ wdPipe' = [wdPipe EXCEPT ![g] = Append(@, [byte |-> "c", from |-> "child"])]
  /\ SetChild(g, "done")
  /\ UNCHANGED <<gen, ppc, reason, pending, blocked, sent, hups, listener,
                 schedDown, wakePipe, lastRead>>

----------------------------------------------------------------------------
Init ==
  /\ gen = 1
  /\ ppc = "setup"
  /\ reason = "none"
  /\ pending = {} /\ blocked = {}
  /\ sent = 0 /\ hups = 0
  /\ child = [g \in Gen |-> IF g = 1 THEN "awaitP" ELSE "unforked"]
  /\ listener = [g \in Gen |-> "none"]
  /\ schedDown = [g \in Gen |-> FALSE]
  /\ wdPipe = [g \in Gen |-> <<>>]
  /\ wakePipe = [g \in Gen |-> <<>>]
  /\ lastRead = NoByte

ParentStep ==
  InstallHandlers \/ WriteP \/ WaitReturns \/ DrainWrite \/ DrainRead \/ DrainTimeout

ChildStep(g) ==
  \/ ChildReadP(g) \/ ChildStartup(g) \/ ListenerCheck(g) \/ Scheduler(g)
  \/ MainloopReturns(g) \/ JoinRemote(g) \/ ShutdownTimeout(g) \/ ChildFinish(g)

Next ==
  \/ \E s \in Signal : SendSignal(s) \/ Deliver(s)
  \/ ParentStep
  \/ \E g \in Gen : ChildStep(g) \/ SpuriousWakeup(g)

\* The kernel delivers pending unblocked signals and fires timers; each
\* process and thread that can run eventually runs.  Signals from outside
\* and spurious wakeups are not forced.
Fairness ==
  /\ WF_vars(\E s \in Signal : Deliver(s))
  /\ WF_vars(ParentStep)
  /\ \A g \in Gen : WF_vars(ChildStep(g))

Spec == Init /\ [][Next]_vars /\ Fairness

----------------------------------------------------------------------------
(* Properties.                                                            *)

\* However signals, restarts and timeouts interleave, at most one worker
\* process is alive: execvp after SIGHUP happens only once the old child
\* acknowledged with 'c', and every other ending of slon_kill_child kills it.
SingleWorkerProcess ==
  \A g1, g2 \in Gen : child[g1] \in Alive /\ child[g2] \in Alive => g1 = g2

\* Every slon_kill_child that starts ends, with the watchdog exited or
\* exec'ed, whatever the child does: the 60 s select bounds the wait.
DrainEnds == (ppc \in Drain) ~> (ppc \in {"exited", "setup"})

\* slon_kill_child reads only the child's acknowledgement from
\* watchdog_pipe, never the parent's own 'p'.
ParentReadsChildAck == lastRead # NoByte => lastRead.from = "child"

\* Once the watchdog is gone, no worker is left behind.
NoOrphanWorker == ppc = "exited" => \A g \in Gen : child[g] \notin Alive

\* A SIGTERM that reaches a daemon image while its watchdog waits for the
\* worker eventually stops it (sighandler, SIGTERM: slon_kill_child and
\* slon_exit), unless a restart (a later SIGHUP) replaced the image.
TermHonoured ==
  \A g \in Gen : (gen = g /\ ppc = "wait" /\ "SIGTERM" \in pending)
                   ~> (ppc = "exited" \/ gen # g)

=============================================================================

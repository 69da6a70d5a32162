------------------------- MODULE GuardedProcessPool -------------------------
(***************************************************************************)
(* bg/GuardedProcessPool.kt: the pool that keeps the native helpers        *)
(* (ss-local, tun2socks) alive while the VPN is up.                        *)
(*                                                                         *)
(* One Guard per command.  Its coroutine `looper` lives on the main        *)
(* thread; one stdout thread per process blocks in waitFor() and hands the *)
(* exit code to the looper over a rendezvous channel.  Handing over and    *)
(* resuming are two steps: the stdout thread completes the receive and     *)
(* posts the coroutine to the main looper, where it runs later.  Kotlin's  *)
(* prompt cancellation applies in between: a coroutine cancelled after the *)
(* hand-over but before it runs throws CancellationException and the exit  *)
(* code is lost.                                                           *)
(*                                                                         *)
(* Abstracted: command lines, exit codes (they are only logged), the       *)
(* clock (whether a process lived for 1000 ms is a free choice), the       *)
(* content of the streams.  A segment of main-thread code between two      *)
(* suspension points is one atomic step.                                   *)
(***************************************************************************)
EXTENDS Naturals, FiniteSets

CONSTANTS
    Cmds,       \* the commands given to start(): one guard each
    Callbacks   \* the commands started with an onRestartCallback

ASSUME CallbacksAssumption == Callbacks \subseteq Cmds

VARIABLES
    pc,         \* where each guard's looper is
    running,    \* the local variable `running` of each looper
    proc,       \* the guard's current operating-system process
    signal,     \* the strongest signal sent to that process by the clean-up
    cancelled,  \* the pool's Job is cancelled: close() was called
    fatal       \* the guards that launched onFatal

vars == <<pc, running, proc, signal, cancelled, fatal>>

(***************************************************************************)
(* pc:  "none"      start() has not been called for the command            *)
(*      "waiting"   suspended in exitChannel.receive() of the loop         *)
(*      "resumed"   that receive() got an exit code, the coroutine is      *)
(*                  posted to the main looper and has not run yet          *)
(*      "callback"  suspended in onRestartCallback                         *)
(*      "draining"  suspended in withTimeoutOrNull(1000) { receive() }     *)
(*      "drained"   that receive() got an exit code, not yet run           *)
(*      "forcing"   suspended in the receive() after destroyForcibly()     *)
(*      "done"      the coroutine has completed                            *)
(*                                                                         *)
(* proc: "alive", "zombie" (exited, its exit code still held by the stdout *)
(*      thread), "reaped" (the exit code was handed over).                 *)
(***************************************************************************)
PC   == {"none", "waiting", "resumed", "callback",
         "draining", "drained", "forcing", "done"}
Proc == {"none", "alive", "zombie", "reaped"}

Init ==
    /\ pc        = [g \in Cmds |-> "none"]
    /\ running   = [g \in Cmds |-> FALSE]
    /\ proc      = [g \in Cmds |-> "none"]
    /\ signal    = [g \in Cmds |-> "none"]
    /\ cancelled = FALSE
    /\ fatal     = {}

-----------------------------------------------------------------------------
(* pool.start(cmd): the first process is started and the looper launched.  *)
(* Callers only start commands on a pool they have not closed.             *)
Start(g) ==
    /\ pc[g] = "none"
    /\ ~cancelled
    /\ proc'    = [proc EXCEPT ![g] = "alive"]
    /\ pc'      = [pc EXCEPT ![g] = "waiting"]
    /\ running' = [running EXCEPT ![g] = TRUE]
    /\ UNCHANGED <<signal, cancelled, fatal>>

(* The process ends: by itself, by SIGTERM or by SIGKILL.                  *)
ProcessExit(g) ==
    /\ proc[g] = "alive"
    /\ proc' = [proc EXCEPT ![g] = "zombie"]
    /\ UNCHANGED <<pc, running, signal, cancelled, fatal>>

(* exitChannel.send(process.waitFor()) meets the receive() the looper is   *)
(* suspended in.  Nothing after the last receive() of the clean-up changes *)
(* state and it cannot be cancelled, so "forcing" ends at the hand-over.   *)
Received(p) == CASE p = "waiting"  -> "resumed"
                 [] p = "draining" -> "drained"
                 [] p = "forcing"  -> "done"

Send(g) ==
    /\ proc[g] = "zombie"
    /\ pc[g] \in {"waiting", "draining", "forcing"}
    /\ proc' = [proc EXCEPT ![g] = "reaped"]
    /\ pc'   = [pc EXCEPT ![g] = Received(pc[g])]
    /\ UNCHANGED <<running, signal, cancelled, fatal>>

(* Mutant of Restart: a looper that restarts without looking at the        *)
(* cancellation (a receive in NonCancellable).                             *)
RestartUncancellable(g) ==
    /\ pc[g] = "resumed"
    /\ running' = [running EXCEPT ![g] = FALSE]
    /\ proc'    = [proc EXCEPT ![g] = "alive"]
    /\ pc'      = [pc EXCEPT ![g] = IF g \in Callbacks THEN "callback"
                                                       ELSE "waiting"]
    /\ UNCHANGED <<signal, cancelled, fatal>>

(* The looper runs after an exit: the process had lived long enough and is *)
(* started again, then the restart callback, if any, is entered.  The code *)
(* leaves running = false (its `running = true` is commented out).         *)
Restart(g) ==
    /\ pc[g] = "resumed"
    /\ ~cancelled
    /\ running' = [running EXCEPT ![g] = FALSE]
    /\ proc'    = [proc EXCEPT ![g] = "alive"]
    /\ pc'      = [pc EXCEPT ![g] = IF g \in Callbacks THEN "callback"
                                                       ELSE "waiting"]
    /\ UNCHANGED <<signal, cancelled, fatal>>

(* Mutant of GiveUp: the guard ends without launching onFatal.             *)
GiveUpSilently(g) ==
    /\ pc[g] = "resumed"
    /\ ~cancelled
    /\ running' = [running EXCEPT ![g] = FALSE]
    /\ pc'      = [pc EXCEPT ![g] = "done"]
    /\ UNCHANGED <<proc, signal, cancelled, fatal>>

(* The looper runs after an exit and throws IOException: "exits too fast", *)
(* or start() failed.  onFatal is posted; running is already false.        *)
GiveUp(g) ==
    /\ pc[g] = "resumed"
    /\ ~cancelled
    /\ running' = [running EXCEPT ![g] = FALSE]
    /\ pc'      = [pc EXCEPT ![g] = "done"]
    /\ fatal'   = fatal \cup {g}
    /\ UNCHANGED <<proc, signal, cancelled>>

(* onRestartCallback returns: back to the top of the loop.                 *)
CallbackReturns(g) ==
    /\ pc[g] = "callback"
    /\ pc' = [pc EXCEPT ![g] = "waiting"]
    /\ UNCHANGED <<running, proc, signal, cancelled, fatal>>

(* onRestartCallback throws IOException.                                   *)
CallbackFails(g) ==
    /\ pc[g] = "callback"
    /\ pc'    = [pc EXCEPT ![g] = "done"]
    /\ fatal' = fatal \cup {g}
    /\ UNCHANGED <<running, proc, signal, cancelled>>

-----------------------------------------------------------------------------
(* The `finally` block of the looper up to its first suspension point: it  *)
(* destroys the process and starts draining only if `running`.             *)
CleanupPc(g)     == IF running[g] THEN "draining" ELSE "done"
CleanupSignal(g) == IF running[g] THEN "TERM" ELSE signal[g]

(* A suspended looper is resumed with CancellationException at once, on    *)
(* the main thread.                                                        *)
Suspended(g) == pc[g] \in {"waiting", "callback"}

(* pool.close(scope): cancel(); the scope then joins the pool's Job, which *)
(* completes when every looper has.                                        *)
Close ==
    /\ ~cancelled
    /\ cancelled' = TRUE
    /\ pc'     = [g \in Cmds |-> IF Suspended(g) THEN CleanupPc(g) ELSE pc[g]]
    /\ signal' = [g \in Cmds |-> IF Suspended(g) THEN CleanupSignal(g)
                                                 ELSE signal[g]]
    /\ UNCHANGED <<running, proc, fatal>>

(* A looper that was posted with an exit code before the cancellation runs *)
(* after it: prompt cancellation drops the exit code, `running = false` is *)
(* not reached, and the clean-up starts.                                   *)
ResumeCancelled(g) ==
    /\ pc[g] = "resumed"
    /\ cancelled
    /\ pc'     = [pc EXCEPT ![g] = CleanupPc(g)]
    /\ signal' = [signal EXCEPT ![g] = CleanupSignal(g)]
    /\ UNCHANGED <<running, proc, cancelled, fatal>>

(* Mutants of DrainTimeout: no last receive() after destroyForcibly();     *)
(* destroy() a second time instead of destroyForcibly().                   *)
DrainTimeoutNoReceive(g) ==
    /\ pc[g] \in {"draining", "drained"}
    /\ signal' = [signal EXCEPT ![g] = "KILL"]
    /\ pc'     = [pc EXCEPT ![g] = "done"]
    /\ UNCHANGED <<running, proc, cancelled, fatal>>

DrainTimeoutNoKill(g) ==
    /\ pc[g] \in {"draining", "drained"}
    /\ pc' = [pc EXCEPT ![g] = "forcing"]
    /\ UNCHANGED <<running, proc, signal, cancelled, fatal>>

(* The 1000 ms are over.  A receive() that completed but has not run yet   *)
(* ("drained") is cancelled all the same and its exit code is dropped.     *)
DrainTimeout(g) ==
    /\ pc[g] \in {"draining", "drained"}
    /\ signal' = [signal EXCEPT ![g] = "KILL"]
    /\ pc'     = [pc EXCEPT ![g] = "forcing"]
    /\ UNCHANGED <<running, proc, cancelled, fatal>>

(* The drained exit code arrives in time: return@withContext.              *)
DrainDone(g) ==
    /\ pc[g] = "drained"
    /\ pc' = [pc EXCEPT ![g] = "done"]
    /\ UNCHANGED <<running, proc, signal, cancelled, fatal>>

Next ==
    \/ Close
    \/ \E g \in Cmds : Start(g)
    \/ \E g \in Cmds : ProcessExit(g)
    \/ \E g \in Cmds : Send(g)
    \/ \E g \in Cmds : Restart(g)
    \/ \E g \in Cmds : GiveUp(g)
    \/ \E g \in Cmds : CallbackReturns(g)
    \/ \E g \in Cmds : CallbackFails(g)
    \/ \E g \in Cmds : ResumeCancelled(g)
    \/ \E g \in Cmds : DrainTimeout(g)
    \/ \E g \in Cmds : DrainDone(g)

(***************************************************************************)
(* Fairness: what is posted to the main looper runs, threads run, timers   *)
(* fire, a process sent SIGKILL dies.  sendFd bounds the restart callback. *)
(* Nothing obliges the owner to call start() or close(), and a process may *)
(* ignore SIGTERM.                                                         *)
(***************************************************************************)
Fairness ==
    \A g \in Cmds :
        /\ WF_vars(Send(g))
        /\ WF_vars(Restart(g) \/ GiveUp(g))
        /\ WF_vars(CallbackReturns(g) \/ CallbackFails(g))
        /\ WF_vars(ResumeCancelled(g))
        /\ WF_vars(DrainTimeout(g) \/ DrainDone(g))
        /\ WF_vars(signal[g] = "KILL" /\ ProcessExit(g))

Spec     == Init /\ [][Next]_vars
FairSpec == Spec /\ Fairness

-----------------------------------------------------------------------------
(* Invariant.  Every variable of every guard has its type.                 *)
TypeOK ==
    /\ pc        \in [Cmds -> PC]
    /\ running   \in [Cmds -> BOOLEAN]
    /\ proc      \in [Cmds -> Proc]
    /\ signal    \in [Cmds -> {"none", "TERM", "KILL"}]
    /\ cancelled \in BOOLEAN
    /\ fatal     \subseteq Cmds

(* The looper of g waits for an exit code that was already dropped.        *)
Lost(g) == pc[g] \in {"draining", "forcing"} /\ proc[g] = "reaped"

(* Invariant.  While the pool is open, a guard whose looper has ended is   *)
(* one that called onFatal, and only such a guard calls it: the service    *)
(* always hears of a helper nobody watches any more (looper, catch block). *)
DeathIsReported ==
    /\ fatal \subseteq {g \in Cmds : pc[g] = "done"}
    /\ ~cancelled => {g \in Cmds : pc[g] = "done"} \subseteq fatal

(* Invariant.  A looper that still has `running` set only completes once   *)
(* its process is dead and its exit code collected: SIGTERM, the 1000 ms,  *)
(* SIGKILL and both receives of the `finally` block, in every order in     *)
(* which exits, timer and main looper interleave.                          *)
FirstProcessKilled ==
    \A g \in Cmds : pc[g] = "done" /\ running[g] => proc[g] = "reaped"

(* Action property.  Once the pool is closed no process is started any     *)
(* more, not even by a looper that was about to restart one when close()   *)
(* was called (looper lines 73-82 against close).                          *)
NoStartAfterClose ==
    [][cancelled => \A g \in Cmds : proc'[g] = "alive" => proc[g] = "alive"]_vars

(* Liveness.  An exit in an open pool is acted upon: the process is        *)
(* started again, or the service is told, or the pool is closed.           *)
ExitIsHandled ==
    \A g \in Cmds :
        (proc[g] = "zombie" /\ ~cancelled)
            ~> (proc[g] = "alive" \/ g \in fatal \/ cancelled)

(* Liveness.  After close() every looper completes, except one whose exit  *)
(* code was dropped: the job.join() of close() then waits for ever.        *)
CloseTerminatesUnlessLost ==
    cancelled ~> \A g \in Cmds : pc[g] \in {"none", "done"} \/ Lost(g)

(* The part of the inductive invariant about one guard.                    *)
GuardInv(g) ==
    /\ pc[g] = "none" => proc[g] = "none" /\ g \notin fatal
    /\ pc[g] \in {"waiting", "callback"}
         => ~cancelled /\ proc[g] \in {"alive", "zombie"}
    /\ pc[g] = "callback" => ~running[g]
    /\ pc[g] \in {"resumed", "drained"} => proc[g] = "reaped"
    /\ pc[g] \in {"draining", "drained", "forcing"} => cancelled /\ running[g]
    /\ pc[g] = "done" => (cancelled \/ g \in fatal)
    /\ pc[g] = "done" /\ running[g] => proc[g] = "reaped"
    /\ g \in fatal => pc[g] = "done"

(* Invariant.  The inductive strengthening of the three above, guard by    *)
(* guard: it ties the looper's position to its process (a looper that was  *)
(* resumed holds a reaped process, one that waits holds an uncollected     *)
(* one), to its `running` flag and to the pool's cancellation.             *)
Inv == \A g \in Cmds : GuardInv(g)

(* Claim of the comment at line 95, "otherwise process already exited,     *)
(* nothing to be done": a looper that has ended leaves no live process.    *)
(* The code violates it: after a restart `running` is false although the   *)
(* process is alive.                                                       *)
OtherwiseExited ==
    \A g \in Cmds : pc[g] = "done" => proc[g] # "alive"

(* Claim of the comment at line 90, "clean-up cannot be cancelled": a      *)
(* closed pool completes.  The code violates it: a dropped exit code makes *)
(* the last receive() wait for ever.                                       *)
CloseTerminates ==
    cancelled ~> \A g \in Cmds : pc[g] \in {"none", "done"}
=============================================================================

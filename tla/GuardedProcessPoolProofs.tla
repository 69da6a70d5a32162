---------------------- MODULE GuardedProcessPoolProofs ----------------------
(***************************************************************************)
(* Proofs about GuardedProcessPool, for every set of commands and every    *)
(* choice of the ones that have a restart callback.                        *)
(***************************************************************************)
EXTENDS GuardedProcessPool, TLAPS

(* Type correctness of the pool: looper positions, processes and signals   *)
(* stay in their sets under every interleaving of exits and main looper.   *)
THEOREM Typing == Spec => []TypeOK
<1>1. Init => TypeOK
  BY DEF Init, TypeOK, PC, Proc
<1>2. TypeOK /\ [Next]_vars => TypeOK'
  <2> SUFFICES ASSUME TypeOK, [Next]_vars
               PROVE  TypeOK'
    OBVIOUS
  <2> USE DEF TypeOK, PC, Proc
  <2>1. CASE Close
    BY <2>1 DEF Close, CleanupPc, CleanupSignal
  <2>2. ASSUME NEW g \in Cmds, Start(g)           PROVE TypeOK'
    BY <2>2 DEF Start
  <2>3. ASSUME NEW g \in Cmds, ProcessExit(g)     PROVE TypeOK'
    BY <2>3 DEF ProcessExit
  <2>4. ASSUME NEW g \in Cmds, Send(g)            PROVE TypeOK'
    <3>1. Received(pc[g]) \in PC
      BY <2>4 DEF Send, Received
    <3> QED
      BY <2>4, <3>1 DEF Send
  <2>5. ASSUME NEW g \in Cmds, Restart(g)         PROVE TypeOK'
    BY <2>5 DEF Restart
  <2>6. ASSUME NEW g \in Cmds, GiveUp(g)          PROVE TypeOK'
    BY <2>6 DEF GiveUp
  <2>7. ASSUME NEW g \in Cmds, CallbackReturns(g) PROVE TypeOK'
    BY <2>7 DEF CallbackReturns
  <2>8. ASSUME NEW g \in Cmds, CallbackFails(g)   PROVE TypeOK'
    BY <2>8 DEF CallbackFails
  <2>9. ASSUME NEW g \in Cmds, ResumeCancelled(g) PROVE TypeOK'
    BY <2>9 DEF ResumeCancelled, CleanupPc, CleanupSignal
  <2>10. ASSUME NEW g \in Cmds, DrainTimeout(g)   PROVE TypeOK'
    BY <2>10 DEF DrainTimeout
  <2>11. ASSUME NEW g \in Cmds, DrainDone(g)      PROVE TypeOK'
    BY <2>11 DEF DrainDone
  <2>12. CASE UNCHANGED vars
    BY <2>12 DEF vars
  <2> QED
    BY <2>1, <2>2, <2>3, <2>4, <2>5, <2>6, <2>7, <2>8, <2>9, <2>10, <2>11,
       <2>12 DEF Next
<1> QED
  BY <1>1, <1>2, PTL DEF Spec

-----------------------------------------------------------------------------
(* The inductive invariant of the pool's bookkeeping is GuardInv of every  *)
(* guard: where the looper is, what it believes (`running`), what its      *)
(* process is doing and what has been reported.                            *)
THEOREM PoolInvariant == Spec => []Inv
<1>1. Init => Inv
  BY DEF Init, Inv, GuardInv
<1>2. TypeOK /\ Inv /\ [Next]_vars => Inv'
  <2> SUFFICES ASSUME TypeOK, Inv, [Next]_vars, NEW h \in Cmds
               PROVE  GuardInv(h)'
    BY DEF Inv
  <2> USE DEF TypeOK, Inv, GuardInv
  <2>1. CASE Close
    BY <2>1 DEF Close, CleanupPc, CleanupSignal, Suspended, PC
  <2>2. ASSUME NEW g \in Cmds, Start(g)           PROVE GuardInv(h)'
    BY <2>2 DEF Start
  <2>3. ASSUME NEW g \in Cmds, ProcessExit(g)     PROVE GuardInv(h)'
    BY <2>3 DEF ProcessExit
  <2>4. ASSUME NEW g \in Cmds, Send(g)            PROVE GuardInv(h)'
    BY <2>4 DEF Send, Received
  <2>5. ASSUME NEW g \in Cmds, Restart(g)         PROVE GuardInv(h)'
    BY <2>5 DEF Restart
  <2>6. ASSUME NEW g \in Cmds, GiveUp(g)          PROVE GuardInv(h)'
    BY <2>6 DEF GiveUp
  <2>7. ASSUME NEW g \in Cmds, CallbackReturns(g) PROVE GuardInv(h)'
    BY <2>7 DEF CallbackReturns
  <2>8. ASSUME NEW g \in Cmds, CallbackFails(g)   PROVE GuardInv(h)'
    BY <2>8 DEF CallbackFails
  <2>9. ASSUME NEW g \in Cmds, ResumeCancelled(g) PROVE GuardInv(h)'
    BY <2>9 DEF ResumeCancelled, CleanupPc
  <2>10. ASSUME NEW g \in Cmds, DrainTimeout(g)   PROVE GuardInv(h)'
    BY <2>10 DEF DrainTimeout
  <2>11. ASSUME NEW g \in Cmds, DrainDone(g)      PROVE GuardInv(h)'
    BY <2>11 DEF DrainDone
  <2>12. CASE UNCHANGED vars
    BY <2>12 DEF vars
  <2> QED
    BY <2>1, <2>2, <2>3, <2>4, <2>5, <2>6, <2>7, <2>8, <2>9, <2>10, <2>11,
       <2>12 DEF Next
<1> QED
  BY <1>1, <1>2, Typing, PTL DEF Spec

(* While the pool is open every looper that ended has called onFatal, and  *)
(* no looper calls it without ending (catch block of looper).              *)
THEOREM Reported == Spec => []DeathIsReported
<1>1. TypeOK /\ Inv => DeathIsReported
  BY DEF TypeOK, Inv, GuardInv, DeathIsReported
<1> QED
  BY <1>1, Typing, PoolInvariant, PTL

(* A looper that completes with `running` set has seen its process die:    *)
(* the clean-up of `finally` never gives up early.                         *)
THEOREM Killed == Spec => []FirstProcessKilled
<1>1. Inv => FirstProcessKilled
  BY DEF Inv, GuardInv, FirstProcessKilled
<1> QED
  BY <1>1, PoolInvariant, PTL

(* No process is started once close() has cancelled the pool, whatever the *)
(* loopers were about to do.                                               *)
THEOREM NothingStartsAfterClose == Spec => NoStartAfterClose
<1> DEFINE Step == cancelled => \A g \in Cmds : proc'[g] = "alive" => proc[g] = "alive"
<1>1. TypeOK /\ [Next]_vars => [Step]_vars
  <2> SUFFICES ASSUME TypeOK, cancelled, Next, NEW h \in Cmds, proc'[h] = "alive"
               PROVE  proc[h] = "alive"
    BY DEF vars
  <2> USE DEF TypeOK
  <2>1. ASSUME NEW g \in Cmds, ProcessExit(g) PROVE proc[h] = "alive"
    BY <2>1 DEF ProcessExit
  <2>2. ASSUME NEW g \in Cmds, Send(g) PROVE proc[h] = "alive"
    BY <2>2 DEF Send
  <2> QED
    BY <2>1, <2>2 DEF Next, Close, Start, Restart, GiveUp, CallbackReturns,
       CallbackFails, ResumeCancelled, DrainTimeout, DrainDone
<1> QED
  BY <1>1, Typing, PTL DEF Spec, NoStartAfterClose

(* An exit code dropped by a cancellation is never recovered: from then on *)
(* the looper waits for ever, so the join of close() never returns.  This  *)
(* is why the hang that CloseTerminates exhibits on a small pool exists in *)
(* every pool.                                                             *)
THEOREM LostIsForever ==
    ASSUME NEW g \in Cmds
    PROVE  Spec => [][Lost(g) => Lost(g)']_vars
<1>1. TypeOK /\ Inv /\ [Next]_vars => [Lost(g) => Lost(g)']_vars
  <2> SUFFICES ASSUME TypeOK, Inv, Lost(g), Next
               PROVE  Lost(g)'
    BY DEF vars
  <2> USE DEF TypeOK, Inv, GuardInv, Lost
  <2>1. CASE Close
    BY <2>1 DEF Close, Suspended
  <2>2. ASSUME NEW h \in Cmds, ResumeCancelled(h) PROVE Lost(g)'
    BY <2>2 DEF ResumeCancelled
  <2>3. ASSUME NEW h \in Cmds, DrainTimeout(h) PROVE Lost(g)'
    BY <2>3 DEF DrainTimeout
  <2>4. ASSUME NEW h \in Cmds, Send(h) PROVE Lost(g)'
    BY <2>4 DEF Send
  <2>5. ASSUME NEW h \in Cmds, ProcessExit(h) PROVE Lost(g)'
    BY <2>5 DEF ProcessExit
  <2>6. ASSUME NEW h \in Cmds,
               Start(h) \/ Restart(h) \/ GiveUp(h) \/ CallbackReturns(h)
               \/ CallbackFails(h) \/ DrainDone(h)
        PROVE  Lost(g)'
    BY <2>6 DEF Start, Restart, GiveUp, CallbackReturns, CallbackFails, DrainDone
  <2> QED
    BY <2>1, <2>2, <2>3, <2>4, <2>5, <2>6 DEF Next
<1> QED
  BY <1>1, Typing, PoolInvariant, PTL DEF Spec
=============================================================================

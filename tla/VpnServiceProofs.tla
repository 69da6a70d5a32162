-------------------------- MODULE VpnServiceProofs --------------------------
(***************************************************************************)
(* Proofs about VpnService, for every set of profiles, of job identities   *)
(* and of stop identities.  The typing theorem holds with revocations; the *)
(* invariant and its consequences are for a service that is not revoked,   *)
(* MaxRevokes = 0.                                                         *)
(***************************************************************************)
EXTENDS VpnService, TLAPS

(* Facts about the constants the model is built from.                      *)
LEMMA SessionIs ==
    /\ Session = {"processes", "worker", "trafficMonitor", "configFile",
                  "sslocal", "localDns", "conn", "tun2socks"}
    /\ \A acquired \in Prefixes : acquired \subseteq Session
<1>1. Len(Order) = 8 /\ 1..Len(Order) = {1, 2, 3, 4, 5, 6, 7, 8}
  BY DEF Order
<1>2. Session = {Order[n] : n \in {1, 2, 3, 4, 5, 6, 7, 8}}
  BY <1>1 DEF Session
<1>3. \A n \in 1..Len(Order) - 1 : \A m \in 1..n : m \in 1..Len(Order)
  BY <1>1
<1> QED
  BY <1>1, <1>2, <1>3 DEF Prefixes, Session, Order

(* Cancelling a job (the cancel of cancelAndJoin) leaves it where it is.   *)
LEMMA CancelType ==
    ASSUME NEW jobs \in [Jobs -> JobType], NEW c
    PROVE  /\ Cancel(c, jobs) \in [Jobs -> JobType]
           /\ \A j \in Jobs : Cancel(c, jobs)[j].pc = jobs[j].pc
BY DEF Cancel, JobType

(* The variables stopRunner assigns keep their types.                      *)
SharedTypeOK ==
    /\ state   \in State
    /\ proxy   \in Profiles \cup {NoProfile}
    /\ held    \subseteq Resources
    /\ stops   \in [Stops -> StopType]
    /\ pending \subseteq Profiles
    /\ crashed \in BOOLEAN

(* The last segment of the stop coroutine keeps the types.                 *)
LEMMA FinishedType ==
    ASSUME TypeOK, NEW s \in Stops, NEW restart \in BOOLEAN,
           NEW p \in Profiles \cup {NoProfile}, NEW q \in SUBSET Profiles,
           Finished(s, restart, p, q)
    PROVE  /\ state' \in State
           /\ stops' \in [Stops -> StopType]
           /\ pending' \subseteq Profiles
           /\ crashed' \in BOOLEAN
<1>1. FreeStop \in StopType
  BY DEF FreeStop, StopType
<1> QED
  BY <1>1 DEF TypeOK, Finished, State

(* The coroutineScope block of stopRunner keeps the types.                 *)
LEMMA CleanUpType ==
    ASSUME TypeOK, NEW s \in Stops, NEW restart \in BOOLEAN, NEW st \in State,
           NEW h \in SUBSET Resources, NEW q \in SUBSET Profiles,
           CleanUp(s, restart, st, h, q)
    PROVE  SharedTypeOK'
<1> DEFINE joins == h \cap Released(proxy) \cap Joinable
<1>1. held' \subseteq Resources /\ proxy' \in Profiles \cup {NoProfile}
  BY DEF CleanUp, TypeOK
<1>2. CASE joins = {}
  <2>1. Finished(s, restart, proxy, q)
    BY <1>2 DEF CleanUp
  <2>2. proxy \in Profiles \cup {NoProfile}
    BY DEF TypeOK
  <2> QED
    BY <1>1, <2>1, <2>2, FinishedType DEF SharedTypeOK
<1>3. CASE joins # {}
  <2> DEFINE new == [pc |-> "closing", restart |-> restart, job |-> NoJob,
                     closing |-> joins,
                     pool |-> IF h \cap Guards = {} THEN "none" ELSE "loopers"]
  <2>1. new \in StopType
    BY DEF StopType
  <2>2. /\ state' = st
        /\ stops' = [stops EXCEPT ![s] = new]
        /\ pending' = q
        /\ crashed' = crashed
    BY <1>3 DEF CleanUp
  <2> HIDE DEF new
  <2> QED
    BY <1>1, <2>1, <2>2 DEF SharedTypeOK, TypeOK
<1> QED
  BY <1>2, <1>3

(* The first segment of the stop coroutine keeps the types.                *)
LEMMA StopBeginsType ==
    ASSUME TypeOK, NEW s \in Stops, NEW restart \in BOOLEAN, NEW st \in State,
           NEW jobs \in [Jobs -> JobType], NEW h \in SUBSET Resources,
           NEW q \in SUBSET Profiles,
           StopBegins(s, restart, st, jobs, h, q)
    PROVE  SharedTypeOK' /\ job' \in [Jobs -> JobType]
<1>1. job' \in [Jobs -> JobType]
  BY CancelType DEF StopBegins
<1>2. CASE Completed(connectingJob, jobs)
  BY <1>1, <1>2, CleanUpType DEF StopBegins
<1>3. CASE ~Completed(connectingJob, jobs)
  <2> DEFINE new == [pc |-> "joining", restart |-> restart,
                     job |-> connectingJob, closing |-> {}, pool |-> "none"]
  <2>1. new \in StopType
    BY DEF StopType, TypeOK
  <2>2. /\ state' = st
        /\ stops' = [stops EXCEPT ![s] = new]
        /\ held' = h
        /\ pending' = q
        /\ proxy' = proxy
        /\ crashed' = crashed
    BY <1>3 DEF StopBegins
  <2> HIDE DEF new
  <2> QED
    BY <1>1, <2>1, <2>2 DEF SharedTypeOK, TypeOK
<1> QED
  BY <1>2, <1>3

(* stopRunner keeps the types, from whatever state it is called in.        *)
LEMMA StopRunnerType ==
    ASSUME TypeOK, NEW restart \in BOOLEAN, NEW jobs \in [Jobs -> JobType],
           NEW h \in SUBSET Resources, NEW q \in SUBSET Profiles,
           StopRunner(restart, jobs, h, q)
    PROVE  SharedTypeOK' /\ job' \in [Jobs -> JobType]
<1>1. CASE state = "Stopping"
  BY <1>1 DEF StopRunner, TypeOK, SharedTypeOK
<1>2. CASE state # "Stopping"
  <2>1. PICK s \in Stops : StopBegins(s, restart, "Stopping", jobs, h, q)
    BY <1>2 DEF StopRunner
  <2>2. "Stopping" \in State
    BY DEF State
  <2> QED
    BY <2>1, <2>2, StopBeginsType
<1> QED
  BY <1>1, <1>2

(* Every position of the connecting job is well typed; the bound on        *)
(* sendFd's tries is where MaxTries comes in.                              *)
LEMMA JobTypes ==
    ASSUME TypeOK, NEW j \in Jobs
    PROVE  /\ Ended(j) \in [Jobs -> JobType]
           /\ \A p \in {"idle", "posted", "preInit", "flatten", "sendFd"} :
                 JobAt(j, p) \in [Jobs -> JobType]
           /\ \A i \in Profiles :
                 [job EXCEPT ![j] = PostedJob(i)] \in [Jobs -> JobType]
           /\ job[j].tries <= MaxTries
                => [job EXCEPT ![j].tries = @ + 1] \in [Jobs -> JobType]
<1> USE BoundAssumption DEF TypeOK
<1>1. IdleJob \in JobType
  BY DEF IdleJob, JobType
<1>2. Ended(j) \in [Jobs -> JobType]
  BY <1>1 DEF Ended
<1>3. \A p \in {"idle", "posted", "preInit", "flatten", "sendFd"} :
          JobAt(j, p) \in [Jobs -> JobType]
  BY DEF JobAt, JobType
<1>4. \A i \in Profiles : PostedJob(i) \in JobType
  BY DEF PostedJob, JobType
<1>5. job[j].tries <= MaxTries
        => [job EXCEPT ![j].tries = @ + 1] \in [Jobs -> JobType]
  BY DEF JobType
<1> QED
  BY <1>2, <1>3, <1>4, <1>5

(* The catch block of the connecting job keeps the types.                  *)
LEMMA JobFailsType ==
    ASSUME TypeOK, NEW j \in Jobs, NEW acquired \in SUBSET Session,
           JobFails(j, acquired)
    PROVE  TypeOK'
<1>1. Ended(j) \in [Jobs -> JobType]
  BY JobTypes
<1>2. held \cup acquired \in SUBSET Resources /\ pending \in SUBSET Profiles
  BY DEF TypeOK, Resources
<1>3. SharedTypeOK' /\ job' \in [Jobs -> JobType]
  BY <1>1, <1>2, StopRunnerType DEF JobFails
<1> QED
  BY <1>3 DEF JobFails, TypeOK, SharedTypeOK

(* Type correctness of the service's state, with or without revocations.   *)
THEOREM Typing == Spec => []TypeOK
<1>1. Init => TypeOK
  <2>1. IdleJob \in JobType
    BY BoundAssumption DEF IdleJob, JobType
  <2>2. FreeStop \in StopType
    BY DEF FreeStop, StopType
  <2>3. [calls |-> 0, tested |-> FALSE] \in [calls : 0..MaxRevokes, tested : BOOLEAN]
    BY BoundAssumption
  <2> QED
    BY <2>1, <2>2, <2>3 DEF Init, TypeOK, State
<1>2. TypeOK /\ [Next]_vars => TypeOK'
  <2> SUFFICES ASSUME TypeOK, [Next]_vars
               PROVE  TypeOK'
    OBVIOUS
  <2>1. ASSUME NEW i \in Intents, NEW own \in BOOLEAN, StartDenied(i, own)
        PROVE  TypeOK'
    <3>1. Undelivered(i, own) \in SUBSET Profiles
      BY DEF Undelivered, TypeOK
    <3>2. SharedTypeOK' /\ job' \in [Jobs -> JobType]
      BY <2>1, <3>1, StopRunnerType DEF StartDenied, TypeOK
    <3> QED
      BY <2>1, <3>2 DEF StartDenied, TypeOK, SharedTypeOK
  <2>2. ASSUME NEW i \in Intents, NEW own \in BOOLEAN, StartIgnored(i, own)
        PROVE  TypeOK'
    BY <2>2 DEF StartIgnored, TypeOK, Undelivered
  <2>3. ASSUME NEW i \in Intents, NEW own \in BOOLEAN, StartRejected(i, own)
        PROVE  TypeOK'
    <3>1. /\ Undelivered(i, own) \in SUBSET Profiles
          /\ held \cup {"notification"} \in SUBSET Resources
      BY DEF Undelivered, TypeOK, Resources, Receivers
    <3>2. SharedTypeOK' /\ job' \in [Jobs -> JobType]
      BY <2>3, <3>1, StopRunnerType DEF StartRejected, TypeOK
    <3> QED
      BY <2>3, <3>2 DEF StartRejected, TypeOK, SharedTypeOK
  <2>4. ASSUME NEW i \in Intents, NEW own \in BOOLEAN, NEW j \in Jobs,
               StartAccepted(i, own, j)
        PROVE  TypeOK'
    <3>1. job' \in [Jobs -> JobType]
      BY <2>4, JobTypes DEF StartAccepted, Valid
    <3> QED
      BY <2>4, <3>1 DEF StartAccepted, Valid, TypeOK, Undelivered, State, Resources
  <2>5. ASSUME NEW j \in Jobs, JobRuns(j) \/ BeginFlatten(j) PROVE TypeOK'
    BY <2>5, JobTypes, ZenonT(30) DEF JobRuns, BeginFlatten, TypeOK
  <2>6. ASSUME NEW j \in Jobs, StartProcesses(j) PROVE TypeOK'
    BY <2>6, JobTypes DEF StartProcesses, TypeOK, Resources
  <2>7. ASSUME NEW j \in Jobs, NEW acquired \in Prefixes,
               StartProcessesFails(j, acquired)
        PROVE  TypeOK'
    BY <2>7, JobFailsType, SessionIs DEF StartProcessesFails
  <2>8. ASSUME NEW j \in Jobs, FlattenFails(j) \/ SendFdFails(j) PROVE TypeOK'
    <3>1. JobFails(j, {})
      BY <2>8 DEF FlattenFails, SendFdFails
    <3> QED
      BY <3>1, JobFailsType
  <2>9. ASSUME NEW j \in Jobs, SendFdSucceeds(j) PROVE TypeOK'
    BY <2>9, JobTypes DEF SendFdSucceeds, TypeOK, State
  <2>10. ASSUME NEW j \in Jobs, SendFdRetries(j) PROVE TypeOK'
    BY <2>10, JobTypes DEF SendFdRetries, TypeOK
  <2>11. ASSUME NEW j \in Jobs, JobCancelled(j) PROVE TypeOK'
    BY <2>11, JobTypes DEF JobCancelled, TypeOK
  <2>12. ASSUME NEW s \in Stops, RevokedStopBegins(s) PROVE TypeOK'
    <3>1. SharedTypeOK' /\ job' \in [Jobs -> JobType]
      BY <2>12, StopBeginsType DEF RevokedStopBegins, TypeOK
    <3> QED
      BY <2>12, <3>1 DEF RevokedStopBegins, TypeOK, SharedTypeOK
  <2>13. ASSUME NEW s \in Stops, ShutdownsDone(s) \/ ExitCodeLost(s) PROVE TypeOK'
    <3>1. stops' \in [Stops -> StopType]
      BY <2>13 DEF ShutdownsDone, ExitCodeLost, TypeOK, StopType, Joinable
    <3> QED
      BY <2>13, <3>1 DEF ShutdownsDone, ExitCodeLost, TypeOK
  <2>14. ASSUME NEW s \in Stops, StopDone(s) PROVE TypeOK'
    <3>1. /\ stops[s].restart \in BOOLEAN
          /\ proxy \in Profiles \cup {NoProfile}
          /\ pending \in SUBSET Profiles
      BY DEF TypeOK, StopType
    <3>2. /\ state' \in State
          /\ stops' \in [Stops -> StopType]
          /\ pending' \subseteq Profiles
          /\ crashed' \in BOOLEAN
      BY <2>14, <3>1, FinishedType DEF StopDone
    <3> QED
      BY <2>14, <3>2 DEF StopDone, TypeOK
  <2>15. ASSUME NEW s \in Stops, StopJoined(s) PROVE TypeOK'
    <3>1. stops[s].restart \in BOOLEAN
      BY DEF TypeOK, StopType
    <3>2. SharedTypeOK'
      BY <2>15, <3>1, CleanUpType DEF StopJoined, TypeOK
    <3> QED
      BY <2>15, <3>2 DEF StopJoined, TypeOK, SharedTypeOK
  <2>16. CASE CloseReceived
    <3>1. SharedTypeOK' /\ job' \in [Jobs -> JobType]
      BY <2>16, StopRunnerType DEF CloseReceived, TypeOK
    <3> QED
      BY <2>16, <3>1 DEF CloseReceived, TypeOK, SharedTypeOK
  <2>17. CASE ForceLoad
    <3>1. SharedTypeOK' /\ job' \in [Jobs -> JobType]
      <4>1. CASE state = "Stopped"
        BY <2>17, <4>1 DEF ForceLoad, TypeOK, SharedTypeOK
      <4>2. CASE state # "Stopped"
        BY <2>17, <4>2, StopRunnerType DEF ForceLoad, TypeOK
      <4> QED
        BY <4>1, <4>2
    <3> QED
      BY <2>17, <3>1 DEF ForceLoad, TypeOK, SharedTypeOK
  <2>18. ASSUME NEW g \in Guards, PostFatal(g) PROVE TypeOK'
    BY <2>18 DEF PostFatal, TypeOK
  <2>19. ASSUME NEW g \in Guards, OnFatal(g) PROVE TypeOK'
    <3>1. SharedTypeOK' /\ job' \in [Jobs -> JobType]
      BY <2>19, StopRunnerType DEF OnFatal, TypeOK
    <3> QED
      BY <2>19, <3>1 DEF OnFatal, TypeOK, SharedTypeOK
  <2>20. CASE RestartCallbackFails
    <3>1. SharedTypeOK' /\ job' \in [Jobs -> JobType]
      BY <2>20, StopRunnerType DEF RestartCallbackFails, TypeOK
    <3> QED
      BY <2>20, <3>1 DEF RestartCallbackFails, TypeOK, SharedTypeOK
  <2>21. CASE RevokeTests
    BY <2>21, BoundAssumption DEF RevokeTests, TypeOK
  <2>22. ASSUME NEW s \in Stops, RevokeStops(s) PROVE TypeOK'
    <3>1. [FreeStop EXCEPT !.pc = "posted"] \in StopType
      BY DEF FreeStop, StopType
    <3>2. revoke' \in [calls : 0..MaxRevokes, tested : BOOLEAN]
      BY <2>22 DEF RevokeStops, TypeOK
    <3> QED
      BY <2>22, <3>1, <3>2 DEF RevokeStops, TypeOK, State
  <2>23. CASE UNCHANGED vars
    BY <2>23 DEF vars, TypeOK
  <2>24. ASSUME NEW j \in Jobs, JobStep(j) \/ FlattenStep(j) PROVE TypeOK'
    BY <2>24, <2>5, <2>6, <2>7, <2>8, <2>9, <2>10, <2>11
       DEF JobStep, FlattenStep
  <2>25. CASE MainLooper
    BY <2>25, <2>1, <2>2, <2>3, <2>4, <2>24, <2>12, <2>13, <2>14, <2>16,
       <2>17, <2>18, <2>19, <2>20 DEF MainLooper, Start, StopStep, Event
  <2> QED
    BY <2>15, <2>21, <2>22, <2>23, <2>25 DEF Next, BinderThread
<1> QED
  BY <1>1, <1>2, PTL DEF Spec

-----------------------------------------------------------------------------
(* How the resources, the receivers and the guards relate.                 *)
LEMMA ResourceFacts ==
    /\ "processes" \in Resources /\ "processes" \in Joinable
    /\ "processes" \notin Guards
    /\ "notification" \in Receivers /\ "notification" \notin Joinable
    /\ "receiver" \in Receivers
    /\ "tun2socks" \in Guards /\ "sslocal" \in Guards
    /\ Guards \subseteq Resources
    /\ Receivers \subseteq Resources
    /\ Session \subseteq Resources
    /\ Receivers \cap Session = {}
    /\ "processes" \notin Receivers
    /\ Receivers \cap Guards = {}
    /\ "processes" \in Session
BY SessionIs DEF Resources, Receivers, Guards, Joinable

(* What cancelAndJoin does to the job it is given, and to the others.      *)
LEMMA CancelFacts ==
    ASSUME NEW jobs \in [Jobs -> JobType], NEW c, NEW j \in Jobs
    PROVE  /\ Cancel(c, jobs)[j].pc = jobs[j].pc
           /\ j # c => Cancel(c, jobs)[j] = jobs[j]
           /\ j = c => Cancel(c, jobs)[j].cancelled = TRUE
BY DEF Cancel, JobType

(* Cleaning up leaves nothing held and one stop at most: the heart of      *)
(* every path through stopRunner.                                          *)
LEMMA CleanUpInv ==
    ASSUME TypeOK, NEW s \in Stops, NEW restart \in BOOLEAN,
           NEW h \in SUBSET Resources, NEW q \in SUBSET Profiles,
           CleanUp(s, restart, "Stopping", h, q),
           ~crashed,
           \A t \in Stops : t # s => stops[t].pc = "free" /\ stops[t].pool # "lost",
           restart => proxy \in Valid,
           proxy \in Valid \/ h \subseteq Receivers,
           \A j \in Jobs : job'[j].pc = "idle",
           ~revoke'.tested,
           fatals' # {} => "processes" \in h
    PROVE  Inv'
<1> DEFINE joins == h \cap Released(proxy) \cap Joinable
<1>1. held' = {}
  <2>1. CASE proxy \in Valid
    BY <2>1, ProfileAssumption DEF CleanUp, Released, Valid
  <2>2. CASE h \subseteq Receivers
    BY <2>2 DEF CleanUp, Released, ProxyOwned, Receivers, Resources
  <2> QED
    BY <2>1, <2>2
<1>2. "processes" \in h => "processes" \in joins
  BY ResourceFacts DEF Released, ProxyOwned
<1>3. proxy' = IF restart THEN proxy ELSE NoProfile
  BY DEF CleanUp
<1>4. CASE joins = {}
  <2>1. Finished(s, restart, proxy, q)
    BY <1>4 DEF CleanUp
  <2>2. /\ state' = "Stopped"
        /\ ~crashed'
    BY <2>1, ProfileAssumption DEF Finished, Valid
  <2>3. \A t \in Stops : stops'[t].pc = "free" /\ stops'[t].pool # "lost"
    BY <2>1 DEF Finished, TypeOK, FreeStop
  <2>4. fatals' = {}
    BY <1>2, <1>4
  <2> QED
    BY <1>1, <2>2, <2>3, <2>4
       DEF Inv, StopInv, JobInv, StateInv, FatalInv, Active, Busy
<1>5. CASE joins # {}
  <2>1. /\ state' = "Stopping"
        /\ crashed' = crashed
        /\ stops' = [stops EXCEPT ![s] =
                             [pc |-> "closing", restart |-> restart,
                              job |-> NoJob, closing |-> joins,
                              pool |-> IF h \cap Guards = {} THEN "none" ELSE "loopers"]]
    BY <1>5 DEF CleanUp
  <2>2. /\ stops'[s].pc = "closing" /\ stops'[s].pool # "lost"
        /\ stops'[s].restart = restart
        /\ \A t \in Stops : t # s => stops'[t].pc = "free" /\ stops'[t].pool # "lost"
    BY <2>1 DEF TypeOK
  <2>3. \A t \in Stops : StopInv(t)'
    BY <1>1, <1>3, <2>1, <2>2 DEF StopInv, Active, Busy
  <2> QED
    BY <1>1, <2>1, <2>2, <2>3 DEF Inv, JobInv, StateInv, FatalInv, Active, Busy
<1> QED
  BY <1>4, <1>5

(* Where the connecting job is, seen from data.connectingJob.              *)
LEMMA ConnectingJobFacts ==
    ASSUME TypeOK, Inv
    PROVE  /\ state = "Connecting" =>
                /\ connectingJob \in Jobs
                /\ Busy(connectingJob)
                /\ ~job[connectingJob].cancelled
                /\ \A j \in Jobs : j # connectingJob => ~Busy(j)
           /\ state \in {"Stopped", "Connected"} => Completed(connectingJob, job)
           /\ state # "Stopping" => \A s \in Stops : ~Active(s)
<1>1. state # "Stopping" => \A s \in Stops : ~Active(s)
  BY DEF Inv, StopInv
<1>2. state = "Connecting" =>
        /\ connectingJob \in Jobs
        /\ Busy(connectingJob)
        /\ ~job[connectingJob].cancelled
        /\ \A j \in Jobs : j # connectingJob => ~Busy(j)
  BY <1>1 DEF Inv, StateInv, JobInv, Active
<1>3. state \in {"Stopped", "Connected"} => Completed(connectingJob, job)
  BY DEF TypeOK, Inv, StateInv, Busy, Completed
<1> QED
  BY <1>1, <1>2, <1>3

(* A call of stopRunner on the main thread that brings no change of its    *)
(* own but, perhaps, a delivered onFatal or intent.                        *)
LEMMA StopRunnerInv ==
    ASSUME TypeOK, Inv, NEW restart \in BOOLEAN, NEW q \in SUBSET Profiles,
           StopRunner(restart, job, held, q),
           restart => state \in {"Connecting", "Connected"},
           connectingJob' = connectingJob,
           fatals' \subseteq fatals,
           revoke' = revoke
    PROVE  Inv'
<1>1. CASE state = "Stopping"
  <2>1. /\ job' = job /\ held' = held /\ state' = state /\ proxy' = proxy
        /\ stops' = stops /\ crashed' = crashed
    BY <1>1 DEF StopRunner
  <2> QED
    BY <1>1, <2>1 DEF Inv, StopInv, JobInv, StateInv, FatalInv, Active, Busy
<1>2. CASE state # "Stopping"
  <2>1. PICK s \in Stops : StopBegins(s, restart, "Stopping", job, held, q)
    BY <1>2 DEF StopRunner
  <2>2. \A t \in Stops : stops[t].pc = "free" /\ stops[t].pool # "lost"
    BY <1>2, ConnectingJobFacts DEF Active, Inv, StopInv
  <2>3. /\ ~crashed /\ ~revoke'.tested
        /\ held \in SUBSET Resources
    BY DEF Inv, TypeOK
  <2>4. job' = Cancel(connectingJob, job) /\ job \in [Jobs -> JobType]
    BY <2>1 DEF StopBegins, TypeOK
  <2>5. CASE state \in {"Stopped", "Connected"}
    <3>1. CleanUp(s, restart, "Stopping", held, q)
      BY <2>1, <2>5, ConnectingJobFacts DEF StopBegins
    <3>2. \A j \in Jobs : job'[j].pc = "idle"
      <4>1. \A j \in Jobs : job[j].pc = "idle"
        BY <2>5 DEF Inv, StateInv, Busy
      <4>2. \A j \in Jobs : Cancel(connectingJob, job)[j].pc = job[j].pc
        BY <2>4, CancelType
      <4> QED
        BY <2>4, <4>1, <4>2
    <3>3. restart => proxy \in Valid
      BY <2>5 DEF Inv, StateInv
    <3>4. proxy \in Valid \/ held \subseteq Receivers
      BY <2>5 DEF Inv, StateInv
    <3>5. fatals' # {} => "processes" \in held
      BY <2>2, <2>5 DEF Inv, FatalInv
    <3> QED
      BY <2>2, <2>3, <3>1, <3>2, <3>3, <3>4, <3>5, CleanUpInv
  <2>6. CASE state = "Connecting"
    <3> DEFINE c == connectingJob
    <3>1. /\ c \in Jobs /\ Busy(c) /\ c # NoJob
          /\ \A j \in Jobs : j # c => ~Busy(j)
      BY <2>6, ConnectingJobFacts, JobAssumption
    <3>2. ~Completed(c, job)
      BY <3>1 DEF Completed, Busy
    <3>3. /\ state' = "Stopping" /\ held' = held
          /\ proxy' = proxy /\ crashed' = crashed
          /\ stops' = [stops EXCEPT ![s] = [pc |-> "joining", restart |-> restart,
                                            job |-> c, closing |-> {},
                                            pool |-> "none"]]
      BY <2>1, <3>2 DEF StopBegins
    <3>4. /\ stops'[s].pc = "joining" /\ stops'[s].job = c /\ stops'[s].pool # "lost"
          /\ \A t \in Stops : t # s => stops'[t].pc = "free" /\ stops'[t].pool # "lost"
      BY <2>2, <3>3 DEF TypeOK
    <3>5. /\ job'[c].cancelled
          /\ \A j \in Jobs : j # c => job'[j].pc = "idle"
      BY <2>4, <3>1, CancelFacts, ZenonT(60) DEF Busy
    <3>6. proxy' \in Valid
      BY <2>6, <3>3 DEF Inv, StateInv
    <3>7. \A t \in Stops : StopInv(t)'
      BY <3>1, <3>3, <3>4, <3>6 DEF StopInv, Active
    <3>8. \A j \in Jobs : JobInv(j)'
      BY <3>1, <3>4, <3>5 DEF JobInv, Busy
    <3>9. StateInv'
      BY <3>3, <3>4 DEF StateInv, Active
    <3>10. FatalInv'
      BY <2>2, <3>3 DEF Inv, FatalInv
    <3> QED
      BY <2>3, <3>3, <3>7, <3>8, <3>9, <3>10 DEF Inv
  <2> QED
    BY <1>2, <2>5, <2>6 DEF TypeOK, State
<1> QED
  BY <1>1, <1>2

(* The connecting job gives up while the service is Connecting: stopRunner *)
(* finds a job that ends at once, and cleans up whatever was acquired.     *)
LEMMA JobFailsInv ==
    ASSUME TypeOK, Inv, NEW j \in Jobs, NEW acquired \in SUBSET Session,
           job[j].pc # "idle", ~job[j].cancelled,
           JobFails(j, acquired)
    PROVE  Inv'
<1>1. state = "Connecting" /\ connectingJob = j
  BY DEF Inv, JobInv, Busy
<1>2. \A t \in Stops : stops[t].pc = "free" /\ stops[t].pool # "lost"
  BY <1>1, ConnectingJobFacts DEF Active, Inv, StopInv
<1>3. Ended(j) \in [Jobs -> JobType] /\ \A i \in Jobs : Ended(j)[i].pc = "idle"
  BY <1>1, ConnectingJobFacts, JobTypes DEF Ended, IdleJob, TypeOK, Busy
<1>4. PICK s \in Stops :
        StopBegins(s, FALSE, "Stopping", Ended(j), held \cup acquired, pending)
  BY <1>1 DEF JobFails, StopRunner
<1>5. CleanUp(s, FALSE, "Stopping", held \cup acquired, pending)
  BY <1>1, <1>3, <1>4 DEF StopBegins, Completed
<1>6. \A i \in Jobs : job'[i].pc = "idle"
  <2>1. \A i \in Jobs : Cancel(connectingJob, Ended(j))[i].pc = Ended(j)[i].pc
    BY <1>3, CancelType
  <2> QED
    BY <1>3, <1>4, <2>1 DEF StopBegins
<1>7. proxy \in Valid
  BY <1>1 DEF Inv, StateInv
<1>8. /\ ~crashed /\ ~revoke'.tested /\ pending \in SUBSET Profiles
      /\ held \cup acquired \in SUBSET Resources
  BY ResourceFacts DEF JobFails, Inv, TypeOK
<1>9. fatals' # {} => "processes" \in held \cup acquired
  BY <1>2 DEF JobFails, Inv, FatalInv
<1> QED
  BY <1>2, <1>5, <1>6, <1>7, <1>8, <1>9, CleanUpInv

(* One step of a job that stays alive and leaves the rest alone.           *)
LEMMA JobMoves ==
    ASSUME TypeOK, Inv, NEW j \in Jobs, NEW p \in {"preInit", "flatten", "sendFd"},
           job[j].pc # "idle", job[j].pc # "sendFd", ~job[j].cancelled,
           job' = JobAt(j, p),
           held' = IF p = "sendFd" THEN held \cup Session ELSE held,
           UNCHANGED <<state, proxy, connectingJob, stops, fatals, revoke, crashed>>
    PROVE  Inv'
<1>1. state = "Connecting" /\ connectingJob = j /\ held = Receivers
  BY DEF Inv, JobInv, Busy
<1>2. \A t \in Stops : stops[t].pc = "free" /\ stops[t].pool # "lost"
  BY <1>1, ConnectingJobFacts DEF Active, Inv, StopInv
<1>3. fatals = {}
  BY <1>1, <1>2, ResourceFacts DEF Inv, FatalInv
<1>4. /\ job'[j].pc = p /\ job'[j].cancelled = job[j].cancelled
      /\ \A i \in Jobs : i # j => job'[i] = job[i]
  BY DEF JobAt, TypeOK, JobType
<1>5. \A i \in Jobs : i # j => job[i].pc = "idle"
  BY <1>1, ConnectingJobFacts DEF Busy
<1>6. \A i \in Jobs : JobInv(i)'
  BY <1>1, <1>3, <1>4, <1>5 DEF JobInv, Busy, Resources
<1>7. \A t \in Stops : StopInv(t)'
  BY <1>2 DEF StopInv, Active
<1>8. StateInv'
  BY <1>1, <1>4 DEF Inv, StateInv, Busy
<1>9. FatalInv'
  BY <1>1, <1>3, ResourceFacts DEF FatalInv
<1> QED
  BY <1>6, <1>7, <1>8, <1>9 DEF Inv

(* The inductive invariant of a service that is not revoked.               *)
THEOREM ServiceInvariant ==
    ASSUME MaxRevokes = 0
    PROVE  Spec => []Inv
<1>1. Init => Inv
  BY DEF Init, Inv, StopInv, JobInv, StateInv, FatalInv, Active, Busy,
         IdleJob, FreeStop
<1>2. TypeOK /\ Inv /\ [Next]_vars => Inv'
  <2> SUFFICES ASSUME TypeOK, Inv, [Next]_vars
               PROVE  Inv'
    OBVIOUS
  <2>0. pending \in SUBSET Profiles
    BY DEF TypeOK
  <2>1. ASSUME NEW i \in Intents, NEW own \in BOOLEAN, StartDenied(i, own)
        PROVE  Inv'
    <3>1. Undelivered(i, own) \in SUBSET Profiles
      BY DEF Undelivered, TypeOK
    <3> QED
      BY <2>1, <3>1, StopRunnerInv DEF StartDenied
  <2>2. ASSUME NEW i \in Intents, NEW own \in BOOLEAN, StartIgnored(i, own)
        PROVE  Inv'
    BY <2>2 DEF StartIgnored, Inv, StopInv, JobInv, StateInv, FatalInv, Active, Busy
  <2>3. ASSUME NEW i \in Intents, NEW own \in BOOLEAN, StartRejected(i, own)
        PROVE  Inv'
    <3> DEFINE q == Undelivered(i, own)
               h == held \cup {"notification"}
    <3>1. state = "Stopped" /\ held = {} /\ \A j \in Jobs : job[j].pc = "idle"
      BY <2>3 DEF StartRejected, Inv, StateInv, Busy
    <3>2. q \in SUBSET Profiles /\ h \in SUBSET Resources /\ h \subseteq Receivers
      BY <3>1, ResourceFacts DEF Undelivered, TypeOK
    <3>3. PICK s \in Stops : StopBegins(s, FALSE, "Stopping", job, h, q)
      BY <2>3, <3>1 DEF StartRejected, StopRunner
    <3>4. CleanUp(s, FALSE, "Stopping", h, q)
      BY <3>1, <3>3, ConnectingJobFacts DEF StopBegins
    <3>5. \A t \in Stops : stops[t].pc = "free" /\ stops[t].pool # "lost"
      BY <3>1, ConnectingJobFacts DEF Active, Inv, StopInv
    <3>6. \A j \in Jobs : job'[j].pc = "idle"
      <4>1. \A j \in Jobs : Cancel(connectingJob, job)[j].pc = job[j].pc
        BY CancelType DEF TypeOK
      <4> QED
        BY <3>1, <3>3, <4>1 DEF StopBegins
    <3>7. /\ ~crashed /\ ~revoke'.tested
          /\ fatals' = {}
      BY <2>3, <3>1, <3>5 DEF StartRejected, Inv, FatalInv
    <3> HIDE DEF q, h
    <3> QED
      BY <3>2, <3>4, <3>5, <3>6, <3>7, CleanUpInv
  <2>4. ASSUME NEW i \in Intents, NEW own \in BOOLEAN, NEW j \in Jobs,
               StartAccepted(i, own, j)
        PROVE  Inv'
    <3>1. state = "Stopped" /\ held = {} /\ \A k \in Jobs : job[k].pc = "idle"
      BY <2>4 DEF StartAccepted, Inv, StateInv, Busy
    <3>2. \A t \in Stops : stops[t].pc = "free" /\ stops[t].pool # "lost"
      BY <3>1, ConnectingJobFacts DEF Active, Inv, StopInv
    <3>3. /\ job'[j].pc = "posted" /\ ~job'[j].cancelled
          /\ \A k \in Jobs : k # j => job'[k].pc = "idle"
      BY <2>4, <3>1 DEF StartAccepted, TypeOK, PostedJob
    <3>4. /\ state' = "Connecting" /\ connectingJob' = j /\ proxy' \in Valid
          /\ held' = Receivers /\ stops' = stops /\ fatals' = {}
          /\ ~crashed' /\ ~revoke'.tested
      BY <2>4, <3>1, <3>2 DEF StartAccepted, Valid, Inv, FatalInv
    <3>5. \A k \in Jobs : JobInv(k)'
      BY <3>3, <3>4 DEF JobInv, Busy
    <3>6. \A t \in Stops : StopInv(t)'
      BY <3>2, <3>4 DEF StopInv, Active
    <3>7. StateInv' /\ FatalInv'
      BY <3>3, <3>4, ResourceFacts DEF StateInv, FatalInv, Busy
    <3> QED
      BY <3>4, <3>5, <3>6, <3>7 DEF Inv
  <2>5. ASSUME NEW j \in Jobs, JobRuns(j) \/ BeginFlatten(j) PROVE Inv'
    BY <2>5, JobMoves DEF JobRuns, BeginFlatten, Ready
  <2>6. ASSUME NEW j \in Jobs, StartProcesses(j) PROVE Inv'
    BY <2>6, JobMoves DEF StartProcesses, Prepared, Ready
  <2>7. ASSUME NEW j \in Jobs, NEW acquired \in Prefixes,
               StartProcessesFails(j, acquired)
        PROVE  Inv'
    BY <2>7, JobFailsInv, SessionIs DEF StartProcessesFails, Prepared, Ready
  <2>8. ASSUME NEW j \in Jobs, FlattenFails(j) \/ SendFdFails(j) PROVE Inv'
    <3>1. JobFails(j, {}) /\ job[j].pc # "idle" /\ ~job[j].cancelled
      BY <2>8 DEF FlattenFails, SendFdFails, Ready
    <3> QED
      BY <3>1, JobFailsInv
  <2>9. ASSUME NEW j \in Jobs, SendFdSucceeds(j) PROVE Inv'
    <3>1. /\ state = "Connecting" /\ connectingJob = j
          /\ Resources \ held = fatals
      BY <2>9 DEF SendFdSucceeds, Ready, Inv, JobInv, Busy
    <3>2. \A t \in Stops : stops[t].pc = "free" /\ stops[t].pool # "lost"
      BY <3>1, ConnectingJobFacts DEF Active, Inv, StopInv
    <3>3. \A k \in Jobs : job'[k].pc = "idle"
      BY <2>9, <3>1, ConnectingJobFacts
         DEF SendFdSucceeds, Ended, IdleJob, TypeOK, Busy
    <3>4. proxy \in Valid
      BY <3>1 DEF Inv, StateInv
    <3> QED
      BY <2>9, <3>1, <3>2, <3>3, <3>4
         DEF SendFdSucceeds, Inv, StopInv, JobInv, StateInv, FatalInv, Active, Busy
  <2>10. ASSUME NEW j \in Jobs, SendFdRetries(j) PROVE Inv'
    <3>1. \A k \in Jobs : /\ job'[k].pc = job[k].pc
                          /\ job'[k].cancelled = job[k].cancelled
      BY <2>10 DEF SendFdRetries, TypeOK, JobType
    <3> QED
      BY <2>10, <3>1 DEF SendFdRetries, Inv, StopInv, JobInv, StateInv,
                         FatalInv, Active, Busy
  <2>11. ASSUME NEW j \in Jobs, JobCancelled(j) PROVE Inv'
    <3>1. connectingJob = j /\ \E s \in Stops : stops[s].pc = "joining"
      BY <2>11 DEF JobCancelled, Inv, JobInv, Busy
    <3>2. state = "Stopping"
      BY <3>1 DEF Inv, StopInv, Active
    <3>3. \A k \in Jobs : job'[k].pc = "idle"
      BY <2>11, <3>1 DEF JobCancelled, Ended, IdleJob, TypeOK, Inv, JobInv, Busy
    <3> QED
      BY <2>11, <3>1, <3>2, <3>3 DEF JobCancelled, Inv, StopInv, JobInv,
                                StateInv, FatalInv, Active, Busy
  <2>12. ASSUME NEW s \in Stops, RevokedStopBegins(s) PROVE Inv'
    BY <2>12 DEF RevokedStopBegins, Inv, StopInv
  <2>13. ASSUME NEW s \in Stops, ShutdownsDone(s) \/ ExitCodeLost(s) PROVE Inv'
    <3>1. \A t \in Stops : /\ stops'[t].pc = stops[t].pc
                           /\ stops'[t].restart = stops[t].restart
                           /\ stops'[t].job = stops[t].job
      BY <2>13 DEF ShutdownsDone, ExitCodeLost, TypeOK, StopType
    <3>2. \A t \in Stops : stops'[t].pool = "lost" =>
                            stops'[t].pc = "closing" /\ stops'[t].closing # {}
      BY <2>13 DEF ShutdownsDone, ExitCodeLost, TypeOK, StopType, Inv, StopInv
    <3> QED
      BY <2>13, <3>1, <3>2 DEF ShutdownsDone, ExitCodeLost, Inv, StopInv, JobInv, StateInv,
                         FatalInv, Active, Busy
  <2>14. ASSUME NEW s \in Stops, StopDone(s) PROVE Inv'
    <3>1. /\ held = {}
          /\ \A j \in Jobs : ~Busy(j)
          /\ \A t \in Stops : t # s => stops[t].pc = "free" /\ stops[t].pool # "lost"
          /\ stops[s].restart => proxy \in Valid
      BY <2>14 DEF StopDone, Inv, StopInv, Active
    <3>2. state' = "Stopped" /\ ~crashed'
      BY <2>14, <3>1, ProfileAssumption DEF StopDone, Finished, Valid
    <3>3. \A t \in Stops : stops'[t].pc = "free" /\ stops'[t].pool # "lost"
      BY <2>14, <3>1 DEF StopDone, Finished, TypeOK, FreeStop
    <3> QED
      BY <2>14, <3>1, <3>2, <3>3 DEF StopDone, Inv, StopInv, JobInv, StateInv,
                                     FatalInv, Active, Busy
  <2>15. ASSUME NEW s \in Stops, StopJoined(s) PROVE Inv'
    <3>1. stops[s].pc = "joining" /\ Completed(stops[s].job, job)
      BY <2>15 DEF StopJoined, Resumable
    <3>2. /\ state = "Stopping" /\ proxy \in Valid /\ stops[s].job \in Jobs
          /\ \A t \in Stops : t # s => stops[t].pc = "free" /\ stops[t].pool # "lost"
      BY <3>1 DEF Inv, StopInv, Active
    <3>3. job[stops[s].job].pc = "idle"
      BY <3>1, <3>2, JobAssumption DEF Completed
    <3>4. \A j \in Jobs : job[j].pc = "idle"
      BY <3>2, <3>3 DEF Inv, JobInv, Busy
    <3>5. /\ CleanUp(s, stops[s].restart, "Stopping", held, pending)
          /\ job' = job /\ fatals' = fatals /\ revoke' = revoke
      BY <2>15, <3>2 DEF StopJoined
    <3>6. /\ stops[s].restart \in BOOLEAN /\ held \in SUBSET Resources
          /\ ~crashed /\ ~revoke.tested
      BY DEF TypeOK, StopType, Inv
    <3>7. fatals # {} => "processes" \in held
      BY <3>1, <3>2 DEF Inv, FatalInv
    <3> QED
      BY <2>0, <3>2, <3>4, <3>5, <3>6, <3>7, CleanUpInv
  <2>16. CASE CloseReceived
    BY <2>0, <2>16, StopRunnerInv DEF CloseReceived
  <2>17. CASE ForceLoad
    <3>1. state # "Stopped"
      BY <2>17 DEF ForceLoad, Inv, StateInv
    <3> QED
      BY <2>0, <2>17, <3>1, StopRunnerInv DEF ForceLoad
  <2>18. ASSUME NEW g \in Guards, PostFatal(g) PROVE Inv'
    <3>1. g \in held /\ g \in Resources /\ g \notin Receivers
      BY <2>18, ResourceFacts DEF PostFatal
    <3>2. "processes" \in held /\ "processes" \in held'
      BY <2>18, <3>1, ResourceFacts DEF PostFatal, Inv, FatalInv
    <3>3. Resources \ held = fatals => Resources \ held' = fatals'
      BY <2>18, <3>1 DEF PostFatal
    <3>4. held # {} /\ held # Receivers
      BY <3>1
    <3> QED
      BY <2>18, <3>2, <3>3, <3>4 DEF PostFatal, Inv, StopInv, JobInv, StateInv,
                                FatalInv, Active, Busy
  <2>19. ASSUME NEW g \in Guards, OnFatal(g) PROVE Inv'
    BY <2>0, <2>19, StopRunnerInv DEF OnFatal
  <2>20. CASE RestartCallbackFails
    BY <2>0, <2>20, StopRunnerInv DEF RestartCallbackFails
  <2>21. CASE RevokeTests
    BY <2>21 DEF RevokeTests, TypeOK
  <2>22. ASSUME NEW s \in Stops, RevokeStops(s) PROVE Inv'
    BY <2>22 DEF RevokeStops, Inv
  <2>23. CASE UNCHANGED vars
    BY <2>23 DEF vars, Inv, StopInv, JobInv, StateInv, FatalInv, Active, Busy
  <2>24. ASSUME NEW j \in Jobs, JobStep(j) \/ FlattenStep(j) PROVE Inv'
    BY <2>24, <2>5, <2>6, <2>7, <2>8, <2>9, <2>10, <2>11
       DEF JobStep, FlattenStep
  <2>25. CASE MainLooper
    BY <2>25, <2>1, <2>2, <2>3, <2>4, <2>24, <2>12, <2>13, <2>14, <2>16,
       <2>17, <2>18, <2>19, <2>20 DEF MainLooper, Start, StopStep, Event
  <2> QED
    BY <2>15, <2>21, <2>22, <2>23, <2>25 DEF Next, BinderThread
<1> QED
  BY <1>1, <1>2, Typing, PTL DEF Spec

(* In state Stopped nothing of a session is left and no connecting job can *)
(* acquire anything: stopRunner undoes every prefix of startProcesses.     *)
THEOREM StoppedClean ==
    ASSUME MaxRevokes = 0
    PROVE  Spec => []StoppedIsClean
<1>1. Inv => StoppedIsClean
  BY DEF Inv, StateInv, StoppedIsClean
<1> QED
  BY <1>1, ServiceInvariant, PTL

(* In state Connected the session is whole, but for helpers whose onFatal  *)
(* is on its way, and nothing is taking it apart.                          *)
THEOREM ConnectedWhole ==
    ASSUME MaxRevokes = 0
    PROVE  Spec => []ConnectedIsWhole
<1>1. Inv => ConnectedIsWhole
  BY DEF Inv, StateInv, StopInv, Active, Valid, ConnectedIsWhole
<1> QED
  BY <1>1, ServiceInvariant, PTL

(* "ensure stop connecting first": no shutdown while a job may run.        *)
THEOREM ConnectingStopsFirst ==
    ASSUME MaxRevokes = 0
    PROVE  Spec => []StopConnectingFirst
<1>1. Inv => StopConnectingFirst
  BY DEF Inv, StopInv, StopConnectingFirst
<1> QED
  BY <1>1, ServiceInvariant, PTL

(* data.proxy!! never throws in a service that is not revoked.             *)
THEOREM NeverCrashes ==
    ASSUME MaxRevokes = 0
    PROVE  Spec => []NoCrash
<1>1. Inv => NoCrash
  BY DEF Inv, NoCrash
<1> QED
  BY <1>1, ServiceInvariant, PTL

(* From Stopping the only way on is Stopped: the job that would connect is *)
(* cancelled, and no start is accepted before the stop is through.         *)
THEOREM NeverResurrected ==
    ASSUME MaxRevokes = 0
    PROVE  Spec => NoResurrection
<1> DEFINE A == state = "Stopping" => state' \in {"Stopping", "Stopped"}
<1>1. TypeOK /\ Inv /\ [Next]_vars => [A]_vars
  <2> SUFFICES ASSUME TypeOK, Inv, [Next]_vars, state = "Stopping"
               PROVE  state' \in {"Stopping", "Stopped"}
    BY DEF vars
  <2>1. ASSUME NEW s \in Stops, NEW restart, NEW h, NEW q,
               CleanUp(s, restart, "Stopping", h, q)
        PROVE  state' \in {"Stopping", "Stopped"}
    BY <2>1 DEF CleanUp, Finished
  <2>2. ASSUME NEW restart, NEW jobs, NEW h, NEW q,
               StopRunner(restart, jobs, h, q)
        PROVE  state' \in {"Stopping", "Stopped"}
    BY <2>2 DEF StopRunner
  <2>3. ASSUME NEW i, NEW own, Start(i, own)
        PROVE  state' \in {"Stopping", "Stopped"}
    BY <2>2, <2>3 DEF Start, StartDenied, StartIgnored, StartRejected, StartAccepted
  <2>4. ASSUME NEW j \in Jobs, SendFdSucceeds(j)
        PROVE  FALSE
    BY <2>4 DEF SendFdSucceeds, Ready, Inv, JobInv, Busy
  <2>5. ASSUME NEW j \in Jobs, JobStep(j) \/ FlattenStep(j)
        PROVE  state' \in {"Stopping", "Stopped"}
    BY <2>2, <2>4, <2>5 DEF JobStep, FlattenStep, JobRuns, BeginFlatten,
       StartProcesses, StartProcessesFails, FlattenFails, JobFails,
       SendFdRetries, SendFdFails, JobCancelled
  <2>6. ASSUME NEW s \in Stops, StopStep(s) \/ StopJoined(s)
        PROVE  state' \in {"Stopping", "Stopped"}
    <3>1. ~RevokedStopBegins(s)
      BY DEF RevokedStopBegins, Inv, StopInv
    <3> QED
      BY <2>1, <2>6, <3>1
         DEF StopStep, ShutdownsDone, StopDone, Finished, StopJoined
  <2>7. ASSUME Event
        PROVE  state' \in {"Stopping", "Stopped"}
    BY <2>2, <2>7 DEF Event, CloseReceived, ForceLoad, PostFatal, OnFatal,
       RestartCallbackFails, ExitCodeLost
  <2>8. ~BinderThread
    BY DEF BinderThread, RevokeTests, RevokeStops, Inv
  <2>9. CASE UNCHANGED vars
    BY <2>9 DEF vars
  <2> QED
    BY <2>3, <2>5, <2>6, <2>7, <2>8, <2>9 DEF Next, MainLooper
<1> QED
  BY <1>1, Typing, ServiceInvariant, PTL DEF Spec, NoResurrection

(* The hang of a pool is the hang of the service: in state Stopping every  *)
(* command returns early, and the coroutine that would leave the state     *)
(* waits for the join that never returns.                                  *)
THEOREM HangsForever ==
    ASSUME MaxRevokes = 0
    PROVE  Spec => HangIsForever
<1> DEFINE A == JoinHangs => JoinHangs' /\ state' = "Stopping"
<1>1. TypeOK /\ Inv /\ [Next]_vars => [A]_vars
  <2> SUFFICES ASSUME TypeOK, Inv, [Next]_vars,
                      NEW s \in Stops, stops[s].pool = "lost"
               PROVE  stops'[s].pool = "lost" /\ state' = "Stopping"
    BY DEF vars, JoinHangs
  <2>1. /\ state = "Stopping" /\ stops[s].pc = "closing" /\ stops[s].closing # {}
        /\ held = {} /\ \A j \in Jobs : job[j].pc = "idle"
        /\ \A t \in Stops : t # s => stops[t].pc = "free"
    BY DEF Inv, StopInv, Active, Busy
  <2>2. ASSUME NEW restart, NEW jobs, NEW h, NEW q,
               StopRunner(restart, jobs, h, q)
        PROVE  state' = state /\ stops' = stops
    BY <2>1, <2>2 DEF StopRunner
  <2>3. ASSUME NEW i, NEW own, Start(i, own)
        PROVE  state' = state /\ stops' = stops
    BY <2>1, <2>2, <2>3 DEF Start, StartDenied, StartIgnored, StartRejected,
       StartAccepted
  <2>4. ASSUME NEW j \in Jobs PROVE ~JobStep(j) /\ ~FlattenStep(j)
    BY <2>1 DEF JobStep, FlattenStep, JobRuns, BeginFlatten, StartProcesses,
       StartProcessesFails, Prepared, SendFdSucceeds, SendFdRetries, SendFdFails,
       JobCancelled, Ready
  <2>5. ASSUME NEW t \in Stops
        PROVE  ~StopStep(t) /\ ~StopJoined(t) /\ ~ExitCodeLost(t)
    BY <2>1 DEF StopStep, RevokedStopBegins, ShutdownsDone, StopDone, StopJoined,
       Resumable, ExitCodeLost
  <2>6. ASSUME Event PROVE state' = state /\ stops' = stops
    BY <2>1, <2>2, <2>5, <2>6 DEF Event, CloseReceived, ForceLoad, PostFatal,
       OnFatal, RestartCallbackFails
  <2>7. ~BinderThread
    BY DEF BinderThread, RevokeTests, RevokeStops, Inv, TypeOK
  <2>8. CASE UNCHANGED vars
    BY <2>1, <2>8 DEF vars
  <2> QED
    BY <2>1, <2>3, <2>4, <2>5, <2>6, <2>7, <2>8 DEF Next, MainLooper
<1> QED
  BY <1>1, Typing, ServiceInvariant, PTL DEF Spec, HangIsForever

(* The claim of the log message at BaseService.kt:228 does hold for a      *)
(* service that is not revoked: a reload never finds it Stopped.           *)
THEOREM UnrevokedReload ==
    ASSUME MaxRevokes = 0
    PROVE  Spec => []ReloadNeverStopped
<1>1. Inv => ReloadNeverStopped
  BY DEF Inv, StateInv, ReloadNeverStopped
<1> QED
  BY <1>1, ServiceInvariant, PTL
=============================================================================

----------------------------- MODULE VpnService -----------------------------
(***************************************************************************)
(* bg/VpnService.kt with bg/BaseService.kt (Data, Interface) and the parts *)
(* of bg/ProxyInstance.kt it calls: the life cycle of the VPN service in   *)
(* the ":bg" process.                                                      *)
(*                                                                         *)
(* Everything runs on that process's main thread, cut into segments by the *)
(* suspension points of two kinds of coroutine: the connecting job         *)
(* launched by onStartCommand and the stop coroutine launched by           *)
(* stopRunner.  A segment is one atomic step.  The exception is onRevoke,  *)
(* which Android calls on a binder thread: there stopRunner's test and its *)
(* assignment are two steps.                                               *)
(*                                                                         *)
(* Kotlin's prompt cancellation: a cancelled coroutine that is resumed     *)
(* throws at its suspension point, so a cancelled job only ever ends.      *)
(*                                                                         *)
(* Abstracted: the profile's fields (valid or not, custom rules or not),   *)
(* the VPN builder's parameters, the messages shown to the user, the       *)
(* notifications sent to bound clients, the bytes of the protocols.  A     *)
(* start request of the user interface or the system may arrive at any     *)
(* time; only the service's own requests are kept, in `pending`.           *)
(***************************************************************************)
EXTENDS Naturals, Sequences

CONSTANTS
    Profiles,   \* profiles a start intent can carry
    Invalid,    \* those ProxyInstance's init block rejects
    Custom,     \* those with route CUSTOM_RULES, flattened over the network
    NoProfile,  \* no profile: an intent without extra, data.proxy = null
    Jobs,       \* identities of connecting jobs
    NoJob,      \* data.connectingJob = null
    Stops,      \* identities of stop coroutines
    MaxTries,   \* sendFd gives up when tries > MaxTries
    MayDeny,    \* whether prepare() may find the VPN permission gone
    MaxRevokes  \* bound: calls of onRevoke

ASSUME ProfileAssumption ==
    /\ Invalid \subseteq Profiles
    /\ Custom \subseteq Profiles
    /\ NoProfile \notin Profiles
ASSUME JobAssumption == NoJob \notin Jobs
ASSUME BoundAssumption ==
    /\ MaxTries \in Nat
    /\ MayDeny \in BOOLEAN
    /\ MaxRevokes \in Nat

VARIABLES
    state,          \* data.state
    proxy,          \* the profile of data.proxy
    held,           \* resources the service holds: non-null fields, registrations
    connectingJob,  \* data.connectingJob
    job,            \* the connecting jobs
    stops,          \* the stop coroutines
    pending,        \* profiles of startRunner intents not delivered yet
    fatals,         \* helpers whose onFatal is posted to the main looper
    revoke,         \* the binder thread: calls of onRevoke, position in stopRunner
    crashed         \* data.proxy!! threw in a coroutine nobody catches

vars == <<state, proxy, held, connectingJob, job, stops, pending, fatals,
          revoke, crashed>>

(* The profiles ProxyInstance's init block accepts.                        *)
Valid == Profiles \ Invalid

State     == {"Connecting", "Connected", "Stopping", "Stopped"}
Receivers == {"receiver", "notification"}

(* What startProcesses acquires, in this order; "sslocal" and "tun2socks"  *)
(* are the guards of the pool "processes" that have not given up.          *)
Order     == <<"processes", "worker", "trafficMonitor", "configFile",
               "sslocal", "localDns", "conn", "tun2socks">>
Session   == {Order[n] : n \in 1..Len(Order)}
Guards    == {"sslocal", "tun2socks"}
Resources == Receivers \cup Session

(* What is acquired when one of its steps throws.                          *)
Prefixes  == {{Order[m] : m \in 1..n} : n \in 1..Len(Order) - 1}

(* What ProxyInstance.start acquires for itself and shutdown gives back.   *)
ProxyOwned == {"trafficMonitor", "configFile"}

(* A shutdown that is joined in the background; the others are immediate.  *)
Joinable == {"processes", "worker", "trafficMonitor", "localDns"}

(***************************************************************************)
(* job[j].pc:   "idle", "posted" (launched, not run yet), "preInit"        *)
(*              (in DefaultNetworkListener.start), "flatten" (in           *)
(*              withContext(IO)), "sendFd" (in the delay before an attempt)*)
(* stops[s].pc: "free", "posted" (launched from the binder thread),        *)
(*              "joining" (in cancelAndJoin), "closing" (in coroutineScope)*)
(* stops[s].pool: what the join of the closed pool waits for: "none",      *)
(*              "loopers" (of its guards), "lost" (one that never ends).   *)
(***************************************************************************)
JobType  == [pc : {"idle", "posted", "preInit", "flatten", "sendFd"},
             cancelled : BOOLEAN, profile : Profiles \cup {NoProfile},
             tries : 0..MaxTries + 1]
StopType == [pc : {"free", "posted", "joining", "closing"}, restart : BOOLEAN,
             job : Jobs \cup {NoJob}, closing : SUBSET Joinable,
             pool : {"none", "loopers", "lost"}]

IdleJob  == [pc |-> "idle", cancelled |-> FALSE, profile |-> NoProfile, tries |-> 0]
PostedJob(i) == [pc |-> "posted", cancelled |-> FALSE, profile |-> i, tries |-> 0]
FreeStop == [pc |-> "free", restart |-> FALSE, job |-> NoJob, closing |-> {},
             pool |-> "none"]

Init ==
    /\ state         = "Stopped"
    /\ proxy         = NoProfile
    /\ held          = {}
    /\ connectingJob = NoJob
    /\ job           = [j \in Jobs |-> IdleJob]
    /\ stops         = [s \in Stops |-> FreeStop]
    /\ pending       = {}
    /\ fatals        = {}
    /\ revoke        = [calls |-> 0, tested |-> FALSE]
    /\ crashed       = FALSE

-----------------------------------------------------------------------------
(* Mutant of Finished: stopSelf() after a reload too.                      *)
FinishedStops(s, restart, p, q) ==
    /\ state'   = "Stopped"
    /\ stops'   = [stops EXCEPT ![s] = FreeStop]
    /\ pending' = q
    /\ UNCHANGED crashed

(* The end of stopRunner's coroutine: changeState(Stopped), then           *)
(* startRunner(data.proxy!!.profile) or stopSelf().  `p` is data.proxy and *)
(* `q` the undelivered intents at that moment.                             *)
Finished(s, restart, p, q) ==
    /\ state'   = "Stopped"
    /\ stops'   = [stops EXCEPT ![s] = FreeStop]
    /\ pending' = IF restart /\ p # NoProfile THEN q \cup {p} ELSE q
    /\ crashed' = (restart /\ p = NoProfile)

(* Mutants of Released: killProcesses forgets a field.                     *)
ReleasedKeepsWorker(p) == Resources \ {"worker"}
ReleasedKeepsConn(p)   == Resources \ {"conn"}

(* What killProcesses and the rest of the coroutineScope block give back:  *)
(* data.proxy shuts down what it owns, if there is one.                    *)
Released(p) == IF p = NoProfile THEN Resources \ ProxyOwned ELSE Resources

(* Mutant of CleanUp: data.proxy = null on a reload too.                   *)
CleanUpForgetsProxy(s, restart, st, h, q) ==
    /\ held'  = h \ Released(proxy)
    /\ proxy' = NoProfile
    /\ Finished(s, restart, NoProfile, q)

(* The coroutineScope block of stopRunner: killProcesses, unregister the   *)
(* receiver, destroy the notification, proxy.shutdown, all at once; then   *)
(* the shutdowns in progress are joined.  `st` is data.state, `h` what the *)
(* service holds.                                                          *)
CleanUp(s, restart, st, h, q) ==
    /\ held'  = h \ Released(proxy)
    /\ proxy' = IF restart THEN proxy ELSE NoProfile
    /\ LET joins == h \cap Released(proxy) \cap Joinable
       IN  IF joins = {}
             THEN Finished(s, restart, proxy, q)
             ELSE /\ state' = st
                  /\ stops' = [stops EXCEPT ![s] =
                                 [pc |-> "closing", restart |-> restart,
                                  job |-> NoJob, closing |-> joins,
                                  pool |-> IF h \cap Guards = {} THEN "none"
                                                                 ELSE "loopers"]]
                  /\ pending' = q
                  /\ UNCHANGED crashed

(* Mutants of Completed and Cancel: cancel() without join(), join()        *)
(* without cancel().                                                       *)
CompletedUnjoined(c, jobs) == TRUE
CancelNothing(c, jobs)     == jobs

Completed(c, jobs) == c # NoJob => jobs[c].pc = "idle"

Cancel(c, jobs) ==
    [j \in Jobs |-> IF j = c THEN [jobs[j] EXCEPT !.cancelled = TRUE] ELSE jobs[j]]

(* The stop coroutine from its beginning to its first suspension: cancel   *)
(* and join the job in data.connectingJob, clean up at once if there is    *)
(* none to wait for.                                                       *)
StopBegins(s, restart, st, jobs, h, q) ==
    /\ job' = Cancel(connectingJob, jobs)
    /\ IF Completed(connectingJob, jobs)
         THEN CleanUp(s, restart, st, h, q)
         ELSE /\ state'   = st
              /\ stops'   = [stops EXCEPT ![s] =
                               [pc |-> "joining", restart |-> restart,
                                job |-> connectingJob, closing |-> {},
                                pool |-> "none"]]
              /\ held'    = h
              /\ pending' = q
              /\ UNCHANGED <<proxy, crashed>>

(* Mutant of StopRunner: changeState(Stopping) is missing.                 *)
StopRunnerUnmarked(restart, jobs, h, q) ==
    \E s \in Stops :
        /\ stops[s].pc = "free"
        /\ StopBegins(s, restart, state, jobs, h, q)

(* stopRunner(restart) called on the main thread: the coroutine begins in  *)
(* place (Main.immediate).  The caller's own changes are passed along:     *)
(* `jobs`, held `h` and intents `q`.                                       *)
StopRunner(restart, jobs, h, q) ==
    IF state = "Stopping"
      THEN /\ job'     = jobs
           /\ held'    = h
           /\ pending' = q
           /\ UNCHANGED <<state, proxy, stops, crashed>>
      ELSE \E s \in Stops :
           /\ stops[s].pc = "free"
           /\ StopBegins(s, restart, "Stopping", jobs, h, q)

(* The connecting job has completed: the stop coroutine goes on, within    *)
(* the same event of the main looper.                                      *)
Resumable(s) == stops[s].pc = "joining" /\ Completed(stops[s].job, job)

StopJoined(s) ==
    /\ Resumable(s)
    /\ CleanUp(s, stops[s].restart, state, held, pending)
    /\ UNCHANGED <<connectingJob, job, fatals, revoke>>

(* Mutant of ShutdownsDone: the worker's thread is never woken up.         *)
ShutdownsHang(s) ==
    /\ stops[s].pc = "closing"
    /\ stops[s].closing # {} /\ stops[s].pool # "lost"
    /\ stops' = [stops EXCEPT ![s].closing = @ \cap {"worker"}, ![s].pool = "none"]
    /\ UNCHANGED <<state, proxy, held, connectingJob, job, pending, fatals,
                   revoke, crashed>>

(* A looper of the closed pool drops an exit code it was handed, and waits *)
(* for a second one that never comes: job.join() does not return (Lost in  *)
(* GuardedProcessPool); the other joins do.                                *)
ExitCodeLost(s) ==
    /\ stops[s].pc = "closing"
    /\ stops[s].pool = "loopers"
    /\ stops' = [stops EXCEPT ![s].closing = {"processes"}, ![s].pool = "lost"]
    /\ UNCHANGED <<state, proxy, held, connectingJob, job, pending, fatals,
                   revoke, crashed>>

(* The pool, the listener threads and their worker scopes have ended, in   *)
(* whatever order: their joins return.                                     *)
ShutdownsDone(s) ==
    /\ stops[s].pc = "closing"
    /\ stops[s].closing # {} /\ stops[s].pool # "lost"
    /\ stops' = [stops EXCEPT ![s].closing = {}, ![s].pool = "none"]
    /\ UNCHANGED <<state, proxy, held, connectingJob, job, pending, fatals,
                   revoke, crashed>>

(* Mutant of StopDone: the joins are launched in another scope.            *)
StopDoneUnjoined(s) ==
    /\ stops[s].pc = "closing"
    /\ fatals = {}
    /\ Finished(s, stops[s].restart, proxy, pending)
    /\ UNCHANGED <<proxy, held, connectingJob, job, fatals, revoke>>

(* Everything is joined.  The main looper is a FIFO queue: an onFatal was  *)
(* posted while the pool was open, so it runs before this resumption.      *)
StopDone(s) ==
    /\ stops[s].pc = "closing"
    /\ stops[s].closing = {}
    /\ fatals = {}
    /\ Finished(s, stops[s].restart, proxy, pending)
    /\ UNCHANGED <<proxy, held, connectingJob, job, fatals, revoke>>

-----------------------------------------------------------------------------
(* A start intent carrying `i` reaches onStartCommand: one of the          *)
(* service's own (`own`) or somebody else's.                               *)
Intents == Profiles \cup {NoProfile}
Undelivered(i, own) == IF own THEN pending \ {i} ELSE pending

(* Android requires startForeground() after startForegroundService(),      *)
(* unless the service is in the foreground already.                        *)
Foreground == "notification" \in held

(* prepare(this) != null: the VPN permission is gone.                      *)
StartDenied(i, own) ==
    /\ MayDeny
    /\ own => i \in pending
    /\ StopRunner(FALSE, job, held, Undelivered(i, own))
    /\ UNCHANGED <<connectingJob, fatals, revoke>>

(* data.state != Stopped: return.                                          *)
StartIgnored(i, own) ==
    /\ own => i \in pending
    /\ state # "Stopped"
    /\ pending'  = Undelivered(i, own)
    /\ UNCHANGED <<state, proxy, held, connectingJob, job, stops, fatals,
                   revoke, crashed>>

(* No profile, or ProxyInstance's init throws IllegalArgumentException:    *)
(* show the notification, then stopRunner.                                 *)
StartRejected(i, own) ==
    /\ own => i \in pending
    /\ state = "Stopped"
    /\ i \in Invalid \cup {NoProfile}
    /\ StopRunner(FALSE, job, held \cup {"notification"}, Undelivered(i, own))
    /\ UNCHANGED <<connectingJob, fatals, revoke>>

(* A valid profile: register, notify, Connecting, launch the job.  A job   *)
(* identity is reused once no coroutine refers to the completed job.       *)
StartAccepted(i, own, j) ==
    /\ own => i \in pending
    /\ state = "Stopped"
    /\ i \in Valid
    /\ job[j].pc = "idle"
    /\ \A s \in Stops : stops[s].job # j
    /\ proxy'         = i
    /\ held'          = held \cup Receivers
    /\ state'         = "Connecting"
    /\ job'           = [job EXCEPT ![j] = PostedJob(i)]
    /\ connectingJob' = j
    /\ pending'       = Undelivered(i, own)
    /\ UNCHANGED <<stops, fatals, revoke, crashed>>

-----------------------------------------------------------------------------
(* The connecting job.  Ready(j, p): resumed at p, and not cancelled.      *)
Ready(j, p) == job[j].pc = p /\ ~job[j].cancelled

JobAt(j, p) == [job EXCEPT ![j].pc = p]
Ended(j)    == [job EXCEPT ![j] = IdleJob]

(* The job runs: Executable.killAll(), into preInit().                     *)
JobRuns(j) ==
    /\ Ready(j, "posted")
    /\ job' = JobAt(j, "preInit")
    /\ UNCHANGED <<state, proxy, held, connectingJob, stops, pending, fatals,
                   revoke, crashed>>

(* route == CUSTOM_RULES: flatten the rules on the IO dispatcher.          *)
BeginFlatten(j) ==
    /\ Ready(j, "preInit")
    /\ job[j].profile \in Custom
    /\ job' = JobAt(j, "flatten")
    /\ UNCHANGED <<state, proxy, held, connectingJob, stops, pending, fatals,
                   revoke, crashed>>

(* The next segment is the one that starts the processes.                  *)
Prepared(j) == \/ Ready(j, "preInit") /\ job[j].profile \notin Custom
               \/ Ready(j, "flatten")

(* GuardedProcessPool, ProtectWorker, proxy.start, LocalDnsWorker,         *)
(* establish and tun2socks all succeed: into the first delay of sendFd,    *)
(* with tries = 0 as in PostedJob.  data.proxy!! is dereferenced.          *)
StartProcesses(j) ==
    /\ Prepared(j)
    /\ proxy # NoProfile
    /\ held' = held \cup Session
    /\ job'  = JobAt(j, "sendFd")
    /\ UNCHANGED <<state, proxy, connectingJob, stops, pending, fatals,
                   revoke, crashed>>

(* catch (exc: Throwable): stopRunner, with `acquired` in the service's    *)
(* hands; finally connectingJob = null.  The stop coroutine joins this     *)
(* very job and goes on as soon as it ends.                                *)
JobFails(j, acquired) ==
    /\ StopRunner(FALSE, Ended(j), held \cup acquired, pending)
    /\ connectingJob' = NoJob
    /\ UNCHANGED <<fatals, revoke>>

(* flatten: no network, an HTTP error, a malformed list.                   *)
FlattenFails(j) == Ready(j, "flatten") /\ JobFails(j, {})

(* One of startProcesses' steps throws.                                    *)
StartProcessesFails(j, acquired) == Prepared(j) /\ JobFails(j, acquired)

(* sendFd: tun2socks took the descriptor.  scheduleUpdate, Connected.      *)
SendFdSucceeds(j) ==
    /\ Ready(j, "sendFd")
    /\ state'         = "Connected"
    /\ job'           = Ended(j)
    /\ connectingJob' = NoJob
    /\ UNCHANGED <<proxy, held, stops, pending, fatals, revoke, crashed>>

(* Mutant of SendFdRetries: a back-off that starts over instead of giving  *)
(* up.                                                                     *)
SendFdRetriesForEver(j) ==
    /\ Ready(j, "sendFd")
    /\ job' = [job EXCEPT ![j].tries = IF @ > MaxTries THEN 0 ELSE @ + 1]
    /\ UNCHANGED <<state, proxy, held, connectingJob, stops, pending, fatals,
                   revoke, crashed>>

(* sendFd: IOException, another attempt after a longer delay.              *)
SendFdRetries(j) ==
    /\ Ready(j, "sendFd")
    /\ job[j].tries <= MaxTries
    /\ job' = [job EXCEPT ![j].tries = @ + 1]
    /\ UNCHANGED <<state, proxy, held, connectingJob, stops, pending, fatals,
                   revoke, crashed>>

(* sendFd: IOException and tries > 5.                                      *)
SendFdFails(j) ==
    /\ Ready(j, "sendFd")
    /\ job[j].tries > MaxTries
    /\ JobFails(j, {})

(* A cancelled job ends: CancellationException is ignored, finally sets    *)
(* connectingJob = null, unless the body never began.                      *)
JobCancelled(j) ==
    /\ job[j].pc # "idle"
    /\ job[j].cancelled
    /\ job' = Ended(j)
    /\ connectingJob' = IF job[j].pc = "posted" THEN connectingJob ELSE NoJob
    /\ UNCHANGED <<state, proxy, held, stops, pending, fatals, revoke,
                   crashed>>

-----------------------------------------------------------------------------
(* Events while a session is up.                                           *)

(* Action.CLOSE reaches closeReceiver: stopRunner().                       *)
CloseReceived ==
    /\ "receiver" \in held
    /\ StopRunner(FALSE, job, held, pending)
    /\ UNCHANGED <<connectingJob, fatals, revoke>>

(* Action.RELOAD reaches closeReceiver: forceLoad.                         *)
ForceLoad ==
    /\ "receiver" \in held
    /\ \/ /\ state = "Stopped"
          /\ pending' = IF proxy = NoProfile THEN pending ELSE pending \cup {proxy}
          /\ crashed' = (proxy = NoProfile)
          /\ UNCHANGED <<state, proxy, held, job, stops>>
       \/ /\ state \in {"Connecting", "Connected"}
          /\ StopRunner(TRUE, job, held, pending)
    /\ UNCHANGED <<connectingJob, fatals, revoke>>

(* A guard of the open pool gives up and launches onFatal on the main      *)
(* looper (GuardedProcessPool: GiveUp, CallbackFails).  Bound: at most one *)
(* undelivered report per helper.                                          *)
PostFatal(g) ==
    /\ g \in held
    /\ g \notin fatals
    /\ held'   = held \ {g}
    /\ fatals' = fatals \cup {g}
    /\ UNCHANGED <<state, proxy, connectingJob, job, stops, pending, revoke,
                   crashed>>

(* onFatal runs: stopRunner.                                               *)
OnFatal(g) ==
    /\ g \in fatals
    /\ fatals' = fatals \ {g}
    /\ StopRunner(FALSE, job, held, pending)
    /\ UNCHANGED <<connectingJob, revoke>>

(* tun2socks was restarted and sendFd failed with ErrnoException in the    *)
(* restart callback.                                                       *)
RestartCallbackFails ==
    /\ "tun2socks" \in held
    /\ StopRunner(FALSE, job, held, pending)
    /\ UNCHANGED <<connectingJob, fatals, revoke>>

(* onRevoke on a binder thread, for an established VPN: the test of        *)
(* stopRunner, then, later, its assignment and the launch, which posts the *)
(* coroutine to the main looper.                                           *)
RevokeTests ==
    /\ revoke.calls < MaxRevokes
    /\ ~revoke.tested
    /\ "conn" \in held
    /\ state # "Stopping"
    /\ revoke' = [calls |-> revoke.calls + 1, tested |-> TRUE]
    /\ UNCHANGED <<state, proxy, held, connectingJob, job, stops, pending,
                   fatals, crashed>>

RevokeStops(s) ==
    /\ revoke.tested
    /\ stops[s].pc = "free"
    /\ state'  = "Stopping"
    /\ stops'  = [stops EXCEPT ![s] = [FreeStop EXCEPT !.pc = "posted"]]
    /\ revoke' = [revoke EXCEPT !.tested = FALSE]
    /\ UNCHANGED <<proxy, held, connectingJob, job, pending, fatals,
                   crashed>>

(* The posted stop coroutine begins.                                       *)
RevokedStopBegins(s) ==
    /\ stops[s].pc = "posted"
    /\ StopBegins(s, FALSE, state, job, held, pending)
    /\ UNCHANGED <<connectingJob, fatals, revoke>>

-----------------------------------------------------------------------------
Start(i, own) ==
    \/ StartDenied(i, own)
    \/ StartIgnored(i, own)
    \/ StartRejected(i, own)
    \/ \E j \in Jobs : StartAccepted(i, own, j)

(* The job's next segment, whatever its outcome, apart from the network    *)
(* download of flatten, which may take for ever.                           *)
JobStep(j) ==
    \/ JobRuns(j)
    \/ BeginFlatten(j)
    \/ job[j].pc # "flatten" /\ StartProcesses(j)
    \/ \E acquired \in Prefixes :
          job[j].pc # "flatten" /\ StartProcessesFails(j, acquired)
    \/ SendFdSucceeds(j)
    \/ SendFdRetries(j)
    \/ SendFdFails(j)
    \/ job[j].pc # "flatten" /\ JobCancelled(j)

FlattenStep(j) ==
    /\ job[j].pc = "flatten"
    /\ \/ StartProcesses(j)
       \/ \E acquired \in Prefixes : StartProcessesFails(j, acquired)
       \/ FlattenFails(j)
       \/ JobCancelled(j)

StopStep(s) ==
    \/ RevokedStopBegins(s)
    \/ ShutdownsDone(s)
    \/ StopDone(s)

Event ==
    \/ CloseReceived
    \/ ForceLoad
    \/ \E g \in Guards : PostFatal(g)
    \/ \E g \in Guards : OnFatal(g)
    \/ RestartCallbackFails
    \/ \E s \in Stops : ExitCodeLost(s)

BinderThread ==
    \/ RevokeTests
    \/ \E s \in Stops : RevokeStops(s)

(* The main looper takes its next event when the last one is through.      *)
MainLooper ==
    /\ \A s \in Stops : ~Resumable(s)
    /\ \/ \E i \in Intents, own \in BOOLEAN : Start(i, own)
       \/ \E j \in Jobs : JobStep(j)
       \/ \E j \in Jobs : FlattenStep(j)
       \/ \E s \in Stops : StopStep(s)
       \/ Event

Next ==
    /\ ~crashed
    /\ \/ MainLooper
       \/ \E s \in Stops : StopJoined(s)
       \/ BinderThread

(***************************************************************************)
(* Fairness: posted coroutines run, delays end, shutdowns end, a binder    *)
(* thread is not suspended for ever, a requested start is delivered.       *)
(* Strong fairness of StopDone: its resumption keeps its place in the FIFO *)
(* queue whatever is posted later.  The download of flatten has no timeout *)
(* in the code: nothing is assumed of it.  A closed pool completes unless  *)
(* an exit code was lost (CloseTerminatesUnlessLost of GuardedProcessPool):*)
(* so does ShutdownsDone, which is disabled once it was.                   *)
(***************************************************************************)
Fairness ==
    /\ \A j \in Jobs : WF_vars(~crashed /\ JobStep(j))
    /\ \A s \in Stops :
         /\ WF_vars(~crashed /\ (StopStep(s) \/ StopJoined(s)))
         /\ SF_vars(~crashed /\ StopDone(s))
    /\ \A g \in Guards : WF_vars(~crashed /\ OnFatal(g))
    /\ WF_vars(~crashed /\ \E s \in Stops : RevokeStops(s))
    /\ \A i \in Profiles : WF_vars(~crashed /\ Start(i, TRUE))

Spec     == Init /\ [][Next]_vars
FairSpec == Spec /\ Fairness

-----------------------------------------------------------------------------
(* Invariant.  Every variable has its type; of these the bound on sendFd's *)
(* tries is the one a step could break.                                    *)
TypeOK ==
    /\ state         \in State
    /\ proxy         \in Profiles \cup {NoProfile}
    /\ held          \subseteq Resources
    /\ connectingJob \in Jobs \cup {NoJob}
    /\ job           \in [Jobs -> JobType]
    /\ stops         \in [Stops -> StopType]
    /\ pending       \subseteq Profiles
    /\ fatals        \subseteq Guards
    /\ revoke        \in [calls : 0..MaxRevokes, tested : BOOLEAN]
    /\ crashed       \in BOOLEAN

Active(s) == stops[s].pc # "free"
Busy(j)   == job[j].pc # "idle"
(* A download of flatten holds up the job, and whoever waits for it.       *)
Downloading == \E j \in Jobs : job[j].pc = "flatten"
(* A stop joins a pool that never completes.                               *)
JoinHangs == \E s \in Stops : stops[s].pool = "lost"

(* Invariant.  In state Stopped nothing of a session is left: no process   *)
(* pool, thread, descriptor, file, receiver or notification, and no        *)
(* connecting job that could still acquire one (stopRunner against the     *)
(* prefixes at which startProcesses can fail).                             *)
StoppedIsClean ==
    state = "Stopped" => held = {} /\ \A j \in Jobs : ~Busy(j)

(* Invariant.  In state Connected the session is whole: everything         *)
(* onStartCommand and startProcesses acquired is still held, a helper that *)
(* was given up has its report on the way, and no stop coroutine is taking *)
(* the session apart.                                                      *)
ConnectedIsWhole ==
    state = "Connected" =>
        /\ Resources \ held = fatals
        /\ proxy \in Valid
        /\ \A s \in Stops : ~Active(s)

(* Invariant.  "ensure stop connecting first" (BaseService.kt:260): no     *)
(* shutdown is in progress while a connecting job may still run.           *)
StopConnectingFirst ==
    \A s \in Stops : stops[s].pc = "closing" => \A j \in Jobs : ~Busy(j)

(* Invariant.  data.proxy!! of stopRunner and forceLoad never throws: a    *)
(* reload still has its profile when the old session is gone.              *)
NoCrash == ~crashed

(* The parts of the inductive invariant: stop coroutines, connecting jobs, *)
(* what each state holds, and where a posted onFatal comes from.           *)
StopInv(s) ==
    /\ stops[s].pc # "posted"
    /\ Active(s) => state = "Stopping" /\ \A t \in Stops : Active(t) => t = s
    /\ stops[s].pc = "joining" => proxy \in Valid /\ stops[s].job \in Jobs
    /\ stops[s].pc = "closing" =>
         /\ held = {}
         /\ \A j \in Jobs : ~Busy(j)
         /\ stops[s].restart => proxy \in Valid
    /\ stops[s].pool = "lost" => stops[s].pc = "closing" /\ stops[s].closing # {}

JobInv(j) ==
    Busy(j) =>
        /\ connectingJob = j
        /\ IF job[j].cancelled
             THEN \E s \in Stops : stops[s].pc = "joining" /\ stops[s].job = j
             ELSE /\ state = "Connecting"
                  /\ IF job[j].pc = "sendFd" THEN Resources \ held = fatals
                                             ELSE held = Receivers

StateInv ==
    /\ state = "Stopped" => held = {} /\ \A j \in Jobs : ~Busy(j)
    /\ state = "Connecting" => proxy \in Valid /\ \E j \in Jobs : Busy(j)
    /\ state = "Connected" => /\ proxy \in Valid
                              /\ Resources \ held = fatals
                              /\ \A j \in Jobs : ~Busy(j)
    /\ state = "Stopping" => \E s \in Stops : Active(s)

FatalInv ==
    /\ held \cap Guards # {} => "processes" \in held
    /\ fatals # {} => \/ "processes" \in held
                      \/ \E s \in Stops : stops[s].pc = "closing"

(* Invariant.  The inductive strengthening of the four above, for a        *)
(* service that is not revoked: at most one stop coroutine, exactly in     *)
(* state Stopping; at most one connecting job, the one in                  *)
(* data.connectingJob, running in state Connecting or cancelled by the     *)
(* stop that joins it; what is held at each stage; and a posted onFatal    *)
(* belongs to the session that is up or being closed.                      *)
Inv ==
    /\ ~crashed
    /\ ~revoke.tested
    /\ \A s \in Stops : StopInv(s)
    /\ \A j \in Jobs : JobInv(j)
    /\ StateInv
    /\ FatalInv

(* Action property.  A session being stopped never comes back to life:     *)
(* from Stopping the only way on is Stopped, whatever the connecting job   *)
(* was about to do.                                                        *)
NoResurrection ==
    [][state = "Stopping" => state' \in {"Stopping", "Stopped"}]_vars

(* Action property.  A pool that lost an exit code keeps the service in    *)
(* state Stopping: no start, close, reload, report of a helper or other    *)
(* shutdown brings it out (stopRunner and onStartCommand return early).    *)
HangIsForever ==
    [][JoinHangs => JoinHangs' /\ state' = "Stopping"]_vars

(* Liveness.  A stop completes, also one the connecting job itself asked   *)
(* for and that joins this very job: the only things a stop waits for in   *)
(* vain are a download and a pool that lost an exit code.                  *)
StopCompletes ==
    state = "Stopping" ~> (state = "Stopped" \/ Downloading \/ JoinHangs)

(* Liveness.  Connecting does not last: the bounded retries of sendFd end  *)
(* in Connected or in a stop, unless a download is waited for.             *)
ConnectingEnds ==
    state = "Connecting" ~> (state # "Connecting" \/ Downloading)

(* Liveness.  A reload connects again, unless its stop waits for ever: no  *)
(* event during the stop or before the new start is delivered loses it.    *)
ReloadReconnects ==
    (\E s \in Stops : Active(s) /\ stops[s].restart)
        ~> (state = "Connecting" \/ Downloading \/ JoinHangs)

(* Liveness.  A revocation takes the tunnel down: however onRevoke on its  *)
(* binder thread races with starts, stops and reloads on the main thread,  *)
(* the descriptor of the revoked VPN is closed (or the process dies).      *)
RevocationTearsDown ==
    revoke.tested ~> ("conn" \notin held \/ crashed)

(* Claim of the log message at BaseService.kt:228, "plis don't let dis     *)
(* shit happen": a reload never finds the service Stopped.  A revocation   *)
(* racing with another stop violates it.                                   *)
ReloadNeverStopped == ~("receiver" \in held /\ state = "Stopped")

(* Claim behind the comment at VpnService.kt:154, "gracefully shutdown":   *)
(* a start the service requested with startForegroundService and then does *)
(* not serve finds it in the foreground, or puts it there.  The paths of   *)
(* lines 147 and 150 violate it.                                           *)
StartsInForeground ==
    [][\A i \in Intents :
          StartIgnored(i, TRUE) \/ StartDenied(i, TRUE) => Foreground \/ Foreground']_vars
=============================================================================

--------------------------- MODULE TrafficMonitor ---------------------------
(***************************************************************************)
(* bg/TrafficMonitor.kt and the bandwidth listeners of BaseService.Binder  *)
(* during one connected session: ss-local reports its counters, the        *)
(* monitor's thread stores them, the looper on the main thread asks for    *)
(* updates and tells the listeners, and persistStats adds the totals to    *)
(* the profile.                                                            *)
(*                                                                         *)
(* The thread's two writes (a total, then dirty) and the main thread's     *)
(* reads are not synchronised: the writes become visible one by one, in    *)
(* either order.  Everything else of the Binder is serialised on the main  *)
(* thread; calls that arrive on binder threads are posted to it.           *)
(* Abstracted: one direction of the traffic (rx is treated like tx), a     *)
(* rate is zero or not, time (the delay of the loop is positive).          *)
(***************************************************************************)
EXTENDS Integers, Sequences

CONSTANTS
    Clients,      \* bandwidth listeners: the user interface, the notification
    MaxCounter,   \* bound: ss-local's counter
    MaxReports,   \* bound: reports of ss-local
    MaxTasks      \* bound: calls posted to the main thread

VARIABLES
    counter,      \* ss-local's counter; a restarted ss-local begins at 0
    received,     \* what the thread has received and not finished storing
    unseen,       \* writes of the thread the main thread does not see yet
    total,        \* current.txTotal
    dirty,
    out,          \* out.txTotal and whether out.txRate # 0
    main,         \* the main thread within requestUpdate
    listeners,    \* keys of bandwidthListeners
    looper,       \* looper # null, and its loop runs
    tasks,        \* posted bodies of start- and stopListeningForBandwidth
    shown,        \* the last trafficUpdated each listener got
    persisted,    \* history: the total each persistStats has added
    tx,           \* profile.tx
    ended,        \* ProxyInstance.shutdown has run
    lost,         \* history: the last update is marked as delivered and was not
    reports

vars == <<counter, received, unseen, total, dirty, out, main, listeners, looper,
          tasks, shown, persisted, tx, ended, lost, reports>>

Totals == 0 .. MaxCounter
Stats == [total : Totals, moving : BOOLEAN]

TypeOK ==
    /\ counter \in Totals /\ received \in Totals \union {-1} /\ total \in Totals
    /\ unseen \subseteq {"total", "dirty"}
    /\ dirty \in BOOLEAN /\ out \in Stats /\ shown \in [Clients -> Stats]
    /\ main \in {"idle", "clear"} /\ listeners \subseteq Clients /\ looper \in BOOLEAN
    /\ tasks \in Seq({"start", "stop"} \X Clients)
    /\ persisted \in Seq(Totals) /\ tx \in Nat
    /\ ended \in BOOLEAN /\ lost \in BOOLEAN /\ reports \in 0 .. MaxReports

Nothing == [total |-> 0, moving |-> FALSE]

Init ==
    /\ counter = 0 /\ received = -1 /\ unseen = {} /\ total = 0 /\ dirty = FALSE
    /\ out = Nothing /\ main = "idle" /\ listeners = {} /\ looper = FALSE
    /\ tasks = <<>> /\ shown = [c \in Clients |-> Nothing]
    /\ persisted = <<>> /\ tx = 0 /\ ended = FALSE /\ lost = FALSE /\ reports = 0

binderVars  == <<listeners, looper, tasks, shown>>
profileVars == <<persisted, tx, ended>>

-----------------------------------------------------------------------------
(* ss-local and the thread of the monitor *)

Traffic ==
    /\ counter < MaxCounter /\ ~ended
    /\ counter' = counter + 1
    /\ UNCHANGED <<received, unseen, total, dirty, out, main, binderVars,
                   profileVars, lost, reports>>

\* The pool restarts ss-local.
Restarted ==
    /\ counter > 0 /\ ~ended
    /\ counter' = 0
    /\ UNCHANGED <<received, unseen, total, dirty, out, main, binderVars,
                   profileVars, lost, reports>>

\* acceptInternal: nothing is written if the total has not changed.
AcceptInternal ==
    /\ received = -1 /\ reports < MaxReports /\ ~ended
    /\ reports' = reports + 1
    /\ IF counter # total
       THEN received' = counter /\ unseen' = {"total", "dirty"}
       ELSE UNCHANGED <<received, unseen>>
    /\ UNCHANGED <<counter, total, dirty, out, main, binderVars, profileVars, lost>>

\* One of the writes becomes visible.
Visible(w) ==
    /\ w \in unseen
    /\ unseen' = unseen \ {w}
    /\ total' = IF w = "total" THEN received ELSE total
    /\ dirty' = IF w = "dirty" THEN TRUE ELSE dirty
    /\ received' = IF unseen' = {} THEN -1 ELSE received
    /\ UNCHANGED <<counter, out, main, binderVars, profileVars, lost, reports>>

-----------------------------------------------------------------------------
(* The looper: requestUpdate and the broadcast *)

Tell == shown' = [c \in Clients |-> IF c \in listeners THEN out' ELSE shown[c]]

\* delay() is over and dirty is set: the copy ...
Copy ==
    /\ main = "idle" /\ looper /\ ~ended /\ dirty
    /\ main' = "clear"
    /\ out' = [total |-> total, moving |-> total # out.total]
    /\ lost' = FALSE
    /\ UNCHANGED <<counter, received, unseen, total, dirty, binderVars,
                   profileVars, reports>>

\* Bug: the listeners are told what was shown before.
ClearTellsNobody ==
    /\ main = "clear" /\ main' = "idle"
    /\ dirty' = FALSE
    /\ lost' = ("dirty" \notin unseen /\ (total # out.total \/ "total" \in unseen))
    /\ UNCHANGED <<counter, received, unseen, total, out, binderVars,
                   profileVars, reports>>

\* ... then dirty = false, and the listeners are told.
Clear ==
    /\ main = "clear" /\ main' = "idle"
    /\ dirty' = FALSE
    /\ lost' = ("dirty" \notin unseen /\ (total # out.total \/ "total" \in unseen))
    /\ out' = out /\ Tell
    /\ UNCHANGED <<counter, received, unseen, total, listeners, looper, tasks,
                   profileVars, reports>>

\* Bug: a rate that has become zero is not announced.
SettleSilently ==
    /\ main = "idle" /\ looper /\ ~ended /\ ~dirty /\ out.moving
    /\ out' = [out EXCEPT !.moving = FALSE]
    /\ UNCHANGED <<counter, received, unseen, total, dirty, main, binderVars,
                   profileVars, lost, reports>>

\* delay() is over and dirty is not set: the rate becomes zero.
Settle ==
    /\ main = "idle" /\ looper /\ ~ended /\ ~dirty /\ out.moving
    /\ out' = [out EXCEPT !.moving = FALSE] /\ Tell
    /\ UNCHANGED <<counter, received, unseen, total, dirty, main, listeners, looper,
                   tasks, profileVars, lost, reports>>

-----------------------------------------------------------------------------
(* The listeners *)

\* A call arrives on a binder thread: its body is posted.  A client that dies or
\* unregisters stops listening the same way.
Post(kind, c) ==
    /\ Len(tasks) < MaxTasks /\ ~ended
    /\ tasks' = Append(tasks, <<kind, c>>)
    /\ UNCHANGED <<counter, received, unseen, total, dirty, out, main, listeners,
                   looper, shown, profileVars, lost, reports>>

\* check(looper == null): see LooperIffListeners.
StartListening ==
    /\ main = "idle" /\ tasks # <<>> /\ Head(tasks)[1] = "start"
    /\ tasks' = Tail(tasks)
    /\ listeners' = listeners \union {Head(tasks)[2]}
    /\ looper' = (looper \/ listeners = {})
    /\ shown' = IF ended THEN shown ELSE [shown EXCEPT ![Head(tasks)[2]] = out]
    /\ UNCHANGED <<counter, received, unseen, total, dirty, out, main,
                   profileVars, lost, reports>>

\* Bug: every listener that leaves cancels the looper, not only the last.
StopListeningAny ==
    /\ main = "idle" /\ tasks # <<>> /\ Head(tasks)[1] = "stop"
    /\ tasks' = Tail(tasks)
    /\ listeners' = listeners \ {Head(tasks)[2]}
    /\ looper' = (looper /\ Head(tasks)[2] \notin listeners)
    /\ shown' = [shown EXCEPT ![Head(tasks)[2]] = Nothing]
    /\ UNCHANGED <<counter, received, unseen, total, dirty, out, main,
                   profileVars, lost, reports>>

StopListening ==
    /\ main = "idle" /\ tasks # <<>> /\ Head(tasks)[1] = "stop"
    /\ tasks' = Tail(tasks)
    /\ listeners' = listeners \ {Head(tasks)[2]}
    /\ looper' = (looper /\ listeners' # {})
    /\ shown' = [shown EXCEPT ![Head(tasks)[2]] = Nothing]
    /\ UNCHANGED <<counter, received, unseen, total, dirty, out, main,
                   profileVars, lost, reports>>

-----------------------------------------------------------------------------
(* Totals of the profile *)

\* persistStats: `persisted` is the object `current` itself, so the check in it
\* compares an object with itself.
PersistStats ==
    /\ persisted' = Append(persisted, total)
    /\ tx' = tx + total

\* ACTION_SHUTDOWN
ActionShutdown ==
    /\ main = "idle" /\ ~ended /\ persisted = <<>>
    /\ PersistStats
    /\ UNCHANGED <<counter, received, unseen, total, dirty, out, main, binderVars,
                   ended, lost, reports>>

\* ProxyInstance.shutdown
Shutdown ==
    /\ main = "idle" /\ ~ended
    /\ ended' = TRUE
    /\ PersistStats
    /\ UNCHANGED <<counter, received, unseen, total, dirty, out, main, binderVars,
                   lost, reports>>

Next ==
    \/ Traffic \/ Restarted \/ AcceptInternal
    \/ (\E w \in {"total", "dirty"} : Visible(w))
    \/ Copy \/ Clear \/ Settle
    \/ (\E k \in {"start", "stop"}, c \in Clients : Post(k, c))
    \/ StartListening \/ StopListening
    \/ ActionShutdown \/ Shutdown

Looper == Copy \/ Clear \/ Settle
Tasks == StartListening \/ StopListening

Spec == Init /\ [][Next]_vars

\* The looper's delays end, and the main thread gets to it as to its tasks.
FairSpec ==
    /\ Spec
    /\ WF_vars(Looper) /\ WF_vars(Tasks)
    /\ \A w \in {"total", "dirty"} : WF_vars(Visible(w))

-----------------------------------------------------------------------------
(* Properties *)

\* check(looper == null) and looper!! in the Binder never fail: there is a looper
\* exactly while somebody listens.
LooperIffListeners == looper <=> listeners # {}

\* When the thread has nothing in hand and dirty is not set, every listener has
\* been told the total, unless the last report fell into requestUpdate, between
\* its copy and its dirty = false (or became visible in the wrong order).
NothingMissed ==
    main = "idle" /\ unseen = {} /\ ~dirty /\ ~lost /\ ~ended =>
        \A c \in listeners : shown[c].total = total

\* When the reports stop every listener is told in the end that the rate is zero.
RateSettles ==
    \A c \in Clients :
        [](c \in listeners /\ ~ended => <>(~shown[c].moving \/ c \notin listeners \/ ended))

\* "Data loss occurred" (the check in persistStats): a second persistStats finds
\* the total that the first one persisted.
NoDataLoss == Len(persisted) = 2 => persisted[1] = persisted[2]
=============================================================================

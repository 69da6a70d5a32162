-------------------------- MODULE ServiceConnection --------------------------
(***************************************************************************)
(* The user interface's connection to the service: ShadowsocksConnection   *)
(* with its callback ConnectionManager in the UI process, Data.changeState *)
(* and the callbacks of BaseService.Binder in the service process, and the *)
(* two binder channels between them.                                       *)
(*                                                                         *)
(* Threads of the UI process: the main thread (one handler at a time;      *)
(* onServiceConnected blocks in two calls to the service) and the binder   *)
(* threads, where stateChanged and binderDied arrive.  getState and        *)
(* registerCallback are synchronous, unregisterCallback and stateChanged   *)
(* are oneway: those keep their order among themselves and may be          *)
(* overtaken by the synchronous ones.                                      *)
(*                                                                         *)
(* External: the activity manager (bindService, unbindService, its two     *)
(* notifications, which are never delivered after unbindService), the      *)
(* death notice of a binder (which unlinkToDeath may come too late for).   *)
(* Abstracted: profile names and messages; the bandwidth listener.         *)
(***************************************************************************)
EXTENDS Naturals, Sequences

CONSTANTS
    MaxLives,    \* bound: lives of the service process
    MaxBinds,    \* bound: calls of connect that bind
    MaxChanges,  \* bound: state changes of the service
    MaxActs      \* bound: activities alive at the same time

ASSUME BoundsAssumption ==
    /\ MaxLives \in Nat \ {0} /\ MaxBinds \in Nat \ {0}
    /\ MaxChanges \in Nat /\ MaxActs \in Nat \ {0}

VARIABLES
    \* UI process
    acts,         \* activities between onCreate and onDestroy
    active,       \* connectionActive
    registered,   \* callbackRegistered
    callback,     \* callback # null
    service,      \* the life of the process `service` refers to, 0: null
    binder,       \* likewise for `binder`
    view,         \* ConnectionManager._connected
    posts,        \* what is posted to the main thread: states to show, "died"
                  \* (onBinderDied), the system's "connected" and "disconnected"
    pc,           \* the main thread within onServiceConnected
    \* the system
    bound,        \* "no"; "binding", "posted" (onServiceConnected is), "bound",
                  \* "lost" (onServiceDisconnected is posted)
    boundTo,      \* the life of the process bound to
    linked,       \* the life whose death is to be told, 0: none
    obits,        \* lives whose death notice is on its way
    \* service process
    life,         \* number of the process's life, 0 before the first
    alive,
    state,        \* data.state
    changing,     \* the state between the broadcast and the assignment
    client,       \* UI callback in the Binder's callbacks: its registration, 0: no
    chan,         \* stateChanged calls under way to the UI
    unregs,       \* unregisterCallback calls under way to the service
    \* history
    binds, changes,
    tainted       \* one of the three races of FreshView has happened

uiVars  == <<acts, active, registered, callback, service, binder, view, pc>>
sysVars == <<bound, boundTo, linked>>
svcVars == <<life, alive, state, changing, client>>

vars == <<uiVars, sysVars, svcVars, posts, obits, chan, unregs,
          binds, changes, tainted>>

Idle == "Idle"
Notices == {"connected", "disconnected"}   \* of the system, one at a time
States == {"Connecting", "Connected", "Stopping", "Stopped"}
Lives == 0 .. MaxLives
Binds == 0 .. MaxBinds

\* changeState is called along these pairs only (VpnService): onStartCommand
\* and its job change to Connecting and to Connected, stopRunner to Stopping
\* from every other state, a stopped service included (a start command without
\* a profile), and then to Stopped.
Step(s) ==
    CASE s = "Stopped"    -> {"Connecting", "Stopping"}
      [] s = "Connecting" -> {"Connected", "Stopping"}
      [] s = "Connected"  -> {"Stopping"}
      [] s = "Stopping"   -> {"Stopped"}

TypeOK ==
    /\ acts \in 0 .. MaxActs
    /\ active \in BOOLEAN /\ registered \in BOOLEAN /\ callback \in BOOLEAN
    /\ service \in Lives /\ binder \in Lives
    /\ view \in States \union {Idle}
    /\ posts \in Seq(States \union {"died", "connected", "disconnected"})
    /\ pc \in {"idle", "register", "getState"}
    /\ bound \in {"no", "binding", "posted", "bound", "lost"} /\ boundTo \in Lives /\ linked \in Lives
    /\ obits \subseteq Lives
    /\ life \in Lives /\ alive \in BOOLEAN
    /\ state \in States /\ changing \in States \union {"no"}
    /\ client \in Binds
    /\ chan \in Seq(States \X Binds) /\ unregs \in Seq(Lives)
    /\ binds \in Binds /\ changes \in 0 .. MaxChanges /\ tainted \in BOOLEAN

Init ==
    /\ acts = 0 /\ active = FALSE /\ registered = FALSE /\ callback = FALSE
    /\ service = 0 /\ binder = 0 /\ view = Idle /\ posts = <<>> /\ pc = "idle"
    /\ bound = "no" /\ boundTo = 0 /\ linked = 0 /\ obits = {}
    /\ life = 0 /\ alive = FALSE /\ state = "Stopped" /\ changing = "no"
    /\ client = 0 /\ chan = <<>> /\ unregs = <<>>
    /\ binds = 0 /\ changes = 0 /\ tainted = FALSE

-----------------------------------------------------------------------------
(* UI process, main thread *)

\* connect() binds, unless the connection is active already.
Connect ==
    IF active
    THEN UNCHANGED <<active, callback, bound, binds>>
    ELSE /\ binds < MaxBinds /\ binds' = binds + 1
         /\ active' = TRUE /\ callback' = TRUE /\ bound' = "binding"

\* Bug: callbackRegistered is reset only when the service is there.
UnregisterCallbackIfThere ==
    /\ unregs' = IF registered /\ service = life /\ alive
                 THEN Append(unregs, life) ELSE unregs
    /\ registered' = (registered /\ service = 0)

\* unregisterCallback(): a oneway call if the service is there.
UnregisterCallback ==
    /\ unregs' = IF registered /\ service = life /\ alive
                 THEN Append(unregs, life) ELSE unregs
    /\ registered' = FALSE

\* The system forgets what it had posted for the old binding.
Forget(queue) ==
    IF \E i \in DOMAIN queue : queue[i] \in Notices
    THEN LET k == CHOOSE i \in DOMAIN queue : queue[i] \in Notices
         IN [i \in 1 .. Len(queue) - 1 |-> IF i < k THEN queue[i] ELSE queue[i + 1]]
    ELSE queue

\* disconnect(), and connect() after it if `again`.
Disconnect(again, queue) ==
    /\ UnregisterCallback
    /\ active' = again /\ callback' = again
    /\ bound' = IF again THEN "binding" ELSE "no"
    /\ posts' = Forget(queue)
    /\ linked' = IF binder # 0 THEN 0 ELSE linked
    /\ obits' \in IF binder # 0 THEN {obits, obits \ {binder}} ELSE {obits}
    /\ binder' = 0 /\ service' = 0

\* MainActivity.onCreate: ConnectionManager.init
OnCreate ==
    /\ pc = "idle" /\ acts < MaxActs
    /\ acts' = acts + 1
    /\ Connect
    /\ UNCHANGED <<registered, service, binder, view, pc, boundTo, linked, svcVars,
                   posts, obits, chan, unregs, changes, tainted>>

\* MainActivity.onDestroy: ConnectionManager.unbindService
OnDestroy ==
    /\ pc = "idle" /\ acts > 0
    /\ acts' = acts - 1
    /\ Disconnect(FALSE, posts)
    /\ UNCHANGED <<view, pc, boundTo, svcVars, chan, binds, changes, tainted>>

\* ConnectionManager.reconnect and onPreferenceDataStoreChanged(serviceMode)
Rebind ==
    /\ pc = "idle" /\ acts > 0 /\ binds < MaxBinds
    /\ binds' = binds + 1
    /\ Disconnect(TRUE, posts)
    /\ UNCHANGED <<acts, view, pc, boundTo, svcVars, chan, changes, tainted>>

\* onServiceConnected up to registerCallback; the system drops it if the process
\* has died since.
OnServiceConnected ==
    /\ pc = "idle" /\ posts # <<>> /\ Head(posts) = "connected"
    /\ posts' = Tail(posts)
    /\ IF alive
       THEN /\ bound' = "bound" /\ pc' = "register"
            /\ binder' = boundTo /\ service' = boundTo /\ linked' = boundTo
       ELSE bound' = "binding" /\ UNCHANGED <<binder, service, linked, pc>>
    /\ UNCHANGED <<acts, active, registered, callback, view, boundTo, svcVars,
                   obits, chan, unregs, binds, changes, tainted>>

\* registerCallback is handled and returns; a dead service throws.
RegisterCallback ==
    /\ pc = "register" /\ pc' = "getState"
    /\ IF alive /\ boundTo = life
       THEN /\ client' = binds /\ registered' = TRUE
            /\ tainted' = (tainted \/ changing # "no")
       ELSE UNCHANGED <<client, registered, tainted>>
    /\ UNCHANGED <<acts, active, callback, service, binder, view, sysVars, life,
                   alive, state, changing, posts, obits, chan, unregs, binds, changes>>

\* ConnectionManager.onServiceConnected
GetState ==
    /\ pc = "getState" /\ pc' = "idle"
    /\ view' = IF alive /\ boundTo = life THEN state ELSE Idle
    /\ UNCHANGED <<acts, active, registered, callback, service, binder, sysVars,
                   svcVars, posts, obits, chan, unregs, binds, changes, tainted>>

\* The process behind the connection died; the binding stays.
OnServiceDisconnected ==
    /\ pc = "idle" /\ posts # <<>> /\ Head(posts) = "disconnected"
    /\ posts' = Tail(posts)
    /\ bound' = "binding"
    /\ UnregisterCallback
    /\ view' = IF callback THEN Idle ELSE view
    /\ service' = 0 /\ binder' = 0
    /\ UNCHANGED <<acts, active, callback, pc, boundTo, linked, svcVars,
                   obits, chan, binds, changes, tainted>>

\* ConnectionManager.stateChanged
ShowState ==
    /\ pc = "idle" /\ posts # <<>> /\ Head(posts) \in States
    /\ posts' = Tail(posts)
    /\ view' = Head(posts)
    /\ UNCHANGED <<acts, active, registered, callback, service, binder, pc, sysVars,
                   svcVars, obits, chan, unregs, binds, changes, tainted>>

\* ConnectionManager.onBinderDied
OnBinderDied ==
    /\ pc = "idle" /\ posts # <<>> /\ Head(posts) = "died"
    /\ Disconnect(FALSE, Tail(posts))
    /\ UNCHANGED <<acts, view, pc, boundTo, svcVars, chan, binds, changes, tainted>>

-----------------------------------------------------------------------------
(* UI process, binder threads *)

\* Bug: the posted coroutines may overtake each other.
DeliverUnordered ==
    /\ chan # <<>>
    /\ chan' = Tail(chan)
    /\ posts' = IF callback THEN <<Head(chan)[1]>> \o posts ELSE posts
    /\ tainted' = (tainted \/ (callback /\ Head(chan)[2] # binds))
    /\ UNCHANGED <<uiVars, sysVars, svcVars, obits, unregs, binds, changes>>

\* stateChanged: posted for the callback of this moment, if there is one.
Deliver ==
    /\ chan # <<>>
    /\ chan' = Tail(chan)
    /\ posts' = IF callback THEN Append(posts, Head(chan)[1]) ELSE posts
    /\ tainted' = (tainted \/ (callback /\ Head(chan)[2] # binds))
    /\ UNCHANGED <<uiVars, sysVars, svcVars, obits, unregs, binds, changes>>

BinderDied(e) ==
    /\ e \in obits
    /\ obits' = obits \ {e}
    /\ service' = 0 /\ registered' = FALSE
    /\ posts' = IF callback THEN Append(posts, "died") ELSE posts
    /\ UNCHANGED <<acts, active, callback, binder, view, pc, sysVars, svcVars,
                   chan, unregs, binds, changes, tainted>>

-----------------------------------------------------------------------------
(* The system *)

PostConnected ==
    /\ bound = "binding" /\ alive
    /\ bound' = "posted" /\ boundTo' = life
    /\ posts' = Append(posts, "connected")
    /\ UNCHANGED <<uiVars, linked, svcVars, obits, chan, unregs, binds, changes, tainted>>

PostDisconnected ==
    /\ bound = "bound" /\ (boundTo # life \/ ~alive)
    /\ bound' = "lost"
    /\ posts' = Append(posts, "disconnected")
    /\ UNCHANGED <<uiVars, boundTo, linked, svcVars, obits, chan, unregs, binds,
                   changes, tainted>>

\* The process is started for the binding, again if it has died.
Spawn ==
    /\ ~alive /\ bound \notin {"no", "posted"} /\ life < MaxLives
    /\ life' = life + 1 /\ alive' = TRUE
    /\ state' = "Stopped" /\ changing' = "no" /\ client' = 0
    /\ UNCHANGED <<uiVars, sysVars, posts, obits, chan, unregs, binds, changes, tainted>>

-----------------------------------------------------------------------------
(* Service process *)

Die ==
    /\ alive
    /\ alive' = FALSE
    /\ obits' = IF linked = life THEN obits \union {life} ELSE obits
    /\ linked' = IF linked = life THEN 0 ELSE linked
    /\ UNCHANGED <<uiVars, bound, boundTo, life, state, changing, client, posts,
                   chan, unregs, binds, changes, tainted>>

\* onDestroy of a stopped service that nobody is bound to: the Binder is closed.
ServiceOnDestroy ==
    /\ alive /\ bound = "no" /\ state = "Stopped" /\ changing = "no"
    /\ alive' = FALSE /\ client' = 0
    /\ UNCHANGED <<uiVars, sysVars, life, state, changing, posts, obits, chan,
                   unregs, binds, changes, tainted>>

\* changeState: Binder.stateChanged broadcasts ...
Broadcast(s) ==
    /\ alive /\ changing = "no" /\ s \in Step(state) /\ changes < MaxChanges
    /\ changes' = changes + 1 /\ changing' = s
    /\ chan' = IF client # 0 THEN Append(chan, <<s, client>>) ELSE chan
    /\ UNCHANGED <<uiVars, sysVars, life, alive, state, client, posts, obits,
                   unregs, binds, tainted>>

\* ... before the assignment.
Assign ==
    /\ alive /\ changing # "no"
    /\ state' = changing /\ changing' = "no"
    /\ UNCHANGED <<uiVars, sysVars, life, alive, client, posts, obits, chan,
                   unregs, binds, changes, tainted>>

\* Binder.unregisterCallback
HandleUnregister ==
    /\ unregs # <<>>
    /\ unregs' = Tail(unregs)
    /\ IF alive /\ Head(unregs) = life
       THEN /\ client' = 0
            /\ tainted' = (tainted \/ registered)
       ELSE UNCHANGED <<client, tainted>>
    /\ UNCHANGED <<uiVars, sysVars, life, alive, state, changing, posts, obits,
                   chan, binds, changes>>

Next ==
    \/ OnCreate \/ OnDestroy \/ Rebind
    \/ OnServiceConnected \/ RegisterCallback \/ GetState
    \/ OnServiceDisconnected \/ ShowState \/ OnBinderDied
    \/ Deliver \/ (\E e \in Lives : BinderDied(e))
    \/ PostConnected \/ PostDisconnected \/ Spawn \/ Die \/ ServiceOnDestroy
    \/ (\E s \in States : Broadcast(s)) \/ Assign \/ HandleUnregister

Spec == Init /\ [][Next]_vars

-----------------------------------------------------------------------------
(* Properties *)

Quiet ==
    /\ pc = "idle" /\ posts = <<>> /\ chan = <<>> /\ unregs = <<>> /\ obits = {}
    /\ changing = "no"

\* The assertions of ShadowsocksConnection never fail: check(!callbackRegistered)
\* and callback!! in onServiceConnected, check(callback == null) in connect,
\* whatever binderDied and the death of the process do in between.
ChecksHold ==
    /\ TypeOK
    /\ bound = "posted" => ~registered /\ callback
    /\ pc = "getState" => callback
    /\ ~active => ~callback

\* Once nothing is under way the user sees the service's state and will hear of
\* the next change, unless one of three races has happened: registerCallback fell
\* between the broadcast and the assignment of a state; a stateChanged sent to an
\* earlier registration arrived after the next bind; the unregisterCallback of an
\* earlier connection was handled after the registerCallback of this one.
FreshView ==
    Quiet /\ registered /\ alive /\ service = life /\ ~tainted =>
        view = state /\ client # 0

\* "Different from Android framework, this method will be called even when you
\* call `detachService`" (Callback.onServiceDisconnected): a detached
\* ConnectionManager has been told, and shows Idle.
DetachIsReported == Quiet /\ ~active => view = Idle
=============================================================================

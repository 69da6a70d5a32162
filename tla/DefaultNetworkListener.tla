----------------------- MODULE DefaultNetworkListener -----------------------
(***************************************************************************)
(* net/DefaultNetworkListener.kt, an actor that follows the default        *)
(* network for its listeners, and its only user, VpnService: preInit       *)
(* starts listening, openConnection gets the network while the custom      *)
(* rules are downloaded, killProcesses stops.  The key killProcesses stops *)
(* with is the coroutine that `this` means inside scope.launch, not the    *)
(* service that preInit started with.                                      *)
(*                                                                         *)
(* The actor handles one message at a time, in the order the senders come; *)
(* sessions of successive service instances do not overlap (VpnService).   *)
(* External: the connectivity manager.  Abstracted: capabilities (Update   *)
(* only refreshes), the API 23 fallback, which does not listen at all.     *)
(***************************************************************************)
EXTENDS Naturals, Sequences

CONSTANTS
    Services,    \* service instances that live in the process one after the other
    Nets,        \* networks
    Gets,        \* calls of get()
    MaxEvents    \* bound: changes of the default network and sessions

NoNet == "none"
Coroutine == "coroutine"

VARIABLES
    available,   \* the default network
    calledBack,  \* Callback is registered with the connectivity manager
    mail,        \* messages to the actor
    listeners,   \* keys of the actor's listeners
    network,     \* the actor's network
    pending,     \* pendingRequests
    underlying,  \* underlyingNetwork of each service
    session,     \* the service that has a session, or NoNet
    get,         \* progress of each get()
    events

vars == <<available, calledBack, mail, listeners, network, pending, underlying,
          session, get, events>>

\* One message: its kind and a key, a network or a call of get().
Message ==
    ({"Start", "Stop"} \X (Services \union {Coroutine}))
        \union ({"Put", "Update", "Lost"} \X Nets) \union ({"Get"} \X Gets)

TypeOK ==
    /\ available \in Nets \union {NoNet} /\ network \in Nets \union {NoNet}
    /\ calledBack \in BOOLEAN
    /\ mail \in Seq(Message)
    /\ listeners \subseteq Services
    /\ pending \subseteq Gets
    /\ underlying \in [Services -> Nets \union {NoNet}]
    /\ session \in Services \union {NoNet}
    /\ get \in [Gets -> {"new", "waits", "done", "cancelled"}]
    /\ events \in 0 .. MaxEvents

Init ==
    /\ available \in Nets \union {NoNet} /\ calledBack = FALSE /\ mail = <<>>
    /\ listeners = {} /\ network = NoNet /\ pending = {}
    /\ underlying = [k \in Services |-> NoNet] /\ session = NoNet
    /\ get = [g \in Gets |-> "new"] /\ events = 0

Mail(kind, x) == mail' = Append(mail, <<kind, x>>)

-----------------------------------------------------------------------------
(* VpnService *)

\* Bug: preInit only listens if there is a network.
PreInitLazily(k) ==
    /\ session = NoNet /\ events < MaxEvents /\ events' = events + 1
    /\ session' = k
    /\ IF available = NoNet THEN UNCHANGED mail ELSE Mail("Start", k)
    /\ UNCHANGED <<available, calledBack, listeners, network, pending, underlying, get>>

\* preInit, first of all in the connecting job
PreInit(k) ==
    /\ session = NoNet /\ events < MaxEvents /\ events' = events + 1
    /\ session' = k
    /\ Mail("Start", k)
    /\ UNCHANGED <<available, calledBack, listeners, network, pending, underlying, get>>

\* openConnection, in Acl.flatten
OpenConnection(g) ==
    /\ session # NoNet /\ get[g] = "new"
    /\ get' = [get EXCEPT ![g] = "waits"]
    /\ Mail("Get", g)
    /\ UNCHANGED <<available, calledBack, listeners, network, pending, underlying,
                   session, events>>

\* killProcesses, after the connecting job is cancelled and with it its get()
KillProcesses ==
    /\ session # NoNet
    /\ session' = NoNet
    /\ get' = [g \in Gets |-> IF get[g] = "waits" THEN "cancelled" ELSE get[g]]
    /\ Mail("Stop", Coroutine)
    /\ UNCHANGED <<available, calledBack, listeners, network, pending, underlying, events>>

-----------------------------------------------------------------------------
(* The actor *)

Tell(n) ==
    underlying' = [k \in Services |-> IF k \in listeners THEN n ELSE underlying[k]]

Receives(kind) == mail # <<>> /\ Head(mail)[1] = kind
Arg == Head(mail)[2]

\* The system calls back at once if there is a network.
HandleStart ==
    /\ Receives("Start")
    /\ listeners' = listeners \union {Arg}
    /\ calledBack' = TRUE
    /\ mail' = IF listeners = {} /\ available # NoNet
               THEN Append(Tail(mail), <<"Put", available>>) ELSE Tail(mail)
    /\ underlying' = IF network # NoNet THEN [underlying EXCEPT ![Arg] = network]
                                        ELSE underlying
    /\ UNCHANGED <<available, network, pending, session, get, events>>

Complete(gs) ==
    get' = [g \in Gets |-> IF g \in gs /\ get[g] = "waits" THEN "done" ELSE get[g]]

\* check(listeners.isNotEmpty()) fails the actor: see GetHasListener.
HandleGet ==
    /\ Receives("Get") /\ listeners # {}
    /\ mail' = Tail(mail)
    /\ IF network = NoNet
       THEN pending' = pending \union {Arg} /\ UNCHANGED get
       ELSE Complete({Arg}) /\ UNCHANGED pending
    /\ UNCHANGED <<available, calledBack, listeners, network, underlying, session, events>>

HandleStop ==
    /\ Receives("Stop")
    /\ mail' = Tail(mail)
    /\ listeners' = listeners \ {Arg}
    /\ IF Arg \in listeners /\ listeners' = {}
       THEN network' = NoNet /\ calledBack' = FALSE
       ELSE UNCHANGED <<network, calledBack>>
    /\ UNCHANGED <<available, pending, underlying, session, get, events>>

\* Bug: the pending requests are cleared and not completed.
HandlePutForgets ==
    /\ Receives("Put")
    /\ mail' = Tail(mail)
    /\ network' = Arg /\ pending' = {} /\ Tell(Arg)
    /\ UNCHANGED <<available, calledBack, listeners, session, get, events>>

HandlePut ==
    /\ Receives("Put")
    /\ mail' = Tail(mail)
    /\ network' = Arg
    /\ Complete(pending) /\ pending' = {}
    /\ Tell(Arg)
    /\ UNCHANGED <<available, calledBack, listeners, session, events>>

HandleUpdate ==
    /\ Receives("Update")
    /\ mail' = Tail(mail)
    /\ IF network = Arg THEN Tell(Arg) ELSE UNCHANGED underlying
    /\ UNCHANGED <<available, calledBack, listeners, network, pending, session, get, events>>

\* Bug: the loss of any network counts.
HandleLostAny ==
    /\ Receives("Lost")
    /\ mail' = Tail(mail)
    /\ network' = NoNet /\ Tell(NoNet)
    /\ UNCHANGED <<available, calledBack, listeners, pending, session, get, events>>

HandleLost ==
    /\ Receives("Lost")
    /\ mail' = Tail(mail)
    /\ IF network = Arg THEN network' = NoNet /\ Tell(NoNet)
                        ELSE UNCHANGED <<network, underlying>>
    /\ UNCHANGED <<available, calledBack, listeners, pending, session, get, events>>

Actor ==
    HandleStart \/ HandleGet \/ HandleStop \/ HandlePut \/ HandleUpdate \/ HandleLost

-----------------------------------------------------------------------------
(* The connectivity manager *)

\* The default network becomes n: Put(n), then the Lost of the one it replaces.
NetworkChanges(n) ==
    /\ n # available /\ events < MaxEvents /\ events' = events + 1
    /\ available' = n
    /\ LET put  == IF n = NoNet THEN <<>> ELSE <<<<"Put", n>>>>
           lost == IF available = NoNet THEN <<>> ELSE <<<<"Lost", available>>>>
       IN mail' = IF calledBack THEN mail \o put \o lost ELSE mail
    /\ UNCHANGED <<calledBack, listeners, network, pending, underlying, session, get>>

CapabilitiesChange ==
    /\ calledBack /\ available # NoNet /\ events < MaxEvents /\ events' = events + 1
    /\ Mail("Update", available)
    /\ UNCHANGED <<available, calledBack, listeners, network, pending, underlying,
                   session, get>>

Next ==
    \/ (\E k \in Services : PreInit(k)) \/ (\E g \in Gets : OpenConnection(g))
    \/ KillProcesses
    \/ HandleStart \/ HandleGet \/ HandleStop \/ HandlePut \/ HandleUpdate \/ HandleLost
    \/ (\E n \in Nets \union {NoNet} : NetworkChanges(n)) \/ CapabilitiesChange

Spec == Init /\ [][Next]_vars

\* The actor runs in whoever sends to it.
FairSpec == Spec /\ WF_vars(Actor)

-----------------------------------------------------------------------------
(* Properties *)

\* check(listeners.isNotEmpty()) in the actor never fails.
GetHasListener == Receives("Get") => listeners # {}

\* When the actor has handled its mail every listening service has the default
\* network as its underlying network, across sessions and restarts of the
\* service, in whatever order networks came and went.
UnderlyingIsDefault ==
    mail = <<>> => \A k \in listeners : underlying[k] = available

\* A session that runs is listening, or its Start is on the way.
SessionListens ==
    session # NoNet =>
        session \in listeners \/ \E i \in DOMAIN mail : mail[i] = <<"Start", session>>

\* A get() is answered unless it is cancelled or there is no network.
GetIsAnswered ==
    \A g \in Gets : get[g] = "waits" ~> (get[g] # "waits" \/ available = NoNet)
=============================================================================

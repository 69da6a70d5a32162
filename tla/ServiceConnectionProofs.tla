----------------------- MODULE ServiceConnectionProofs -----------------------
(***************************************************************************)
(* Proofs about ServiceConnection, for any number of lives of the service, *)
(* bindings, state changes and activities.                                 *)
(***************************************************************************)
EXTENDS ServiceConnection, TLAPS

-----------------------------------------------------------------------------
(* The binding *)

\* The connection is active while it has a callback and a binding; the callback is
\* registered, and onServiceConnected runs, only in a binding that the system has
\* announced; what the system has posted belongs to the binding of now, and there
\* is at most one such notice.
Posted ==
    /\ \A i \in DOMAIN posts : posts[i] = "connected" => bound = "posted"
    /\ \A i \in DOMAIN posts : posts[i] = "disconnected" => bound = "lost"
    /\ \A i, j \in DOMAIN posts : posts[i] \in Notices /\ posts[j] \in Notices => i = j

Bound ==
    /\ callback = active
    /\ bound = "no" <=> ~active
    /\ active => binds > 0
    /\ registered => bound \in {"bound", "lost"}
    /\ pc # "idle" => bound \in {"bound", "lost"}
    /\ pc = "register" => ~registered
    /\ bound = "posted" => boundTo = life

BindingInv == TypeOK /\ Bound /\ Posted


\* Taking a notice back: no other is left.
LEMMA ForgetLemma ==
    ASSUME NEW S, NEW q \in Seq(S),
           \A i, j \in DOMAIN q : q[i] \in Notices /\ q[j] \in Notices => i = j
    PROVE  /\ Forget(q) \in Seq(S)
           /\ \A i \in DOMAIN Forget(q) : Forget(q)[i] \notin Notices
<1>1. CASE \E i \in DOMAIN q : q[i] \in Notices
  <2> DEFINE k == CHOOSE i \in DOMAIN q : q[i] \in Notices
             f == [i \in 1 .. Len(q) - 1 |-> IF i < k THEN q[i] ELSE q[i + 1]]
  <2>1. k \in DOMAIN q /\ q[k] \in Notices
    BY <1>1, Zenon
  <2>2. Forget(q) = f
    BY <1>1, Zenon DEF Forget
  <2> HIDE DEF k
  <2>3. f \in Seq(S) /\ DOMAIN f = 1 .. Len(q) - 1
    BY <2>1
  <2>4. \A i \in 1 .. Len(q) - 1 : f[i] \notin Notices
    BY <2>1
  <2> QED
    BY <2>2, <2>3, <2>4
<1>2. CASE ~\E i \in DOMAIN q : q[i] \in Notices
  BY <1>2 DEF Forget
<1> QED
  BY <1>1, <1>2

\* What is left in the queue when its first element is taken.
LEMMA TailPosted ==
    ASSUME NEW S, posts \in Seq(S), posts # <<>>, Posted
    PROVE  /\ Tail(posts) \in Seq(S) /\ DOMAIN Tail(posts) = 1 .. Len(posts) - 1
           /\ \A i \in DOMAIN Tail(posts) : i + 1 \in DOMAIN posts /\ Tail(posts)[i] = posts[i + 1]
           /\ \A i, j \in DOMAIN Tail(posts) :
                  Tail(posts)[i] \in Notices /\ Tail(posts)[j] \in Notices => i = j
<1>1. /\ Tail(posts) \in Seq(S) /\ DOMAIN Tail(posts) = 1 .. Len(posts) - 1
      /\ \A i \in DOMAIN Tail(posts) : i + 1 \in DOMAIN posts /\ Tail(posts)[i] = posts[i + 1]
  OBVIOUS
<1>2. \A i, j \in DOMAIN Tail(posts) :
          Tail(posts)[i] \in Notices /\ Tail(posts)[j] \in Notices => i = j
  <2> SUFFICES ASSUME NEW i \in DOMAIN Tail(posts), NEW j \in DOMAIN Tail(posts),
                      Tail(posts)[i] \in Notices, Tail(posts)[j] \in Notices
               PROVE  i = j
    OBVIOUS
  <2>1. i + 1 = j + 1
    BY <1>1 DEF Posted
  <2> QED
    BY <1>1, <2>1
<1> QED
  BY <1>1, <1>2

\* A post that is not one of the system's.
LEMMA AppendPosted ==
    ASSUME NEW S, posts \in Seq(S), NEW x, x \notin Notices, Posted,
           posts' = Append(posts, x), bound' = bound
    PROVE  Posted'
<1>1. /\ DOMAIN posts' = 1 .. Len(posts) + 1 /\ DOMAIN posts = 1 .. Len(posts)
      /\ Len(posts) \in Nat
  OBVIOUS
<1>2. \A i \in DOMAIN posts' : posts'[i] \in Notices => i \in DOMAIN posts /\ posts'[i] = posts[i]
  OBVIOUS
<1> QED
  BY <1>1, <1>2 DEF Posted, Notices

\* The parts of TypeOK: the flags, the positions and the channels.
Flags ==
    /\ active \in BOOLEAN /\ registered \in BOOLEAN /\ callback \in BOOLEAN
    /\ alive \in BOOLEAN /\ tainted \in BOOLEAN

Values ==
    /\ acts \in 0 .. MaxActs /\ service \in Lives /\ binder \in Lives
    /\ view \in States \union {Idle} /\ pc \in {"idle", "register", "getState"}
    /\ bound \in {"no", "binding", "posted", "bound", "lost"}
    /\ boundTo \in Lives /\ linked \in Lives /\ obits \subseteq Lives /\ life \in Lives
    /\ state \in States /\ changing \in States \union {"no"} /\ client \in Binds
    /\ binds \in Binds /\ changes \in 0 .. MaxChanges

Channels ==
    /\ posts \in Seq(States \union {"died", "connected", "disconnected"})
    /\ chan \in Seq(States \X Binds) /\ unregs \in Seq(Lives)

\* They make up TypeOK.
LEMMA TypeParts == TypeOK <=> Flags /\ Values /\ Channels
BY Zenon DEF TypeOK, Flags, Values, Channels

\* Every value keeps its type.
LEMMA TypeStep ==
    ASSUME TypeOK, Posted, [Next]_vars
    PROVE  TypeOK'
<1>0. Flags /\ Values /\ Channels
  BY TypeParts
<1> SUFFICES Flags' /\ Values' /\ Channels'
  BY TypeParts, PTL
<1> USE BoundsAssumption DEF uiVars, sysVars, svcVars
<1>1. CASE OnCreate
  <2>1. Flags'
    BY <1>0, <1>1, Zenon DEF Flags, OnCreate, Connect
  <2>2. Values'
    BY <1>0, <1>1 DEF Values, States, Lives, Binds, Idle, OnCreate, Connect
  <2>3. Channels'
    BY <1>0, <1>1 DEF Values, Channels, States, Lives, Binds, OnCreate, Connect
  <2> QED
    BY <2>1, <2>2, <2>3
<1>2. CASE OnDestroy
  <2>1. Flags'
    BY <1>0, <1>2, Zenon DEF Flags, OnDestroy, Disconnect, UnregisterCallback
  <2>2. Values'
    BY <1>0, <1>2 DEF Values, States, Lives, Binds, Idle, OnDestroy, Disconnect, UnregisterCallback
  <2>3. Channels'
    <3>1. posts' \in Seq(States \union {"died", "connected", "disconnected"})
      BY <1>0, <1>2, ForgetLemma DEF Channels, Posted, OnDestroy, Disconnect
    <3>2. chan' \in Seq(States \X Binds) /\ unregs' \in Seq(Lives)
      BY <1>0, <1>2 DEF Channels, Values, OnDestroy, Disconnect, UnregisterCallback
    <3> QED
      BY <3>1, <3>2 DEF Channels
  <2> QED
    BY <2>1, <2>2, <2>3
<1>3. CASE Rebind
  <2>1. Flags'
    BY <1>0, <1>3, Zenon DEF Flags, Rebind, Disconnect, UnregisterCallback
  <2>2. Values'
    BY <1>0, <1>3 DEF Values, States, Lives, Binds, Idle, Rebind, Disconnect, UnregisterCallback
  <2>3. Channels'
    <3>1. posts' \in Seq(States \union {"died", "connected", "disconnected"})
      BY <1>0, <1>3, ForgetLemma DEF Channels, Posted, Rebind, Disconnect
    <3>2. chan' \in Seq(States \X Binds) /\ unregs' \in Seq(Lives)
      BY <1>0, <1>3 DEF Channels, Values, Rebind, Disconnect, UnregisterCallback
    <3> QED
      BY <3>1, <3>2 DEF Channels
  <2> QED
    BY <2>1, <2>2, <2>3
<1>4. CASE OnServiceConnected
  <2>1. Flags'
    BY <1>0, <1>4, Zenon DEF Flags, OnServiceConnected
  <2>2. Values'
    BY <1>0, <1>4 DEF Values, States, Lives, Binds, Idle, OnServiceConnected
  <2>3. Channels'
    BY <1>0, <1>4 DEF Values, Channels, States, Lives, Binds, OnServiceConnected
  <2> QED
    BY <2>1, <2>2, <2>3
<1>5. CASE RegisterCallback
  <2>1. Flags'
    BY <1>0, <1>5, Zenon DEF Flags, RegisterCallback
  <2>2. Values'
    BY <1>0, <1>5 DEF Values, States, Lives, Binds, Idle, RegisterCallback
  <2>3. Channels'
    BY <1>0, <1>5 DEF Values, Channels, States, Lives, Binds, RegisterCallback
  <2> QED
    BY <2>1, <2>2, <2>3
<1>6. CASE GetState
  <2>1. Flags'
    BY <1>0, <1>6, Zenon DEF Flags, GetState
  <2>2. Values'
    BY <1>0, <1>6 DEF Values, States, Lives, Binds, Idle, GetState
  <2>3. Channels'
    BY <1>0, <1>6 DEF Values, Channels, States, Lives, Binds, GetState
  <2> QED
    BY <2>1, <2>2, <2>3
<1>7. CASE OnServiceDisconnected
  <2>1. Flags'
    BY <1>0, <1>7, Zenon DEF Flags, OnServiceDisconnected, UnregisterCallback
  <2>2. Values'
    BY <1>0, <1>7 DEF Values, States, Lives, Binds, Idle, OnServiceDisconnected, UnregisterCallback
  <2>3. Channels'
    <3>1. posts' \in Seq(States \union {"died", "connected", "disconnected"}) /\ chan' = chan
      BY <1>0, <1>7 DEF Channels, OnServiceDisconnected
    <3>2. unregs' \in Seq(Lives)
      BY <1>0, <1>7 DEF Channels, Values, OnServiceDisconnected, UnregisterCallback
    <3> QED
      BY <1>0, <3>1, <3>2 DEF Channels
  <2> QED
    BY <2>1, <2>2, <2>3
<1>8. CASE ShowState
  <2>1. Flags'
    BY <1>0, <1>8, Zenon DEF Flags, ShowState
  <2>2. Values'
    BY <1>0, <1>8 DEF Values, States, Lives, Binds, Idle, ShowState
  <2>3. Channels'
    BY <1>0, <1>8 DEF Values, Channels, States, Lives, Binds, ShowState
  <2> QED
    BY <2>1, <2>2, <2>3
<1>9. CASE OnBinderDied
  <2>1. Flags'
    BY <1>0, <1>9, Zenon DEF Flags, OnBinderDied, Disconnect, UnregisterCallback
  <2>2. Values'
    BY <1>0, <1>9 DEF Values, States, Lives, Binds, Idle, OnBinderDied, Disconnect, UnregisterCallback
  <2>3. Channels'
    <3>1. posts' \in Seq(States \union {"died", "connected", "disconnected"})
      <4>1. /\ Tail(posts) \in Seq(States \union {"died", "connected", "disconnected"})
            /\ \A i, j \in DOMAIN Tail(posts) :
                   Tail(posts)[i] \in Notices /\ Tail(posts)[j] \in Notices => i = j
        BY <1>0, <1>9, TailPosted DEF Channels, OnBinderDied
      <4> QED
        BY <1>9, <4>1, ForgetLemma DEF OnBinderDied, Disconnect
    <3>2. chan' \in Seq(States \X Binds) /\ unregs' \in Seq(Lives)
      BY <1>0, <1>9 DEF Channels, Values, OnBinderDied, Disconnect, UnregisterCallback
    <3> QED
      BY <3>1, <3>2 DEF Channels
  <2> QED
    BY <2>1, <2>2, <2>3
<1>10. CASE Deliver
  <2>1. Flags'
    BY <1>0, <1>10, Zenon DEF Flags, Deliver
  <2>2. Values'
    BY <1>0, <1>10 DEF Values, States, Lives, Binds, Idle, Deliver
  <2>3. Channels'
    BY <1>0, <1>10 DEF Values, Channels, States, Lives, Binds, Deliver
  <2> QED
    BY <2>1, <2>2, <2>3
<1>11. ASSUME NEW e \in Lives, BinderDied(e) PROVE Flags' /\ Values' /\ Channels'
  <2>1. Flags'
    BY <1>0, <1>11, Zenon DEF Flags, BinderDied
  <2>2. Values'
    BY <1>0, <1>11 DEF Values, States, Lives, Binds, Idle, BinderDied
  <2>3. Channels'
    BY <1>0, <1>11 DEF Values, Channels, States, Lives, Binds, BinderDied
  <2> QED
    BY <2>1, <2>2, <2>3
<1>12. CASE PostConnected
  <2>1. Flags'
    BY <1>0, <1>12, Zenon DEF Flags, PostConnected
  <2>2. Values'
    BY <1>0, <1>12 DEF Values, States, Lives, Binds, Idle, PostConnected
  <2>3. Channels'
    BY <1>0, <1>12 DEF Values, Channels, States, Lives, Binds, PostConnected
  <2> QED
    BY <2>1, <2>2, <2>3
<1>13. CASE PostDisconnected
  <2>1. Flags'
    BY <1>0, <1>13, Zenon DEF Flags, PostDisconnected
  <2>2. Values'
    BY <1>0, <1>13 DEF Values, States, Lives, Binds, Idle, PostDisconnected
  <2>3. Channels'
    BY <1>0, <1>13 DEF Values, Channels, States, Lives, Binds, PostDisconnected
  <2> QED
    BY <2>1, <2>2, <2>3
<1>14. CASE Spawn
  <2>1. Flags'
    BY <1>0, <1>14, Zenon DEF Flags, Spawn
  <2>2. Values'
    BY <1>0, <1>14 DEF Values, States, Lives, Binds, Idle, Spawn
  <2>3. Channels'
    BY <1>0, <1>14 DEF Values, Channels, States, Lives, Binds, Spawn
  <2> QED
    BY <2>1, <2>2, <2>3
<1>15. CASE Die
  <2>1. Flags'
    BY <1>0, <1>15, Zenon DEF Flags, Die
  <2>2. Values'
    BY <1>0, <1>15 DEF Values, States, Lives, Binds, Idle, Die
  <2>3. Channels'
    BY <1>0, <1>15 DEF Values, Channels, States, Lives, Binds, Die
  <2> QED
    BY <2>1, <2>2, <2>3
<1>16. CASE ServiceOnDestroy
  <2>1. Flags'
    BY <1>0, <1>16, Zenon DEF Flags, ServiceOnDestroy
  <2>2. Values'
    BY <1>0, <1>16 DEF Values, States, Lives, Binds, Idle, ServiceOnDestroy
  <2>3. Channels'
    BY <1>0, <1>16 DEF Values, Channels, States, Lives, Binds, ServiceOnDestroy
  <2> QED
    BY <2>1, <2>2, <2>3
<1>17. ASSUME NEW s \in States, Broadcast(s) PROVE Flags' /\ Values' /\ Channels'
  <2>1. Flags'
    BY <1>0, <1>17, Zenon DEF Flags, Broadcast, Step
  <2>2. Values'
    BY <1>0, <1>17 DEF Values, States, Lives, Binds, Idle, Broadcast
  <2>3. Channels'
    BY <1>0, <1>17 DEF Values, Channels, States, Lives, Binds, Broadcast, Step
  <2> QED
    BY <2>1, <2>2, <2>3
<1>18. CASE Assign
  <2>1. Flags'
    BY <1>0, <1>18, Zenon DEF Flags, Assign
  <2>2. Values'
    BY <1>0, <1>18 DEF Values, States, Lives, Binds, Idle, Assign
  <2>3. Channels'
    BY <1>0, <1>18 DEF Values, Channels, States, Lives, Binds, Assign
  <2> QED
    BY <2>1, <2>2, <2>3
<1>19. CASE HandleUnregister
  <2>1. Flags'
    BY <1>0, <1>19, Zenon DEF Flags, HandleUnregister
  <2>2. Values'
    BY <1>0, <1>19 DEF Values, States, Lives, Binds, Idle, HandleUnregister
  <2>3. Channels'
    BY <1>0, <1>19 DEF Values, Channels, States, Lives, Binds, HandleUnregister
  <2> QED
    BY <2>1, <2>2, <2>3
<1>20. CASE UNCHANGED vars
  BY <1>0, <1>20 DEF vars, Flags, Values, Channels
<1> QED
  BY <1>1, <1>2, <1>3, <1>4, <1>5, <1>6, <1>7, <1>8, <1>9, <1>10, <1>11, <1>12, <1>13, <1>14, <1>15, <1>16, <1>17, <1>18, <1>19, <1>20 DEF Next

\* Every handler and the system keep the binding and its notices in step.
LEMMA BindingStep ==
    ASSUME BindingInv, [Next]_vars
    PROVE  BindingInv'
<1> USE DEF uiVars, sysVars, svcVars
<1>0. TypeOK /\ Flags /\ Values /\ Channels /\ Bound /\ Posted
  BY TypeParts DEF BindingInv
<1>a. TypeOK'
  BY <1>0, TypeStep
<1> SUFFICES Bound' /\ Posted'
  BY <1>a DEF BindingInv
<1>1. CASE OnCreate
  <2>1. Bound'
    <3>1. CASE active
      BY <1>0, <1>1, <3>1 DEF Bound, OnCreate, Connect
    <3>2. CASE ~active
      <4>1. /\ active' /\ callback' /\ bound' = "binding" /\ binds' > 0
            /\ registered' = registered /\ pc' = "idle"
        BY <1>0, <1>1, <3>2, BoundsAssumption DEF Values, Binds, OnCreate, Connect
      <4> QED
        BY <1>0, <3>2, <4>1 DEF Flags, Bound
    <3> QED
      BY <3>1, <3>2
  <2>2. Posted'
    BY <1>0, <1>1 DEF Channels, Bound, Posted, Notices, States, OnCreate, Connect
  <2> QED
    BY <2>1, <2>2
<1>2. CASE OnDestroy
  <2>1. Bound'
    BY <1>0, <1>2 DEF Values, Binds, Bound, Posted, OnDestroy, Disconnect, UnregisterCallback
  <2>2. Posted'
    BY <1>0, <1>2, ForgetLemma DEF Channels, Posted, Notices, OnDestroy, Disconnect
  <2> QED
    BY <2>1, <2>2
<1>3. CASE Rebind
  <2>1. Bound'
    BY <1>0, <1>3 DEF Values, Binds, Bound, Posted, Rebind, Disconnect, UnregisterCallback
  <2>2. Posted'
    BY <1>0, <1>3, ForgetLemma DEF Channels, Posted, Notices, Rebind, Disconnect
  <2> QED
    BY <2>1, <2>2
<1>4. CASE OnServiceConnected
  <2>1. Bound'
    <3>1. 1 \in DOMAIN posts /\ posts[1] = "connected"
      BY <1>0, <1>4 DEF Channels, OnServiceConnected
    <3>2. bound = "posted"
      BY <1>0, <3>1 DEF Posted
    <3> QED
      BY <1>0, <1>4, <3>2 DEF Bound, OnServiceConnected
  <2>2. Posted'
    BY <1>0, <1>4, TailPosted DEF Channels, Posted, Notices, OnServiceConnected
  <2> QED
    BY <2>1, <2>2
<1>5. CASE RegisterCallback
  <2>1. Bound'
    BY <1>0, <1>5 DEF Values, Binds, Bound, Posted, RegisterCallback
  <2>2. Posted'
    BY <1>0, <1>5 DEF Channels, Bound, Posted, Notices, States, RegisterCallback
  <2> QED
    BY <2>1, <2>2
<1>6. CASE GetState
  <2>1. Bound'
    BY <1>0, <1>6 DEF Values, Binds, Bound, Posted, GetState
  <2>2. Posted'
    BY <1>0, <1>6 DEF Channels, Bound, Posted, Notices, States, GetState
  <2> QED
    BY <2>1, <2>2
<1>7. CASE OnServiceDisconnected
  <2>1. Bound'
    <3>1. 1 \in DOMAIN posts /\ posts[1] = "disconnected"
      BY <1>0, <1>7 DEF Channels, OnServiceDisconnected
    <3>2. bound = "lost" /\ bound' = "binding" /\ registered' = FALSE /\ pc' = "idle"
      BY <1>0, <1>7, <3>1 DEF Posted, OnServiceDisconnected, UnregisterCallback
    <3>3. active' = active /\ callback' = callback /\ binds' = binds
      BY <1>7 DEF OnServiceDisconnected
    <3> QED
      BY <1>0, <3>2, <3>3 DEF Bound
  <2>2. Posted'
    BY <1>0, <1>7, TailPosted DEF Channels, Posted, Notices, OnServiceDisconnected, UnregisterCallback
  <2> QED
    BY <2>1, <2>2
<1>8. CASE ShowState
  <2>1. Bound'
    BY <1>0, <1>8 DEF Values, Binds, Bound, Posted, ShowState
  <2>2. Posted'
    BY <1>0, <1>8, TailPosted DEF Channels, Posted, Notices, ShowState
  <2> QED
    BY <2>1, <2>2
<1>9. CASE OnBinderDied
  <2>1. Bound'
    BY <1>0, <1>9 DEF Values, Binds, Bound, Posted, OnBinderDied, Disconnect, UnregisterCallback
  <2>2. Posted'
    <3>1. /\ Tail(posts) \in Seq(States \union {"died", "connected", "disconnected"})
          /\ \A i, j \in DOMAIN Tail(posts) :
                 Tail(posts)[i] \in Notices /\ Tail(posts)[j] \in Notices => i = j
      BY <1>0, <1>9, TailPosted DEF Channels, OnBinderDied
    <3>2. \A i \in DOMAIN posts' : posts'[i] \notin Notices
      BY <1>9, <3>1, ForgetLemma DEF OnBinderDied, Disconnect
    <3> QED
      BY <3>2 DEF Posted, Notices
  <2> QED
    BY <2>1, <2>2
<1>10. CASE Deliver
  <2>1. Bound'
    BY <1>0, <1>10 DEF Values, Binds, Bound, Posted, Deliver
  <2>2. Posted'
    <3>1. Head(chan)[1] \in States
      BY <1>0, <1>10 DEF Channels, Deliver
    <3>2. bound' = bound /\ posts' \in {posts, Append(posts, Head(chan)[1])}
      BY <1>10 DEF Deliver
    <3> QED
      BY <1>0, <3>1, <3>2, AppendPosted DEF Channels, Posted, Notices, States
  <2> QED
    BY <2>1, <2>2
<1>11. ASSUME NEW e \in Lives, BinderDied(e) PROVE Bound' /\ Posted'
  <2>1. Bound'
    BY <1>0, <1>11 DEF Values, Binds, Bound, Posted, BinderDied
  <2>2. Posted'
    <3>1. bound' = bound /\ posts' \in {posts, Append(posts, "died")}
      BY <1>11 DEF BinderDied
    <3> QED
      BY <1>0, <3>1, AppendPosted DEF Channels, Posted, Notices
  <2> QED
    BY <2>1, <2>2
<1>12. CASE PostConnected
  <2>1. Bound'
    BY <1>0, <1>12 DEF Values, Binds, Bound, Posted, PostConnected
  <2>2. Posted'
    BY <1>0, <1>12 DEF Channels, Bound, Posted, Notices, States, PostConnected
  <2> QED
    BY <2>1, <2>2
<1>13. CASE PostDisconnected
  <2>1. Bound'
    BY <1>0, <1>13 DEF Values, Binds, Bound, Posted, PostDisconnected
  <2>2. Posted'
    BY <1>0, <1>13 DEF Channels, Bound, Posted, Notices, States, PostDisconnected
  <2> QED
    BY <2>1, <2>2
<1>14. CASE Spawn
  <2>1. Bound'
    BY <1>0, <1>14 DEF Values, Binds, Bound, Posted, Spawn
  <2>2. Posted'
    BY <1>0, <1>14 DEF Channels, Bound, Posted, Notices, States, Spawn
  <2> QED
    BY <2>1, <2>2
<1>15. CASE Die
  <2>1. Bound'
    BY <1>0, <1>15 DEF Values, Binds, Bound, Posted, Die
  <2>2. Posted'
    BY <1>0, <1>15 DEF Channels, Bound, Posted, Notices, States, Die
  <2> QED
    BY <2>1, <2>2
<1>16. CASE ServiceOnDestroy
  <2>1. Bound'
    BY <1>0, <1>16 DEF Values, Binds, Bound, Posted, ServiceOnDestroy
  <2>2. Posted'
    BY <1>0, <1>16 DEF Channels, Bound, Posted, Notices, States, ServiceOnDestroy
  <2> QED
    BY <2>1, <2>2
<1>17. ASSUME NEW s \in States, Broadcast(s) PROVE Bound' /\ Posted'
  <2>1. Bound'
    BY <1>0, <1>17 DEF Values, Binds, Bound, Posted, Broadcast, Step
  <2>2. Posted'
    BY <1>0, <1>17 DEF Channels, Bound, Posted, Notices, States, Broadcast, Step
  <2> QED
    BY <2>1, <2>2
<1>18. CASE Assign
  <2>1. Bound'
    BY <1>0, <1>18 DEF Values, Binds, Bound, Posted, Assign
  <2>2. Posted'
    BY <1>0, <1>18 DEF Channels, Bound, Posted, Notices, States, Assign
  <2> QED
    BY <2>1, <2>2
<1>19. CASE HandleUnregister
  <2>1. Bound'
    BY <1>0, <1>19 DEF Values, Binds, Bound, Posted, HandleUnregister
  <2>2. Posted'
    BY <1>0, <1>19 DEF Channels, Bound, Posted, Notices, States, HandleUnregister
  <2> QED
    BY <2>1, <2>2
<1>20. CASE UNCHANGED vars
  BY <1>0, <1>20 DEF vars, Bound, Posted
<1> QED
  BY <1>1, <1>2, <1>3, <1>4, <1>5, <1>6, <1>7, <1>8, <1>9, <1>10, <1>11, <1>12, <1>13, <1>14, <1>15, <1>16, <1>17, <1>18, <1>19, <1>20 DEF Next

\* Before any client binds.
LEMMA BindingInit == Init => BindingInv
<1>1. Init => Flags /\ Values /\ Channels
  <2>1. Init => Flags
    BY Zenon DEF Init, Flags
  <2>2. Init => Values
    BY BoundsAssumption DEF Init, Values, States, Lives, Binds, Idle
  <2>3. Init => Channels
    BY DEF Init, Channels
  <2> QED
    BY <2>1, <2>2, <2>3
<1>2. Init => Bound /\ Posted
  <2>1. Init => Bound
    BY DEF Init, Bound
  <2>2. Init => Posted
    BY DEF Init, Posted
  <2> QED
    BY <2>1, <2>2
<1> QED
  BY <1>1, <1>2, TypeParts DEF BindingInv

\* ChecksHold: the assertions of ShadowsocksConnection never fail.
THEOREM ChecksHoldAlways == Spec => []ChecksHold
<1>1. Init => BindingInv
  BY BindingInit
<1>2. BindingInv /\ [Next]_vars => BindingInv'
  BY BindingStep
<1>3. BindingInv => ChecksHold
  BY DEF BindingInv, Bound, ChecksHold
<1> QED
  BY <1>1, <1>2, <1>3, PTL DEF Spec

-----------------------------------------------------------------------------
(* What the user sees *)

\* The connection is closed, or binderDied or onBinderDied is going to close it.
Doomed == ~active \/ obits # {} \/ \E i \in DOMAIN posts : posts[i] = "died"

\* The state last broadcast
Current == IF changing = "no" THEN state ELSE changing

\* The last of what is under way to the user, or else what is shown, is Current.
Latest ==
    IF chan # <<>> THEN chan[Len(chan)][1] = Current
    ELSE IF posts # <<>> THEN posts[Len(posts)] = Current
    ELSE IF pc = "getState" THEN changing = "no"
    ELSE view = Current

\* No registration, and no call under way, is younger than the last binding.
Past == client <= binds /\ \A i \in DOMAIN chan : chan[i][2] <= binds

\* The process bound to is the one that runs, and its death will be told; before
\* the registration nothing is registered or under way for this binding.
Alive ==
    /\ bound # "lost"
    /\ bound = "bound" => boundTo = life /\ alive /\ linked = life
    /\ bound # "bound" \/ pc = "register" =>
           client # binds /\ \A i \in DOMAIN chan : chan[i][2] # binds

\* Without a race nothing is posted between the announcement of the binding and the
\* registration; after it, if only calls for this binding are under way, the last
\* tells the current state.
Fresh ==
    /\ \A i \in DOMAIN posts : posts[i] = "connected" => i = Len(posts)
    /\ pc = "register" => posts = <<>>
    /\ bound = "bound" /\ pc # "register" =>
           /\ registered /\ client = binds
           /\ (\A i \in DOMAIN chan : chan[i][2] = binds) => Latest

FreshInv ==
    /\ Past
    /\ ~Doomed => Alive
    /\ ~Doomed /\ ~tainted => Fresh

\* The death of the process is announced and not handled.
Died == \E i \in DOMAIN posts : posts[i] = "died"

\* The last element of a queue.
LEMMA Last ==
    ASSUME NEW S, NEW q \in Seq(S)
    PROVE  /\ q # <<>> /\ Tail(q) # <<>> => Tail(q)[Len(Tail(q))] = q[Len(q)]
           /\ q # <<>> /\ Tail(q) = <<>> => q[Len(q)] = q[1] /\ Head(q) = q[1]
           /\ \A x : Append(q, x) # <<>> /\ Append(q, x)[Len(Append(q, x))] = x
<1>1. ASSUME q # <<>>, Tail(q) # <<>> PROVE Tail(q)[Len(Tail(q))] = q[Len(q)]
  <2>1. /\ Tail(q) \in Seq(S) /\ Len(Tail(q)) = Len(q) - 1 /\ Len(q) \in Nat
        /\ \A i \in 1 .. Len(q) - 1 : Tail(q)[i] = q[i + 1]
    BY <1>1
  <2>2. Len(q) > 1
    <3>1. Len(Tail(q)) # 0
      BY <1>1, <2>1
    <3> QED
      BY <1>1, <2>1, <3>1
  <2> QED
    BY <2>1, <2>2
<1>2. ASSUME NEW x PROVE Append(q, x) # <<>> /\ Append(q, x)[Len(Append(q, x))] = x
  <2>1. Len(Append(q, x)) = Len(q) + 1 /\ Append(q, x)[Len(q) + 1] = x /\ Len(q) \in Nat
    OBVIOUS
  <2> QED
    BY <2>1
<1>3. ASSUME q # <<>>, Tail(q) = <<>> PROVE q[Len(q)] = q[1] /\ Head(q) = q[1]
  <2>1. q # <<>> => Len(Tail(q)) = Len(q) - 1 /\ Len(q) \in Nat /\ Head(q) = q[1]
    OBVIOUS
  <2>2. Len(<<>>) = 0
    OBVIOUS
  <2>3. Len(q) = 1
    <3>1. Len(Tail(q)) = 0
      BY <1>3, <2>2, Zenon
    <3>2. Len(Tail(q)) = Len(q) - 1 /\ Len(q) \in Nat
      BY <1>3, <2>1
    <3> QED
      BY <3>1, <3>2
  <2> QED
    BY <1>3, <2>1, <2>3
<1> QED
  BY <1>1, <1>2, <1>3

\* A message is handled that is not the announcement.
LEMMA DiedTail ==
    ASSUME NEW S, posts \in Seq(S), posts # <<>>, Head(posts) # "died", posts' = Tail(posts)
    PROVE  Died => Died'
<1>1. \A i \in DOMAIN posts : i # 1 => i - 1 \in DOMAIN posts' /\ posts'[i - 1] = posts[i]
  OBVIOUS
<1>2. posts[1] # "died"
  OBVIOUS
<1> QED
  BY <1>1, <1>2 DEF Died

\* A message is posted behind it.
LEMMA DiedAppend ==
    ASSUME NEW S, posts \in Seq(S), NEW x, posts' = Append(posts, x)
    PROVE  (Died => Died') /\ (x = "died" => Died')
<1>1. \A i \in DOMAIN posts : i \in DOMAIN posts' /\ posts'[i] = posts[i]
  OBVIOUS
<1>2. Len(posts) + 1 \in DOMAIN posts' /\ posts'[Len(posts) + 1] = x
  OBVIOUS
<1> QED
  BY <1>1, <1>2 DEF Died

\* Every step keeps what is under way to the user.
LEMMA FreshStep ==
    ASSUME BindingInv, FreshInv, [Next]_vars
    PROVE  FreshInv'
<1> USE DEF uiVars, sysVars, svcVars
<1>0. Flags /\ Values /\ Channels /\ Bound /\ Posted
  BY TypeParts DEF BindingInv
<1>a. Past /\ (~Doomed => Alive) /\ (~Doomed /\ ~tainted => Fresh)
  BY DEF FreshInv
<1>b. /\ binds \in Nat /\ client \in Nat /\ life \in Nat
      /\ chan \in Seq(States \X Nat) /\ unregs \in Seq(Nat)
  BY <1>0, BoundsAssumption DEF Values, Channels, Binds, Lives
<1> SUFFICES Past' /\ (~Doomed' => Alive') /\ (~Doomed' /\ ~tainted' => Fresh')
  BY DEF FreshInv
<1>1. CASE OnCreate
  <2>1. CASE active
    BY <1>0, <1>a, <1>1, <2>1 DEF Past, Doomed, Alive, Fresh, Latest, Current, OnCreate, Connect
  <2>2. CASE ~active
    <3>1. /\ binds' = binds + 1 /\ bound' = "binding" /\ pc' = "idle"
          /\ client' = client /\ chan' = chan /\ posts' = posts
      BY <1>1, <2>2 DEF OnCreate, Connect
    <3>2. \A i \in DOMAIN posts : posts[i] # "connected"
      BY <1>0, <2>2 DEF Bound, Posted
    <3> QED
      BY <1>a, <1>b, <3>1, <3>2 DEF Past, Alive, Fresh
  <2> QED
    BY <2>1, <2>2
<1>2. CASE OnDestroy
  BY <1>a, <1>2 DEF Past, Doomed, OnDestroy, Disconnect
<1>3. CASE Rebind
  <2>1. /\ binds' = binds + 1 /\ bound' = "binding" /\ pc' = "idle"
        /\ client' = client /\ chan' = chan
    BY <1>3 DEF Rebind, Disconnect
  <2>2. \A i \in DOMAIN posts' : posts'[i] # "connected"
    BY <1>0, <1>3, ForgetLemma DEF Channels, Posted, Notices, Rebind, Disconnect
  <2> QED
    BY <1>a, <1>b, <2>1, <2>2 DEF Past, Alive, Fresh
<1>4. CASE OnServiceConnected
  <2>1. /\ posts # <<>> /\ Head(posts) = "connected" /\ posts' = Tail(posts) /\ pc = "idle"
        /\ obits' = obits /\ active' = active /\ client' = client /\ chan' = chan
        /\ binds' = binds /\ tainted' = tainted /\ alive' = alive /\ life' = life
        /\ boundTo' = boundTo
    BY <1>4 DEF OnServiceConnected
  <2>2. bound = "posted" /\ boundTo = life
    <3>1. 1 \in DOMAIN posts /\ posts[1] = "connected"
      BY <1>0, <2>1 DEF Channels
    <3> QED
      BY <1>0, <3>1 DEF Bound, Posted
  <2>3. ~Doomed' => ~Doomed
    BY <1>0, <2>1, DiedTail DEF Channels, Doomed, Died
  <2>4. ~Doomed' => client # binds /\ \A i \in DOMAIN chan : chan[i][2] # binds
    BY <1>a, <2>2, <2>3 DEF Alive
  <2>5. ~Doomed' /\ ~tainted' => posts' = <<>>
    <3>1. ~Doomed' /\ ~tainted' => Fresh
      BY <1>a, <2>1, <2>3
    <3> QED
      BY <1>0, <2>1, <3>1 DEF Fresh, Channels
  <2>6. CASE alive
    <3>1. bound' = "bound" /\ pc' = "register" /\ linked' = boundTo
      BY <1>4, <2>6 DEF OnServiceConnected
    <3> QED
      BY <1>a, <2>1, <2>2, <2>4, <2>5, <2>6, <3>1 DEF Past, Alive, Fresh
  <2>7. CASE ~alive
    <3>1. bound' = "binding" /\ pc' = "idle"
      BY <1>4, <2>1, <2>7 DEF OnServiceConnected
    <3> QED
      BY <1>a, <2>1, <2>2, <2>4, <2>5, <2>7, <3>1 DEF Past, Alive, Fresh
  <2> QED
    BY <2>6, <2>7
<1>5. CASE RegisterCallback
  <2>1. /\ pc = "register" /\ pc' = "getState" /\ bound' = bound /\ boundTo' = boundTo
        /\ alive' = alive /\ life' = life /\ linked' = linked /\ posts' = posts
        /\ obits' = obits /\ active' = active /\ chan' = chan /\ binds' = binds
        /\ changing' = changing
    BY <1>5 DEF RegisterCallback
  <2>2. client' \in {client, binds}
    BY <1>5 DEF RegisterCallback
  <2>3. Past'
    BY <1>a, <1>b, <2>1, <2>2 DEF Past
  <2>4. ASSUME ~Doomed' PROVE Alive' /\ (~tainted' => Fresh')
    <3>1. ~Doomed /\ Alive
      BY <1>a, <2>1, <2>4 DEF Doomed
    <3>2. bound = "bound" /\ alive /\ boundTo = life
      BY <1>0, <2>1, <3>1 DEF Bound, Alive
    <3>3. client' = binds /\ registered' /\ tainted' = (tainted \/ changing # "no")
      BY <1>5, <3>2 DEF RegisterCallback
    <3>4. Alive'
      BY <2>1, <3>1, <3>2 DEF Alive
    <3>5. ASSUME ~tainted' PROVE Fresh'
      <4>1. Fresh /\ changing = "no"
        BY <1>a, <3>1, <3>3, <3>5
      <4>2. posts = <<>> /\ \A i \in DOMAIN chan : chan[i][2] # binds
        BY <2>1, <3>1, <4>1 DEF Fresh, Alive
      <4>3. (\A i \in DOMAIN chan : chan[i][2] = binds) => chan = <<>>
        <5>1. chan # <<>> => 1 \in DOMAIN chan
          BY <1>b
        <5> QED
          BY <4>2, <5>1
      <4> QED
        BY <2>1, <3>3, <4>1, <4>2, <4>3 DEF Fresh, Latest
    <3> QED
      BY <3>4, <3>5
  <2> QED
    BY <2>3, <2>4
<1>6. CASE GetState
  <2>1. /\ pc = "getState" /\ pc' = "idle" /\ bound' = bound /\ boundTo' = boundTo
        /\ alive' = alive /\ life' = life /\ linked' = linked /\ posts' = posts
        /\ obits' = obits /\ active' = active /\ chan' = chan /\ binds' = binds
        /\ changing' = changing /\ state' = state /\ client' = client
        /\ registered' = registered /\ tainted' = tainted
        /\ view' = IF alive /\ boundTo = life THEN state ELSE Idle
    BY <1>6 DEF GetState
  <2>2. ASSUME ~Doomed' PROVE Alive' /\ (~tainted' => Fresh')
    <3>1. ~Doomed /\ Alive
      BY <1>a, <2>1, <2>2 DEF Doomed
    <3>2. bound = "bound" /\ view' = state
      BY <1>0, <2>1, <3>1 DEF Bound, Alive
    <3>3. Alive'
      BY <2>1, <3>1, <3>2 DEF Alive
    <3>4. ASSUME ~tainted' PROVE Fresh'
      <4>1. Fresh
        BY <1>a, <2>1, <3>1, <3>4
      <4> QED
        BY <2>1, <3>2, <4>1 DEF Fresh, Latest, Current
    <3> QED
      BY <3>3, <3>4
  <2> QED
    BY <1>a, <2>1, <2>2 DEF Past
<1>7. CASE OnServiceDisconnected
  <2>1. /\ posts # <<>> /\ Head(posts) = "disconnected" /\ posts' = Tail(posts)
        /\ obits' = obits /\ active' = active /\ chan' = chan /\ binds' = binds
        /\ client' = client
    BY <1>7 DEF OnServiceDisconnected
  <2>2. bound = "lost"
    <3>1. 1 \in DOMAIN posts /\ posts[1] = "disconnected"
      BY <1>0, <2>1 DEF Channels
    <3> QED
      BY <1>0, <3>1 DEF Posted
  <2>3. Doomed
    BY <1>a, <2>2 DEF Alive
  <2>4. Doomed'
    BY <1>0, <2>1, <2>3, DiedTail DEF Channels, Doomed, Died
  <2> QED
    BY <1>a, <2>1, <2>4 DEF Past
<1>8. CASE ShowState
  <2>1. /\ posts # <<>> /\ Head(posts) \in States /\ posts' = Tail(posts) /\ pc = "idle"
        /\ pc' = "idle" /\ view' = Head(posts) /\ bound' = bound /\ boundTo' = boundTo
        /\ alive' = alive /\ life' = life /\ linked' = linked
        /\ obits' = obits /\ active' = active /\ chan' = chan /\ binds' = binds
        /\ changing' = changing /\ state' = state /\ client' = client
        /\ registered' = registered /\ tainted' = tainted
    BY <1>8 DEF ShowState
  <2>2. Head(posts) # "died"
    BY <2>1 DEF States
  <2>3. ASSUME ~Doomed' PROVE Alive' /\ (~tainted' => Fresh')
    <3>1. ~Doomed /\ Alive
      BY <1>0, <1>a, <2>1, <2>2, <2>3, DiedTail DEF Channels, Doomed, Died
    <3>2. Alive'
      BY <2>1, <3>1 DEF Alive
    <3>3. ASSUME ~tainted' PROVE Fresh'
      <4>1. Fresh
        BY <1>a, <2>1, <3>1, <3>3
      <4>2. \A i \in DOMAIN posts' : posts'[i] = "connected" => i = Len(posts')
        BY <1>0, <2>1, <4>1 DEF Channels, Fresh
      <4>3. Latest => Latest'
        <5>1. posts' = <<>> => posts[Len(posts)] = Head(posts)
          BY <1>0, <2>1, Last DEF Channels
        <5>2. posts' # <<>> => posts'[Len(posts')] = posts[Len(posts)]
          BY <1>0, <2>1 DEF Channels
        <5> QED
          BY <2>1, <5>1, <5>2 DEF Latest, Current
      <4> QED
        BY <2>1, <4>1, <4>2, <4>3 DEF Fresh
    <3> QED
      BY <3>2, <3>3
  <2> QED
    BY <1>a, <2>1, <2>3 DEF Past
<1>9. CASE OnBinderDied
  BY <1>a, <1>9 DEF Past, Doomed, OnBinderDied, Disconnect
<1>10. CASE Deliver
  <2>1. /\ chan # <<>> /\ chan' = Tail(chan) /\ pc' = pc /\ view' = view
        /\ bound' = bound /\ boundTo' = boundTo
        /\ alive' = alive /\ life' = life /\ linked' = linked
        /\ obits' = obits /\ active' = active /\ binds' = binds
        /\ changing' = changing /\ state' = state /\ client' = client
        /\ registered' = registered
        /\ posts' = IF callback THEN Append(posts, Head(chan)[1]) ELSE posts
        /\ tainted' = (tainted \/ (callback /\ Head(chan)[2] # binds))
    BY <1>10 DEF Deliver
  <2>2. /\ Head(chan) = chan[1] /\ 1 \in DOMAIN chan /\ chan[1][1] \in States
        /\ \A i \in DOMAIN chan' : i + 1 \in DOMAIN chan /\ chan'[i] = chan[i + 1]
        /\ \A i \in DOMAIN chan : i # 1 => i - 1 \in DOMAIN chan' /\ chan[i] = chan'[i - 1]
    <3>1. /\ Head(chan) = chan[1] /\ 1 \in DOMAIN chan /\ DOMAIN chan = 1 .. Len(chan)
          /\ Len(chan) \in Nat /\ DOMAIN Tail(chan) = 1 .. Len(chan) - 1
          /\ \A i \in 1 .. Len(chan) - 1 : Tail(chan)[i] = chan[i + 1]
      BY <1>b, <2>1
    <3>2. chan[1][1] \in States
      BY <1>b, <3>1
    <3>3. \A i \in DOMAIN chan' : i + 1 \in DOMAIN chan /\ chan'[i] = chan[i + 1]
      BY <2>1, <3>1
    <3>4. \A i \in DOMAIN chan : i # 1 => i - 1 \in DOMAIN chan' /\ chan[i] = chan'[i - 1]
      <4> SUFFICES ASSUME NEW i \in 1 .. Len(chan), i # 1
                   PROVE  i - 1 \in DOMAIN Tail(chan) /\ chan[i] = Tail(chan)[i - 1]
        BY <2>1, <3>1
      <4>1. i - 1 \in 1 .. Len(chan) - 1 /\ (i - 1) + 1 = i
        BY <3>1
      <4> QED
        BY <3>1, <4>1
    <3> QED
      BY <3>1, <3>2, <3>3, <3>4
  <2>3. Past'
    BY <1>a, <2>1, <2>2 DEF Past
  <2>4. ASSUME ~Doomed' PROVE Alive' /\ (~tainted' => Fresh')
    <3>1. ~Doomed /\ Alive
      BY <1>0, <1>a, <2>1, <2>4, DiedAppend DEF Channels, Doomed, Died
    <3>2. Alive'
      BY <2>1, <2>2, <3>1 DEF Alive
    <3>3. ASSUME ~tainted' PROVE Fresh'
      <4>1. Fresh /\ callback /\ chan[1][2] = binds /\ posts' = Append(posts, chan[1][1])
        BY <1>0, <1>a, <2>1, <2>2, <3>1, <3>3 DEF Doomed, Bound
      <4>2. bound = "bound" /\ pc # "register"
        BY <2>2, <3>1, <4>1 DEF Alive
      <4>3. \A i \in DOMAIN posts' : posts'[i] # "connected"
        <5>1. \A i \in DOMAIN posts : posts[i] # "connected"
          BY <1>0, <4>2 DEF Posted
        <5>2. chan[1][1] # "connected"
          BY <2>2 DEF States
        <5> QED
          BY <1>0, <4>1, <5>1, <5>2 DEF Channels
      <4>4. ASSUME \A i \in DOMAIN chan' : chan'[i][2] = binds PROVE Latest'
        <5>1. \A i \in DOMAIN chan : chan[i][2] = binds
          BY <2>2, <4>1, <4>4
        <5>2. chan[Len(chan)][1] = Current
          BY <2>1, <4>1, <4>2, <5>1 DEF Fresh, Latest
        <5>3. chan' = <<>> => chan[Len(chan)] = chan[1]
          BY <1>b, <2>1, Last
        <5>4. chan' # <<>> => chan'[Len(chan')] = chan[Len(chan)]
          BY <1>b, <2>1
        <5>5. posts' # <<>> /\ posts'[Len(posts')] = chan[1][1]
          BY <1>0, <4>1 DEF Channels
        <5> QED
          BY <2>1, <5>2, <5>3, <5>4, <5>5 DEF Latest, Current
      <4> QED
        BY <2>1, <4>1, <4>2, <4>3, <4>4 DEF Fresh
    <3> QED
      BY <3>2, <3>3
  <2> QED
    BY <2>3, <2>4
<1>11. ASSUME NEW e \in Lives, BinderDied(e)
       PROVE  Past' /\ (~Doomed' => Alive') /\ (~Doomed' /\ ~tainted' => Fresh')
  <2>1. /\ client' = client /\ chan' = chan /\ binds' = binds /\ active' = active
        /\ posts' = IF callback THEN Append(posts, "died") ELSE posts
    BY <1>11 DEF BinderDied
  <2>2. Doomed'
    <3>1. CASE callback
      BY <1>0, <2>1, <3>1, DiedAppend DEF Channels, Doomed, Died
    <3>2. CASE ~callback
      BY <1>0, <2>1, <3>2 DEF Bound, Doomed
    <3> QED
      BY <3>1, <3>2
  <2> QED
    BY <1>a, <2>1, <2>2 DEF Past
<1>12. CASE PostConnected
  <2>1. /\ bound = "binding" /\ bound' = "posted" /\ posts' = Append(posts, "connected")
        /\ pc' = pc /\ obits' = obits /\ active' = active /\ chan' = chan
        /\ binds' = binds /\ client' = client /\ tainted' = tainted
    BY <1>12 DEF PostConnected
  <2>2. pc = "idle" /\ \A i \in DOMAIN posts : posts[i] # "connected"
    BY <1>0, <2>1 DEF Bound, Posted
  <2>3. ~Doomed' => ~Doomed
    BY <1>0, <2>1, DiedAppend DEF Channels, Doomed, Died
  <2>4. \A i \in DOMAIN posts' : posts'[i] = "connected" => i = Len(posts')
    BY <1>0, <2>1, <2>2 DEF Channels
  <2> QED
    BY <1>a, <2>1, <2>2, <2>3, <2>4 DEF Past, Alive, Fresh
<1>13. CASE PostDisconnected
  <2>1. /\ bound = "bound" /\ (boundTo # life \/ ~alive)
        /\ posts' = Append(posts, "disconnected") /\ obits' = obits /\ active' = active
        /\ chan' = chan /\ binds' = binds /\ client' = client
    BY <1>13 DEF PostDisconnected
  <2>2. Doomed
    BY <1>a, <2>1 DEF Alive
  <2>3. Doomed'
    BY <1>0, <2>1, <2>2, DiedAppend DEF Channels, Doomed, Died
  <2> QED
    BY <1>a, <2>1, <2>3 DEF Past
<1>14. CASE Spawn
  <2>1. /\ ~alive /\ bound # "posted" /\ client' = 0 /\ bound' = bound /\ pc' = pc
        /\ posts' = posts /\ obits' = obits /\ active' = active /\ chan' = chan
        /\ binds' = binds /\ tainted' = tainted
    BY <1>14 DEF Spawn
  <2>2. ASSUME ~Doomed' PROVE Alive' /\ (~tainted' => Fresh')
    <3>1. ~Doomed /\ Alive /\ active
      BY <1>a, <2>1, <2>2 DEF Doomed
    <3>2. bound \notin {"bound", "lost"} /\ pc = "idle" /\ binds > 0
      BY <1>0, <2>1, <3>1 DEF Alive, Bound
    <3> QED
      BY <1>a, <1>b, <2>1, <3>1, <3>2 DEF Alive, Fresh
  <2>3. Past'
    BY <1>a, <1>b, <2>1 DEF Past
  <2> QED
    BY <2>2, <2>3
<1>15. CASE Die
  <2>1. /\ bound' = bound /\ boundTo' = boundTo /\ life' = life /\ pc' = pc
        /\ posts' = posts /\ active' = active /\ chan' = chan
        /\ binds' = binds /\ client' = client /\ tainted' = tainted
        /\ obits' = IF linked = life THEN obits \union {life} ELSE obits
    BY <1>15 DEF Die
  <2>2. ASSUME ~Doomed' PROVE Alive' /\ (~tainted' => Fresh')
    <3>1. linked # life /\ ~Doomed /\ Alive
      BY <1>a, <2>1, <2>2 DEF Doomed
    <3>2. bound \notin {"bound", "lost"} /\ pc = "idle"
      BY <1>0, <3>1 DEF Alive, Bound
    <3> QED
      BY <1>a, <2>1, <3>1, <3>2 DEF Alive, Fresh
  <2> QED
    BY <1>a, <2>1, <2>2 DEF Past
<1>16. CASE ServiceOnDestroy
  <2>1. bound = "no" /\ active' = active /\ client' = 0 /\ chan' = chan /\ binds' = binds
    BY <1>16 DEF ServiceOnDestroy
  <2>2. Doomed'
    BY <1>0, <2>1 DEF Bound, Doomed
  <2> QED
    BY <1>a, <1>b, <2>1, <2>2 DEF Past
<1>17. ASSUME NEW s \in States, Broadcast(s)
       PROVE  Past' /\ (~Doomed' => Alive') /\ (~Doomed' /\ ~tainted' => Fresh')
  <2>1. /\ changing' = s /\ state' = state /\ pc' = pc /\ view' = view
        /\ bound' = bound /\ boundTo' = boundTo /\ alive' = alive /\ life' = life
        /\ linked' = linked /\ posts' = posts /\ obits' = obits /\ active' = active
        /\ binds' = binds /\ client' = client /\ registered' = registered
        /\ tainted' = tainted
        /\ chan' = IF client # 0 THEN Append(chan, <<s, client>>) ELSE chan
    BY <1>17 DEF Broadcast
  <2>2. \A i \in DOMAIN chan' : chan'[i] = <<s, client>> \/ (i \in DOMAIN chan /\ chan'[i] = chan[i])
    BY <1>b, <2>1
  <2>3. Past'
    BY <1>a, <1>b, <2>1, <2>2 DEF Past
  <2>4. ASSUME ~Doomed' PROVE Alive' /\ (~tainted' => Fresh')
    <3>1. ~Doomed /\ Alive /\ active
      BY <1>a, <2>1, <2>4 DEF Doomed
    <3>2. Alive'
      BY <1>b, <2>1, <2>2, <3>1 DEF Alive
    <3>3. ASSUME ~tainted', bound = "bound", pc # "register" PROVE Latest'
      <4>1. client = binds /\ client # 0
        BY <1>0, <1>a, <1>b, <2>1, <3>1, <3>3 DEF Fresh, Bound
      <4>2. chan' # <<>> /\ chan'[Len(chan')] = <<s, client>>
        BY <1>b, <2>1, <4>1, Last
      <4>3. Current' = s
        BY <2>1 DEF Current, States
      <4> QED
        BY <4>2, <4>3 DEF Latest
    <3> QED
      BY <1>a, <2>1, <3>1, <3>2, <3>3 DEF Fresh
  <2> QED
    BY <2>3, <2>4
<1>18. CASE Assign
  <2>1. /\ changing # "no" /\ state' = changing /\ changing' = "no" /\ pc' = pc
        /\ view' = view /\ bound' = bound /\ boundTo' = boundTo /\ alive' = alive
        /\ life' = life /\ linked' = linked /\ posts' = posts /\ obits' = obits
        /\ active' = active /\ binds' = binds /\ client' = client /\ chan' = chan
        /\ registered' = registered /\ tainted' = tainted
    BY <1>18 DEF Assign
  <2>2. Current' = Current
    BY <2>1 DEF Current
  <2>3. Latest => Latest'
    BY <2>1, <2>2 DEF Latest
  <2>4. ~Doomed' => ~Doomed
    BY <2>1 DEF Doomed
  <2> QED
    BY <1>a, <2>1, <2>3, <2>4 DEF Past, Alive, Fresh
<1>19. CASE HandleUnregister
  <2>1. /\ pc' = pc /\ view' = view /\ bound' = bound /\ boundTo' = boundTo
        /\ alive' = alive /\ life' = life /\ linked' = linked /\ posts' = posts
        /\ obits' = obits /\ active' = active /\ binds' = binds /\ chan' = chan
        /\ registered' = registered /\ state' = state /\ changing' = changing
        /\ \/ client' = client /\ tainted' = tainted
           \/ client' = 0 /\ tainted' = (tainted \/ registered)
    BY <1>19 DEF HandleUnregister
  <2>2. Past'
    BY <1>a, <1>b, <2>1 DEF Past
  <2>3. ASSUME ~Doomed' PROVE Alive' /\ (~tainted' => Fresh')
    <3>1. ~Doomed /\ Alive /\ active /\ binds > 0
      BY <1>0, <1>a, <2>1, <2>3 DEF Doomed, Bound
    <3>2. Alive'
      BY <1>b, <2>1, <3>1 DEF Alive
    <3>3. ASSUME ~tainted' PROVE Fresh'
      <4>1. Fresh
        BY <1>a, <2>1, <3>1, <3>3
      <4>2. Latest => Latest'
        BY <2>1 DEF Latest, Current
      <4> QED
        BY <2>1, <3>3, <4>1, <4>2 DEF Fresh
    <3> QED
      BY <3>2, <3>3
  <2> QED
    BY <2>2, <2>3
<1>20. CASE UNCHANGED vars
  BY <1>a, <1>20 DEF vars, Past, Doomed, Alive, Fresh, Latest, Current
<1> QED
  BY <1>1, <1>2, <1>3, <1>4, <1>5, <1>6, <1>7, <1>8, <1>9, <1>10, <1>11, <1>12, <1>13,
     <1>14, <1>15, <1>16, <1>17, <1>18, <1>19, <1>20 DEF Next

\* FreshView: once nothing is under way a registered user sees the state of the
\* service and will hear of the next change, but for the three races, whatever the
\* activities, the death of the process and late death notices do in between.
THEOREM FreshViewAlways == Spec => []FreshView
<1>1. Init => BindingInv /\ FreshInv
  <2>1. Init => FreshInv
    BY DEF Init, FreshInv, Past, Doomed
  <2> QED
    BY <2>1, BindingInit
<1>2. BindingInv /\ FreshInv /\ [Next]_vars => (BindingInv /\ FreshInv)'
  BY BindingStep, FreshStep
<1>3. BindingInv /\ FreshInv => FreshView
  <2> SUFFICES ASSUME BindingInv, FreshInv, Quiet, registered, ~tainted
               PROVE  view = state /\ client # 0
    BY DEF FreshView
  <2>1. /\ pc = "idle" /\ posts = <<>> /\ chan = <<>> /\ obits = {} /\ changing = "no"
    BY DEF Quiet
  <2>2. bound \in {"bound", "lost"} /\ active /\ binds > 0
    BY DEF BindingInv, Bound
  <2>3. ~Doomed
    BY <2>1, <2>2 DEF Doomed
  <2>4. bound = "bound"
    BY <2>2, <2>3 DEF FreshInv, Alive
  <2>5. client = binds /\ Latest
    BY <2>1, <2>3, <2>4 DEF FreshInv, Fresh
  <2> QED
    BY <2>1, <2>2, <2>5 DEF Latest, Current
<1> QED
  BY <1>1, <1>2, <1>3, PTL DEF Spec
=============================================================================

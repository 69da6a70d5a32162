----------------------- MODULE SocksUdpGwClientProofs -----------------------
(***************************************************************************)
(* The UDP relay of badvpn/tun2socks/SocksUdpGwClient.c keeps its table,   *)
(* sends every datagram whole and for the right flow, and leaves none in a *)
(* send buffer, for any number of local addresses, flows, connections and  *)
(* buffered packets.                                                       *)
(*                                                                         *)
(* None of the properties is inductive: each rests on the order of the     *)
(* jobs.  The invariant says that BPendingGroup's stack has one of ten     *)
(* shapes, all for one connection, possibly above the job that refills the *)
(* read buffer (Stack); what each shape promises of its connection         *)
(* (Promise); and that every other connection is at rest (AtRest).  The    *)
(* shapes are what makes connection_init's order, first_job before the     *)
(* writer's, and device_read_handler_send's, accept before process, work.  *)
(***************************************************************************)
EXTENDS SocksUdpGwClient, FiniteSetTheorems, TLAPS

-----------------------------------------------------------------------------
(* The jobs *)

\* The jobs of the connection of l, the next one first.
Core(s, l) ==
    CASE s = "new"     -> <<Job("writer", l), Job("first", l)>>
      [] s = "first"   -> <<Job("first", l)>>
      [] s = "written" -> <<Job("written", l)>>
      [] s = "send"    -> <<Job("send", l)>>
      [] s = "sendw"   -> <<Job("send", l), Job("writer", l)>>
      [] s = "sent"    -> <<Job("sent", l)>>
      [] s = "sentw"   -> <<Job("sent", l), Job("writer", l)>>
      [] s = "writer"  -> <<Job("writer", l)>>
      [] s = "submit"  -> <<Job("submit", NoFlow)>>
      [] OTHER         -> <<>>

\* The read buffer's job is last, if the packet read is still being processed.
Below(t) == IF t THEN <<Job("devdone", NoFlow)>> ELSE <<>>

Stack(s, l, t) == Core(s, l) \o Below(t)

Shapes == {"new", "first", "written", "send", "sendw", "sent", "sentw", "writer",
           "submit", "idle"}

\* The shapes in which some connection has a job.
Busy == Shapes \ {"submit", "idle"}

-----------------------------------------------------------------------------
(* The connections *)

Remotes == {f.remote : f \in Flows}

Conn ==
    [live: BOOLEAN, dns: BOOLEAN, remote: Remotes \cup {NoFlow},
     via: {"none", "dnsgw", "socks"}, outHave: BOOLEAN,
     writing: Packets \cup {NoFlow}, queue: Seq(Packets),
     wait: BOOLEAN, failed: BOOLEAN, used: SUBSET Flows]

\* Where connection_init points the socket of a flow to.
Way(f) == IF f.dns THEN "dnsgw" ELSE "socks"

\* A packet of one of the flows in u, with the header of its flow.
Proper(p, u) ==
    /\ p \in Packets /\ p.data \in u
    /\ p.hdr = ~p.data.dns
    /\ p.hdr => p.to = p.data.remote

\* What holds of a connection whatever is under way: it was used for flows of its
\* local address, everything in its buffer is of these, and so are is_dns, the
\* remote address and the way its socket points, each perhaps of another one.
Sane(k, l) ==
    /\ Len(k.queue) <= BufCap
    /\ \A f \in k.used : f.local = l
    /\ \A i \in 1 .. Len(k.queue) : Proper(k.queue[i], k.used)
    /\ ~k.live => k = NoCon
    /\ k.live => \E f, g, h \in k.used : k.dns = f.dns /\ k.remote = g.remote /\ k.via = Way(h)

\* The packets in the buffer are being sent, or wait for the socket.
Flowing(k) == /\ k.wait => k.queue # <<>>
              /\ k.queue # <<>> => k.wait \/ k.failed

\* A connection without a job: the writer has a buffer exactly if there is room.
AtRest(k) ==
    /\ k.writing = NoFlow /\ Flowing(k)
    /\ k.live => (k.outHave <=> Len(k.queue) < BufCap)

\* What the stack of jobs promises of its connection, and of the read buffer.
Promise(s, k, l, d) ==
    CASE s = "new"     -> /\ ~k.outHave /\ k.queue = <<>> /\ ~k.wait /\ k.writing = NoFlow
                          /\ d \in k.used /\ k.dns = d.dns /\ k.remote = d.remote
      [] s = "first"   -> /\ k.outHave /\ k.queue = <<>> /\ ~k.wait /\ k.writing = NoFlow
                          /\ d \in k.used /\ k.dns = d.dns /\ k.remote = d.remote
      [] s = "written" -> /\ ~k.outHave /\ Len(k.queue) < BufCap /\ Flowing(k)
                          /\ Proper(k.writing, k.used)
      [] s = "send"    -> /\ k.queue # <<>> /\ k.writing = NoFlow
                          /\ k.outHave <=> Len(k.queue) < BufCap
      [] s = "sendw"   -> /\ k.queue # <<>> /\ k.writing = NoFlow
                          /\ ~k.outHave /\ Len(k.queue) < BufCap
      [] s = "sent"    -> /\ k.queue # <<>> /\ k.writing = NoFlow /\ ~k.wait
                          /\ k.outHave <=> Len(k.queue) < BufCap
      [] s = "sentw"   -> /\ k.queue # <<>> /\ k.writing = NoFlow /\ ~k.wait
                          /\ ~k.outHave /\ Len(k.queue) < BufCap
      [] s = "writer"  -> /\ k.writing = NoFlow /\ Flowing(k)
                          /\ ~k.outHave /\ Len(k.queue) < BufCap
      [] OTHER         -> TRUE

\* The stack has shape s for the connection of l.
Running(s, l, t) ==
    /\ jobs = Stack(s, l, t)
    /\ s = "submit" => ~t /\ dev \in Flows
    /\ s \in Busy => l \in Locals /\ con[l].live /\ Promise(s, con[l], l, dev)
    /\ \A x \in Locals : (s \in Busy /\ x = l) \/ AtRest(con[x])

-----------------------------------------------------------------------------
(* The inductive invariant *)

Types ==
    /\ con \in [Locals -> Conn]
    /\ list \in Seq(Locals) /\ num \in Nat
    /\ dev \in Flows \cup {NoFlow}
    /\ sentTo \in [Locals -> SUBSET Flows]

\* The list has every live connection once; the counter counts them.
Table ==
    /\ \A i, j \in 1 .. Len(list) : list[i] = list[j] => i = j
    /\ {list[i] : i \in 1 .. Len(list)} = {l \in Locals : con[l].live}
    /\ num = Len(list) /\ num <= MaxCon

\* Replies are of flows the connection was used for; what was sent last was a
\* packet of its flow, and nothing was confused that need not be.
History ==
    /\ \A l \in Locals : sentTo[l] \subseteq con[l].used
    /\ wire.res = "sent" =>
          Proper(wire.packet, Flows) /\ wire.packet.data.local = wire.local
    /\ OnlySharedPortsConfused

Inv ==
    /\ Types
    /\ \A l \in Locals : Sane(con[l], l)
    /\ Table
    /\ History
    /\ DropsOnlyWhenFull
    /\ \E s \in Shapes, l \in Locals \cup {NoFlow}, t \in BOOLEAN : Running(s, l, t)

-----------------------------------------------------------------------------
(* Lemmas about the stack of jobs *)

\* What is on top of a stack, and what is left when that job runs.
LEMMA StackLemma ==
    ASSUME NEW l, NEW t \in BOOLEAN
    PROVE  /\ Stack("new", l, t) # <<>> /\ Head(Stack("new", l, t)) = Job("writer", l)
           /\ Stack("first", l, t) # <<>> /\ Head(Stack("first", l, t)) = Job("first", l)
           /\ Stack("written", l, t) # <<>> /\ Head(Stack("written", l, t)) = Job("written", l)
           /\ Stack("send", l, t) # <<>> /\ Head(Stack("send", l, t)) = Job("send", l)
           /\ Stack("sendw", l, t) # <<>> /\ Head(Stack("sendw", l, t)) = Job("send", l)
           /\ Stack("sent", l, t) # <<>> /\ Head(Stack("sent", l, t)) = Job("sent", l)
           /\ Stack("sentw", l, t) # <<>> /\ Head(Stack("sentw", l, t)) = Job("sent", l)
           /\ Stack("writer", l, t) # <<>> /\ Head(Stack("writer", l, t)) = Job("writer", l)
           /\ Stack("submit", l, t) # <<>> /\ Head(Stack("submit", l, t)) = Job("submit", NoFlow)
           /\ Stack("idle", l, FALSE) = <<>>
           /\ Stack("idle", l, TRUE) # <<>> /\ Head(Stack("idle", l, TRUE)) = Job("devdone", NoFlow)
BY DEF Stack, Core, Below

\* What is left of a stack when its top job runs.
LEMMA TailLemma ==
    ASSUME NEW l, NEW t \in BOOLEAN
    PROVE  /\ Tail(Stack("new", l, t)) = Stack("first", l, t)
           /\ Tail(Stack("first", l, t)) = Stack("idle", l, t)
           /\ Tail(Stack("written", l, t)) = Stack("idle", l, t)
           /\ Tail(Stack("send", l, t)) = Stack("idle", l, t)
           /\ Tail(Stack("sendw", l, t)) = Stack("writer", l, t)
           /\ Tail(Stack("sent", l, t)) = Stack("idle", l, t)
           /\ Tail(Stack("sentw", l, t)) = Stack("writer", l, t)
           /\ Tail(Stack("writer", l, t)) = Stack("idle", l, t)
           /\ Tail(Stack("submit", l, FALSE)) = <<>>
           /\ Tail(Stack("idle", l, TRUE)) = <<>>
BY DEF Stack, Core, Below

\* What becomes of a stack without jobs of its connection, or with the writer's.
LEMMA PushLemma ==
    ASSUME NEW l, NEW t \in BOOLEAN
    PROVE  /\ <<>> \o Stack("idle", l, t) = Stack("idle", l, t)
           /\ <<Job("written", l)>> \o Stack("idle", l, t) = Stack("written", l, t)
           /\ <<Job("sent", l)>> \o Stack("idle", l, t) = Stack("sent", l, t)
           /\ <<Job("sent", l)>> \o Stack("writer", l, t) = Stack("sentw", l, t)
BY DEF Stack, Core, Below

\* Which shapes have a job of this kind on top, and for which connection.
LEMMA TopLemma ==
    ASSUME NEW s \in Shapes, NEW l, NEW t \in BOOLEAN, jobs = Stack(s, l, t)
    PROVE  /\ Top("submit") => s = "submit"
           /\ Top("devdone") => s = "idle" /\ t
           /\ Top("first") => s = "first" /\ Here = l
           /\ Top("writer") => s \in {"new", "writer"} /\ Here = l
           /\ Top("written") => s = "written" /\ Here = l
           /\ Top("send") => s \in {"send", "sendw"} /\ Here = l
           /\ Top("sent") => s \in {"sent", "sentw"} /\ Here = l
           /\ jobs = <<>> => s = "idle" /\ ~t
<1>1. CASE s = "new"
  <2>1. Head(jobs) = Job("writer", l) /\ jobs # <<>>
    BY <1>1, StackLemma
  <2> QED
    BY <1>1, <2>1 DEF Top, Here, Job
<1>2. CASE s = "writer"
  <2>1. Head(jobs) = Job("writer", l) /\ jobs # <<>>
    BY <1>2, StackLemma
  <2> QED
    BY <1>2, <2>1 DEF Top, Here, Job
<1>3. CASE s = "send"
  <2>1. Head(jobs) = Job("send", l) /\ jobs # <<>>
    BY <1>3, StackLemma
  <2> QED
    BY <1>3, <2>1 DEF Top, Here, Job
<1>4. CASE s = "sendw"
  <2>1. Head(jobs) = Job("send", l) /\ jobs # <<>>
    BY <1>4, StackLemma
  <2> QED
    BY <1>4, <2>1 DEF Top, Here, Job
<1>5. CASE s = "sent"
  <2>1. Head(jobs) = Job("sent", l) /\ jobs # <<>>
    BY <1>5, StackLemma
  <2> QED
    BY <1>5, <2>1 DEF Top, Here, Job
<1>6. CASE s = "sentw"
  <2>1. Head(jobs) = Job("sent", l) /\ jobs # <<>>
    BY <1>6, StackLemma
  <2> QED
    BY <1>6, <2>1 DEF Top, Here, Job
<1>7. CASE s = "first"
  <2>1. Head(jobs) = Job("first", l) /\ jobs # <<>>
    BY <1>7, StackLemma
  <2> QED
    BY <1>7, <2>1 DEF Top, Here, Job
<1>8. CASE s = "written"
  <2>1. Head(jobs) = Job("written", l) /\ jobs # <<>>
    BY <1>8, StackLemma
  <2> QED
    BY <1>8, <2>1 DEF Top, Here, Job
<1>9. CASE s = "submit"
  <2>1. Head(jobs) = Job("submit", NoFlow) /\ jobs # <<>>
    BY <1>9, StackLemma
  <2> QED
    BY <1>9, <2>1 DEF Top, Here, Job
<1>10. CASE s = "idle" /\ t
  <2>1. Head(jobs) = Job("devdone", NoFlow) /\ jobs # <<>>
    BY <1>10, StackLemma
  <2>2. /\ ~Top("submit") /\ ~Top("first") /\ ~Top("writer") /\ ~Top("written")
        /\ ~Top("send") /\ ~Top("sent")
    BY <2>1 DEF Top, Job
  <2> QED
    BY <1>10, <2>1, <2>2
<1>11. CASE s = "idle" /\ ~t
  <2>1. jobs = <<>>
    BY <1>11, StackLemma
  <2> QED
    BY <1>11, <2>1 DEF Top
<1> QED
  BY <1>1, <1>2, <1>3, <1>4, <1>5, <1>6, <1>7, <1>8, <1>9, <1>10, <1>11 DEF Shapes

\* What a handler that runs the top job pushes is again a stack of some shape.
LEMMA PushedLemma ==
    ASSUME NEW l, NEW t \in BOOLEAN
    PROVE  /\ (<<Job("send", l)>> \o <<Job("writer", l)>>) \o Stack("idle", l, t)
                = Stack("sendw", l, t)
           /\ (<<Job("send", l)>> \o <<>>) \o Stack("idle", l, t) = Stack("send", l, t)
           /\ (<<>> \o <<Job("writer", l)>>) \o Stack("idle", l, t) = Stack("writer", l, t)
           /\ (<<>> \o <<>>) \o Stack("idle", l, t) = Stack("idle", l, t)
           /\ (<<Job("send", l)>> \o <<>>) \o Stack("writer", l, t) = Stack("sendw", l, t)
           /\ (<<>> \o <<>>) \o Stack("writer", l, t) = Stack("writer", l, t)
BY DEF Stack, Core, Below

\* The stacks that device_read_handler_send and the event handlers leave.
LEMMA DeviceLemma ==
    ASSUME NEW l
    PROVE  /\ DeviceReadJobs(<<>>) \o <<>> = Stack("idle", l, TRUE)
           /\ DeviceReadJobs(<<Job("written", l)>>) \o <<>> = Stack("written", l, TRUE)
           /\ DeviceReadJobs(InitJobs(l)) \o <<>> = Stack("new", l, TRUE)
           /\ <<>> \o <<>> = Stack("idle", l, FALSE)
           /\ <<Job("submit", NoFlow)>> \o <<>> = Stack("submit", l, FALSE)
           /\ <<Job("submit", NoFlow)>> = Stack("submit", l, FALSE)
           /\ <<Job("sent", l)>> \o <<>> = Stack("sent", l, FALSE)
BY DEF Stack, Core, Below, DeviceReadJobs, InitJobs

\* A stack names one connection only, and a packet being sent has its job.
LEMMA JobsLemma ==
    ASSUME NEW s \in Shapes, NEW l, NEW t \in BOOLEAN, jobs = Stack(s, l, t)
    PROVE  /\ \A i \in 1 .. Len(jobs) : jobs[i].kind \in Kinds
           /\ \A i \in 1 .. Len(jobs) :
                 jobs[i].kind \notin {"submit", "devdone"} => s \in Busy /\ jobs[i].local = l
           /\ s \in {"send", "sendw", "sent", "sentw"} =>
                 \E i \in 1 .. Len(jobs) :
                    jobs[i].local = l /\ jobs[i].kind \in {"send", "sent"}
<1>1. CASE s = "new"
  <2>1. s \in Busy
    BY <1>1 DEF Busy, Shapes
  <2>2. /\ \A i \in 1 .. Len(jobs) : jobs[i].kind \in Kinds
        /\ \A i \in 1 .. Len(jobs) :
              jobs[i].kind \notin {"submit", "devdone"} => jobs[i].local = l
    <3>1. CASE t
      BY <1>1, <3>1, SMTT(30) DEF Stack, Core, Below, Job, Kinds
    <3>2. CASE ~t
      BY <1>1, <3>2, SMTT(30) DEF Stack, Core, Below, Job, Kinds
    <3> QED
      BY <3>1, <3>2
  <2> QED
    BY <1>1, <2>1, <2>2
<1>2. CASE s = "writer"
  <2>1. s \in Busy
    BY <1>2 DEF Busy, Shapes
  <2>2. /\ \A i \in 1 .. Len(jobs) : jobs[i].kind \in Kinds
        /\ \A i \in 1 .. Len(jobs) :
              jobs[i].kind \notin {"submit", "devdone"} => jobs[i].local = l
    BY <1>2 DEF Stack, Core, Below, Job, Kinds
  <2> QED
    BY <1>2, <2>1, <2>2
<1>3. CASE s = "send"
  <2>1. s \in Busy
    BY <1>3 DEF Busy, Shapes
  <2>2. /\ \A i \in 1 .. Len(jobs) : jobs[i].kind \in Kinds
        /\ \A i \in 1 .. Len(jobs) :
              jobs[i].kind \notin {"submit", "devdone"} => jobs[i].local = l
    BY <1>3 DEF Stack, Core, Below, Job, Kinds
  <2>3. 1 \in 1 .. Len(jobs) /\ jobs[1].local = l /\ jobs[1].kind = "send"
    BY <1>3 DEF Stack, Core, Below, Job
  <2> QED
    BY <2>1, <2>2, <2>3
<1>4. CASE s = "sendw"
  <2>1. s \in Busy
    BY <1>4 DEF Busy, Shapes
  <2>2. /\ \A i \in 1 .. Len(jobs) : jobs[i].kind \in Kinds
        /\ \A i \in 1 .. Len(jobs) :
              jobs[i].kind \notin {"submit", "devdone"} => jobs[i].local = l
    BY <1>4 DEF Stack, Core, Below, Job, Kinds
  <2>3. 1 \in 1 .. Len(jobs) /\ jobs[1].local = l /\ jobs[1].kind = "send"
    BY <1>4 DEF Stack, Core, Below, Job
  <2> QED
    BY <2>1, <2>2, <2>3
<1>5. CASE s = "sent"
  <2>1. s \in Busy
    BY <1>5 DEF Busy, Shapes
  <2>2. /\ \A i \in 1 .. Len(jobs) : jobs[i].kind \in Kinds
        /\ \A i \in 1 .. Len(jobs) :
              jobs[i].kind \notin {"submit", "devdone"} => jobs[i].local = l
    BY <1>5 DEF Stack, Core, Below, Job, Kinds
  <2>3. 1 \in 1 .. Len(jobs) /\ jobs[1].local = l /\ jobs[1].kind = "sent"
    BY <1>5 DEF Stack, Core, Below, Job
  <2> QED
    BY <2>1, <2>2, <2>3
<1>6. CASE s = "sentw"
  <2>1. s \in Busy
    BY <1>6 DEF Busy, Shapes
  <2>2. /\ \A i \in 1 .. Len(jobs) : jobs[i].kind \in Kinds
        /\ \A i \in 1 .. Len(jobs) :
              jobs[i].kind \notin {"submit", "devdone"} => jobs[i].local = l
    BY <1>6 DEF Stack, Core, Below, Job, Kinds
  <2>3. 1 \in 1 .. Len(jobs) /\ jobs[1].local = l /\ jobs[1].kind = "sent"
    BY <1>6 DEF Stack, Core, Below, Job
  <2> QED
    BY <2>1, <2>2, <2>3
<1>7. CASE s = "first"
  <2>1. s \in Busy
    BY <1>7 DEF Busy, Shapes
  <2>2. /\ \A i \in 1 .. Len(jobs) : jobs[i].kind \in Kinds
        /\ \A i \in 1 .. Len(jobs) :
              jobs[i].kind \notin {"submit", "devdone"} => jobs[i].local = l
    BY <1>7 DEF Stack, Core, Below, Job, Kinds
  <2> QED
    BY <1>7, <2>1, <2>2
<1>8. CASE s = "written"
  <2>1. s \in Busy
    BY <1>8 DEF Busy, Shapes
  <2>2. /\ \A i \in 1 .. Len(jobs) : jobs[i].kind \in Kinds
        /\ \A i \in 1 .. Len(jobs) :
              jobs[i].kind \notin {"submit", "devdone"} => jobs[i].local = l
    BY <1>8 DEF Stack, Core, Below, Job, Kinds
  <2> QED
    BY <1>8, <2>1, <2>2
<1>9. CASE s = "submit"
  BY <1>9 DEF Stack, Core, Below, Job, Kinds
<1>10. CASE s = "idle"
  BY <1>10 DEF Stack, Core, Below, Job, Kinds
<1> QED
  BY <1>1, <1>2, <1>3, <1>4, <1>5, <1>6, <1>7, <1>8, <1>9, <1>10 DEF Shapes

-----------------------------------------------------------------------------
(* Lemmas about one connection *)

\* What the handlers make of a connection.
HasBuffer(k)     == [k EXCEPT !.outHave = TRUE]
Queued(k)        == [k EXCEPT !.queue = Append(k.queue, k.writing), !.writing = NoFlow]
Tried(k, w, x)   == [k EXCEPT !.wait = w, !.failed = x]
Unqueued(k)      == [k EXCEPT !.queue = Tail(k.queue)]
Answered(k, r)   == [k EXCEPT !.remote = r]

\* The fields that Sane looks at.
SameFlow(j, k) ==
    /\ j.live = k.live /\ j.dns = k.dns /\ j.remote = k.remote /\ j.via = k.via
    /\ j.used = k.used

\* output_handler_recv changes outHave only.
LEMMA HasBufferType ==
    ASSUME NEW k \in Conn
    PROVE  /\ HasBuffer(k) \in Conn /\ SameFlow(HasBuffer(k), k)
           /\ HasBuffer(k).outHave /\ HasBuffer(k).queue = k.queue
           /\ HasBuffer(k).wait = k.wait /\ HasBuffer(k).failed = k.failed
           /\ HasBuffer(k).writing = k.writing
BY DEF Conn, HasBuffer, SameFlow

\* input_handler_done changes the queue and what is being written only.
LEMMA QueuedType ==
    ASSUME NEW k \in Conn, k.writing \in Packets
    PROVE  /\ Queued(k) \in Conn /\ SameFlow(Queued(k), k)
           /\ Queued(k).outHave = k.outHave
           /\ Queued(k).queue = Append(k.queue, k.writing)
           /\ Queued(k).wait = k.wait /\ Queued(k).failed = k.failed
           /\ Queued(k).writing = NoFlow
<1> DEFINE q == Append(k.queue, k.writing)
<1>1. q \in Seq(Packets)
  BY DEF Conn
<1>2. Queued(k) = [k EXCEPT !.queue = q, !.writing = NoFlow]
  BY DEF Queued
<1> HIDE DEF q
<1>3. Queued(k) \in Conn
  BY <1>1, <1>2 DEF Conn
<1>4. /\ SameFlow(Queued(k), k) /\ Queued(k).outHave = k.outHave
      /\ Queued(k).wait = k.wait /\ Queued(k).failed = k.failed
      /\ Queued(k).queue = q /\ Queued(k).writing = NoFlow
  BY <1>2 DEF Conn, SameFlow
<1> QED
  BY <1>3, <1>4 DEF q

\* do_send changes wait and failed only.
LEMMA TriedType ==
    ASSUME NEW k \in Conn, NEW w \in BOOLEAN, NEW x \in BOOLEAN
    PROVE  /\ Tried(k, w, x) \in Conn /\ SameFlow(Tried(k, w, x), k)
           /\ Tried(k, w, x).outHave = k.outHave
           /\ Tried(k, w, x).queue = k.queue
           /\ Tried(k, w, x).wait = w /\ Tried(k, w, x).failed = x
           /\ Tried(k, w, x).writing = k.writing
BY DEF Conn, Tried, SameFlow

\* output_handler_done changes the queue only.
LEMMA UnqueuedType ==
    ASSUME NEW k \in Conn, k.queue # <<>>
    PROVE  /\ Unqueued(k) \in Conn /\ SameFlow(Unqueued(k), k)
           /\ Unqueued(k).outHave = k.outHave
           /\ Unqueued(k).queue = Tail(k.queue)
           /\ Unqueued(k).wait = k.wait /\ Unqueued(k).failed = k.failed
           /\ Unqueued(k).writing = k.writing
<1>1. Tail(k.queue) \in Seq(Packets)
  BY DEF Conn
<1> QED
  BY <1>1 DEF Conn, Unqueued, SameFlow

\* dgram_handler_received changes the remote address only.
LEMMA AnsweredType ==
    ASSUME NEW k \in Conn, NEW r \in Remotes
    PROVE  /\ Answered(k, r) \in Conn /\ Answered(k, r).remote = r
           /\ Answered(k, r).live = k.live /\ Answered(k, r).dns = k.dns
           /\ Answered(k, r).via = k.via /\ Answered(k, r).outHave = k.outHave
           /\ Answered(k, r).queue = k.queue
           /\ Answered(k, r).wait = k.wait /\ Answered(k, r).failed = k.failed
           /\ Answered(k, r).writing = k.writing /\ Answered(k, r).used = k.used
BY DEF Conn, Answered

\* reset_connection changes the flow the connection is for, and nothing else.
LEMMA ResetType ==
    ASSUME NEW k \in Conn, NEW f \in Flows
    PROVE  LET j == ResetConnection(k, f)
           IN  /\ j \in Conn /\ j.dns = f.dns /\ j.remote = f.remote
               /\ j.live = k.live /\ j.via = k.via /\ j.outHave = k.outHave
               /\ j.queue = k.queue /\ j.wait = k.wait /\ j.failed = k.failed
               /\ j.writing = k.writing /\ j.used = k.used \cup {f}
BY FlowsAssumption DEF Conn, ResetConnection, Remotes

\* connection_send with a buffer to write to.
LEMMA SendType ==
    ASSUME NEW k \in Conn, k.outHave, NEW f, Written(k, f) \in Packets
    PROVE  LET j == ConnectionSend(k, f)
           IN  /\ j \in Conn /\ SameFlow(j, k) /\ ~j.outHave
               /\ j.queue = k.queue /\ j.wait = k.wait /\ j.failed = k.failed
               /\ j.writing = Written(k, f)
BY DEF Conn, ConnectionSend, Sends, SameFlow

\* What is written is a packet of its flow, with that flow's header.
LEMMA WrittenLemma ==
    ASSUME NEW k, NEW f \in Flows, k.dns = f.dns, k.remote = f.remote, NEW u, f \in u
    PROVE  Proper(Written(k, f), u)
<1>1. f # NoFlow /\ f.dns \in BOOLEAN /\ f.len \in 0 .. UdpMtu /\ f.local \in Locals
  BY FlowsAssumption
<1> DEFINE n == f.len + (IF k.dns THEN 0 ELSE Header)
           p == [hdr |-> ~k.dns, to |-> k.remote, data |-> f, len |-> n]
<1>2. Written(k, f) = p
  BY <1>1 DEF Written
<1>3. n \in 0 .. UdpMtu + Header
  BY <1>1, BoundsAssumption
<1> HIDE DEF n
<1>4. p \in Packets
  BY <1>1, <1>3 DEF Packets
<1> QED
  BY <1>1, <1>2, <1>4 DEF Proper

\* A live connection stays sane while it is that of the same flow and its buffer
\* has proper packets.
LEMMA SaneSame ==
    ASSUME NEW j \in Conn, NEW k \in Conn, NEW l, Sane(k, l), k.live,
           SameFlow(j, k), Len(j.queue) <= BufCap,
           \A i \in 1 .. Len(j.queue) : Proper(j.queue[i], k.used)
    PROVE  Sane(j, l)
BY DEF Sane, SameFlow

\* A sequence is empty exactly if it has length 0.
LEMMA EmptyLemma ==
    ASSUME NEW S, NEW q \in Seq(S)
    PROVE  q = <<>> <=> Len(q) = 0
OBVIOUS

\* A queue that grew by one proper packet, and one that lost its first.
LEMMA ProperAppend ==
    ASSUME NEW q \in Seq(Packets), NEW p, NEW u, Proper(p, u),
           \A i \in 1 .. Len(q) : Proper(q[i], u)
    PROVE  /\ Len(Append(q, p)) = Len(q) + 1
           /\ Append(q, p) # <<>>
           /\ \A i \in 1 .. Len(Append(q, p)) : Proper(Append(q, p)[i], u)
<1>1. p \in Packets
  BY DEF Proper
<1>2. Len(Append(q, p)) = Len(q) + 1 /\ Append(q, p) # <<>>
  BY <1>1
<1>3. ASSUME NEW i \in 1 .. Len(Append(q, p)) PROVE Proper(Append(q, p)[i], u)
  <2>1. CASE i = Len(q) + 1
    BY <1>1, <2>1
  <2>2. CASE i # Len(q) + 1
    <3>1. i \in 1 .. Len(q) /\ Append(q, p)[i] = q[i]
      BY <1>1, <1>2, <2>2
    <3> QED
      BY <3>1
  <2> QED
    BY <2>1, <2>2
<1> QED
  BY <1>2, <1>3

\* A queue without its first packet.
LEMMA ProperTail ==
    ASSUME NEW q \in Seq(Packets), NEW u, q # <<>>,
           \A i \in 1 .. Len(q) : Proper(q[i], u)
    PROVE  /\ Len(Tail(q)) = Len(q) - 1 /\ Len(q) > 0 /\ Len(q) \in Nat
           /\ Tail(q) \in Seq(Packets)
           /\ Tail(q) # <<>> <=> Len(q) > 1
           /\ \A i \in 1 .. Len(Tail(q)) : Proper(Tail(q)[i], u)
           /\ Proper(Head(q), u)
<1>1. Len(Tail(q)) = Len(q) - 1 /\ Len(q) > 0 /\ Len(q) \in Nat
      /\ Tail(q) \in Seq(Packets)
  OBVIOUS
<1>2. Tail(q) # <<>> <=> Len(q) > 1
  <2>1. Len(Tail(q)) = 0 <=> Tail(q) = <<>>
    BY <1>1, EmptyLemma
  <2> QED
    BY <1>1, <2>1
<1>3. ASSUME NEW i \in 1 .. Len(Tail(q)) PROVE Proper(Tail(q)[i], u)
  <2>1. Tail(q)[i] = q[i + 1] /\ i + 1 \in 1 .. Len(q)
    BY <1>1
  <2> QED
    BY <2>1
<1>4. Proper(Head(q), u)
  BY <1>1
<1> QED
  BY <1>1, <1>2, <1>3, <1>4

-----------------------------------------------------------------------------
(* Steps of one connection *)

\* A handler changes the connection of l only, which was alive before and after,
\* and leaves a stack of shape s.
LEMMA OneLemma ==
    ASSUME Types, \A x \in Locals : Sane(con[x], x),
           NEW l \in Locals, NEW k \in Conn, Sane(k, l), k.live, con[l].live,
           con' = [con EXCEPT ![l] = k], con[l].used \subseteq k.used,
           \A x \in Locals \ {l} : AtRest(con[x]),
           NEW s \in Busy \cup {"idle"}, NEW t \in BOOLEAN, jobs' = Stack(s, l, t),
           s \in Busy => Promise(s, k, l, dev'), s = "idle" => AtRest(k)
    PROVE  /\ con' \in [Locals -> Conn]
           /\ \A x \in Locals : Sane(con'[x], x)
           /\ \A x \in Locals : con'[x].live <=> con[x].live
           /\ \A x \in Locals : con[x].used \subseteq con'[x].used
           /\ \E s1 \in Shapes, l1 \in Locals \cup {NoFlow}, t1 \in BOOLEAN : Running(s1, l1, t1)'
<1>1. con \in [Locals -> Conn]
  BY DEF Types
<1>2. con' \in [Locals -> Conn] /\ con'[l] = k
  BY <1>1
<1>3. \A x \in Locals \ {l} : con'[x] = con[x]
  BY <1>1
<1>4. \A x \in Locals : Sane(con'[x], x)
  BY <1>2, <1>3
<1>5. /\ \A x \in Locals : con'[x].live <=> con[x].live
      /\ \A x \in Locals : con[x].used \subseteq con'[x].used
  BY <1>2, <1>3
<1>6. s \in Shapes /\ s # "submit" /\ (s \in Busy \/ s = "idle")
  BY DEF Busy, Shapes
<1>7. s \in Busy => l \in Locals /\ con'[l].live /\ Promise(s, con'[l], l, dev')
  BY <1>2
<1>8. \A x \in Locals : (s \in Busy /\ x = l) \/ AtRest(con'[x])
  <2>1. ASSUME NEW x \in Locals, x # l PROVE AtRest(con'[x])
    BY <1>3, <2>1
  <2>2. s \in Busy \/ AtRest(con'[l])
    BY <1>2, <1>6
  <2> QED
    BY <2>1, <2>2
<1>9. Running(s, l, t)'
  BY <1>6, <1>7, <1>8 DEF Running
<1> QED
  BY <1>2, <1>4, <1>5, <1>6, <1>9

\* The table is the same if the same connections are alive.
LEMMA TableSame ==
    ASSUME Table, UNCHANGED <<list, num>>, \A x \in Locals : con'[x].live <=> con[x].live
    PROVE  Table'
<1>1. {l \in Locals : con'[l].live} = {l \in Locals : con[l].live}
  OBVIOUS
<1> QED
  BY <1>1 DEF Table

\* What the invariant says while some connection's job runs.
LEMMA BusyLemma ==
    ASSUME Inv, NEW s \in Busy, NEW l \in Locals \cup {NoFlow}, NEW t \in BOOLEAN,
           Running(s, l, t)
    PROVE  /\ l \in Locals /\ con[l] \in Conn /\ con[l].live /\ Sane(con[l], l)
           /\ Promise(s, con[l], l, dev)
           /\ con[l].queue \in Seq(Packets) /\ Len(con[l].queue) \in Nat
           /\ \A x \in Locals \ {l} : AtRest(con[x])
           /\ jobs = Stack(s, l, t)
<1>1. l \in Locals /\ con[l].live /\ Promise(s, con[l], l, dev) /\ jobs = Stack(s, l, t)
  BY DEF Running
<1>2. con[l] \in Conn /\ Sane(con[l], l)
  BY <1>1 DEF Inv, Types
<1>3. con[l].queue \in Seq(Packets)
  BY <1>2 DEF Conn
<1>4. Len(con[l].queue) \in Nat
  BY <1>3
<1>5. \A x \in Locals \ {l} : AtRest(con[x])
  BY DEF Running
<1> QED
  BY <1>1, <1>2, <1>3, <1>4, <1>5

\* The rest of the invariant, for the steps that touch neither history nor table.
LEMMA QuietLemma ==
    ASSUME Inv, UNCHANGED <<list, num, dev, wire, given, sentTo>>,
           con' \in [Locals -> Conn],
           \A x \in Locals : Sane(con'[x], x),
           \A x \in Locals : con'[x].live <=> con[x].live,
           \A x \in Locals : con[x].used \subseteq con'[x].used,
           \E s \in Shapes, l \in Locals \cup {NoFlow}, t \in BOOLEAN : Running(s, l, t)',
           DropsOnlyWhenFull'
    PROVE  Inv'
<1>1. Types'
  BY DEF Inv, Types
<1>2. Table'
  BY TableSame DEF Inv
<1>3. History'
  BY DEF Inv, History, OnlySharedPortsConfused
<1> QED
  BY <1>1, <1>2, <1>3 DEF Inv

\* output_handler_recv gives the writer its buffer.
LEMMA WriterStep ==
    ASSUME Inv, WriterJob
    PROVE  Inv'
<1>1. PICK s \in Shapes, l \in Locals \cup {NoFlow}, t \in BOOLEAN : Running(s, l, t)
  BY DEF Inv
<1>2. jobs = Stack(s, l, t) /\ Top("writer")
  BY <1>1 DEF Running, WriterJob
<1>3. s \in {"new", "writer"} /\ Here = l /\ s \in Busy
  BY <1>2, TopLemma DEF Busy, Shapes
<1> DEFINE k == con[l]
           j == HasBuffer(k)
<1>4. /\ l \in Locals /\ k \in Conn /\ k.live /\ Sane(k, l)
      /\ Promise(s, k, l, dev)
      /\ \A x \in Locals \ {l} : AtRest(con[x])
  BY <1>1, <1>3, BusyLemma
<1>5. /\ j \in Conn /\ SameFlow(j, k) /\ j.outHave /\ j.queue = k.queue
      /\ j.wait = k.wait /\ j.failed = k.failed /\ j.writing = k.writing
  BY <1>4, HasBufferType
<1>6. con' = [con EXCEPT ![l] = j]
  BY <1>3 DEF WriterJob, HasBuffer
<1>7. jobs' = <<>> \o Tail(jobs) /\ UNCHANGED <<list, num, dev, wire, given, sentTo, drop>>
  BY DEF WriterJob, Push
<1> HIDE DEF j
<1>8. Sane(j, l) /\ j.live /\ con[l].used \subseteq j.used
  BY <1>4, <1>5, SaneSame DEF Sane, SameFlow
<1>9. DropsOnlyWhenFull'
  BY <1>7 DEF Inv, DropsOnlyWhenFull
<1>10. Types /\ \A x \in Locals : Sane(con[x], x)
  BY DEF Inv
<1>11. CASE s = "new"
  <2>1. jobs' = Stack("first", l, t)
    <3>1. Tail(jobs) = Stack("first", l, t)
      BY <1>2, <1>11, TailLemma
    <3>2. <<>> \o Stack("first", l, t) = Stack("first", l, t)
      BY DEF Stack, Core, Below
    <3> QED
      BY <1>7, <3>1, <3>2
  <2>2. Promise("first", j, l, dev')
    BY <1>4, <1>5, <1>7, <1>11 DEF Promise, SameFlow
  <2>3. "first" \in Busy /\ "first" # "idle"
    BY DEF Busy, Shapes
  <2> QED
    BY <1>4, <1>5, <1>6, <1>7, <1>8, <1>9, <1>10, <2>1, <2>2, <2>3, OneLemma, QuietLemma
<1>12. CASE s = "writer"
  <2>1. jobs' = Stack("idle", l, t)
    BY <1>2, <1>7, <1>12, TailLemma, PushLemma
  <2>2. AtRest(j)
    BY <1>4, <1>5, <1>12 DEF Promise, AtRest, Flowing
  <2>3. "idle" \notin Busy
    BY DEF Busy, Shapes
  <2> QED
    BY <1>4, <1>5, <1>6, <1>7, <1>8, <1>9, <1>10, <2>1, <2>2, <2>3, OneLemma, QuietLemma
<1> QED
  BY <1>3, <1>11, <1>12

\* connection_first_job_handler sends the packet that is still in the read buffer.
LEMMA FirstStep ==
    ASSUME Inv, FirstJob
    PROVE  Inv'
<1>1. PICK s \in Shapes, l \in Locals \cup {NoFlow}, t \in BOOLEAN : Running(s, l, t)
  BY DEF Inv
<1>2. jobs = Stack(s, l, t) /\ Top("first")
  BY <1>1 DEF Running, FirstJob
<1>3. s = "first" /\ Here = l /\ s \in Busy
  BY <1>2, TopLemma DEF Busy, Shapes
<1> DEFINE k == con[l]
           j == ConnectionSend(k, dev)
<1>4. /\ l \in Locals /\ k \in Conn /\ k.live /\ Sane(k, l)
      /\ Promise("first", k, l, dev)
      /\ \A x \in Locals \ {l} : AtRest(con[x])
  BY <1>1, <1>3, BusyLemma
<1>5. /\ k.outHave /\ k.queue = <<>> /\ ~k.wait
      /\ dev \in k.used /\ k.dns = dev.dns /\ k.remote = dev.remote
  BY <1>4 DEF Promise
<1>6. Proper(Written(k, dev), k.used)
  <2>1. dev \in Flows
    BY <1>4, <1>5 DEF Conn
  <2> QED
    BY <1>5, <2>1, WrittenLemma
<1>7. /\ j \in Conn /\ SameFlow(j, k) /\ ~j.outHave /\ j.queue = k.queue
      /\ j.wait = k.wait /\ j.failed = k.failed /\ j.writing = Written(k, dev)
  BY <1>4, <1>5, <1>6, SendType DEF Proper
<1>8. /\ con' = [con EXCEPT ![l] = j]
      /\ jobs' = <<Job("written", l)>> \o Tail(jobs)
      /\ drop' = [dropped |-> FALSE, room |-> Len(k.queue) < BufCap]
      /\ UNCHANGED <<list, num, dev, wire, given, sentTo>>
  BY <1>3, <1>5 DEF FirstJob, Push, Sends, Account
<1> HIDE DEF j
<1>9. Sane(j, l) /\ j.live /\ con[l].used \subseteq j.used
  BY <1>4, <1>7, SaneSame DEF Sane, SameFlow
<1>10. DropsOnlyWhenFull'
  BY <1>8 DEF DropsOnlyWhenFull
<1>11. jobs' = Stack("written", l, t)
  BY <1>2, <1>3, <1>8, TailLemma, PushLemma
<1>12. Promise("written", j, l, dev')
  <2>1. Len(j.queue) < BufCap
    BY <1>5, <1>7, BoundsAssumption
  <2>2. Flowing(j)
    BY <1>5, <1>7 DEF Flowing
  <2> QED
    BY <1>6, <1>7, <2>1, <2>2 DEF Promise, SameFlow
<1>13. "written" \in Busy /\ "written" # "idle"
  BY DEF Busy, Shapes
<1>14. Types /\ \A x \in Locals : Sane(con[x], x)
  BY DEF Inv
<1> QED
  BY <1>4, <1>7, <1>8, <1>9, <1>10, <1>11, <1>12, <1>13, <1>14, OneLemma, QuietLemma

\* input_handler_done: the packet is in the buffer, its sending starts if it is
\* the only one, and the writer is given the next buffer if there is room.
LEMMA WrittenStep ==
    ASSUME Inv, WrittenJob
    PROVE  Inv'
<1>1. PICK s \in Shapes, l \in Locals \cup {NoFlow}, t \in BOOLEAN : Running(s, l, t)
  BY DEF Inv
<1>2. jobs = Stack(s, l, t) /\ Top("written")
  BY <1>1 DEF Running, WrittenJob
<1>3. s = "written" /\ Here = l /\ s \in Busy
  BY <1>2, TopLemma DEF Busy, Shapes
<1> DEFINE k == con[l]
           q == Append(k.queue, k.writing)
           j == Queued(k)
<1>4. /\ l \in Locals /\ k \in Conn /\ k.live /\ Sane(k, l)
      /\ Promise("written", k, l, dev)
      /\ k.queue \in Seq(Packets) /\ Len(k.queue) \in Nat
      /\ \A x \in Locals \ {l} : AtRest(con[x])
  BY <1>1, <1>3, BusyLemma
<1>5. ~k.outHave /\ Len(k.queue) < BufCap /\ Flowing(k) /\ Proper(k.writing, k.used)
  BY <1>4 DEF Promise
<1>6. /\ j \in Conn /\ SameFlow(j, k) /\ j.outHave = k.outHave /\ j.queue = q
      /\ j.wait = k.wait /\ j.failed = k.failed /\ j.writing = NoFlow
  BY <1>4, <1>5, QueuedType DEF Proper
<1>7. /\ Len(q) = Len(k.queue) + 1 /\ q # <<>>
      /\ \A i \in 1 .. Len(q) : Proper(q[i], k.used)
  BY <1>4, <1>5, ProperAppend DEF Sane
<1>8. /\ con' = [con EXCEPT ![l] = j]
      /\ jobs' = ((IF k.queue = <<>> THEN <<Job("send", l)>> ELSE <<>>)
                  \o (IF Len(q) < BufCap THEN <<Job("writer", l)>> ELSE <<>>))
                 \o Stack("idle", l, t)
      /\ UNCHANGED <<list, num, dev, wire, given, sentTo, drop>>
  <2>1. Tail(jobs) = Stack("idle", l, t)
    BY <1>2, <1>3, TailLemma
  <2> QED
    BY <1>3, <2>1 DEF WrittenJob, Push, Queued
<1> HIDE DEF j, q
<1>9. Sane(j, l) /\ j.live /\ con[l].used \subseteq j.used
  <2>1. Len(j.queue) <= BufCap
    BY <1>4, <1>5, <1>6, <1>7, BoundsAssumption
  <2> QED
    BY <1>4, <1>6, <1>7, <2>1, SaneSame DEF SameFlow
<1>10. DropsOnlyWhenFull'
  BY <1>8 DEF Inv, DropsOnlyWhenFull
<1>11. /\ Types /\ \A x \in Locals : Sane(con[x], x)
       /\ "send" \in Busy /\ "sendw" \in Busy /\ "writer" \in Busy /\ "idle" \notin Busy
       /\ "send" # "idle" /\ "sendw" # "idle" /\ "writer" # "idle"
  BY DEF Inv, Busy, Shapes
<1>12. CASE k.queue = <<>> /\ Len(q) < BufCap
  <2>1. jobs' = Stack("sendw", l, t)
    BY <1>8, <1>12, PushedLemma
  <2>2. Promise("sendw", j, l, dev')
    BY <1>5, <1>6, <1>7, <1>12 DEF Promise
  <2> QED
    BY <1>4, <1>6, <1>8, <1>9, <1>10, <1>11, <2>1, <2>2, OneLemma, QuietLemma
<1>13. CASE k.queue = <<>> /\ ~(Len(q) < BufCap)
  <2>1. jobs' = Stack("send", l, t)
    BY <1>8, <1>13, PushedLemma
  <2>2. Promise("send", j, l, dev')
    BY <1>5, <1>6, <1>7, <1>13 DEF Promise
  <2> QED
    BY <1>4, <1>6, <1>8, <1>9, <1>10, <1>11, <2>1, <2>2, OneLemma, QuietLemma
<1>14. CASE k.queue # <<>> /\ Len(q) < BufCap
  <2>1. jobs' = Stack("writer", l, t)
    BY <1>8, <1>14, PushedLemma
  <2>2. Flowing(j)
    BY <1>5, <1>6, <1>7, <1>14 DEF Flowing
  <2>3. Promise("writer", j, l, dev')
    BY <1>5, <1>6, <1>7, <1>14, <2>2 DEF Promise
  <2> QED
    BY <1>4, <1>6, <1>8, <1>9, <1>10, <1>11, <2>1, <2>3, OneLemma, QuietLemma
<1>15. CASE k.queue # <<>> /\ ~(Len(q) < BufCap)
  <2>1. jobs' = Stack("idle", l, t)
    BY <1>8, <1>15, PushedLemma
  <2>2. Flowing(j)
    BY <1>5, <1>6, <1>7, <1>15 DEF Flowing
  <2>3. AtRest(j)
    BY <1>5, <1>6, <1>7, <1>15, <2>2 DEF AtRest
  <2> QED
    BY <1>4, <1>6, <1>8, <1>9, <1>10, <1>11, <2>1, <2>3, OneLemma, QuietLemma
<1> QED
  BY <1>12, <1>13, <1>14, <1>15

\* output_handler_done: the packet is out of the buffer; the next one is sent, and
\* the writer is given a buffer if there was none.
LEMMA SentStep ==
    ASSUME Inv, SentJob
    PROVE  Inv'
<1>1. PICK s \in Shapes, l \in Locals \cup {NoFlow}, t \in BOOLEAN : Running(s, l, t)
  BY DEF Inv
<1>2. jobs = Stack(s, l, t) /\ Top("sent")
  BY <1>1 DEF Running, SentJob
<1>3. s \in {"sent", "sentw"} /\ Here = l /\ s \in Busy
  BY <1>2, TopLemma DEF Busy, Shapes
<1> DEFINE k == con[l]
           j == Unqueued(k)
           more == (IF Len(k.queue) > 1 THEN <<Job("send", l)>> ELSE <<>>)
                   \o (IF Len(k.queue) >= BufCap THEN <<Job("writer", l)>> ELSE <<>>)
<1>4. /\ l \in Locals /\ k \in Conn /\ k.live /\ Sane(k, l)
      /\ Promise(s, k, l, dev)
      /\ k.queue \in Seq(Packets) /\ Len(k.queue) \in Nat
      /\ \A x \in Locals \ {l} : AtRest(con[x])
  BY <1>1, <1>3, BusyLemma
<1>5. /\ k.queue # <<>> /\ k.writing = NoFlow /\ ~k.wait
      /\ s = "sent" => (k.outHave <=> Len(k.queue) < BufCap)
      /\ s = "sentw" => ~k.outHave /\ Len(k.queue) < BufCap
  BY <1>3, <1>4 DEF Promise
<1>6. /\ j \in Conn /\ SameFlow(j, k) /\ j.outHave = k.outHave
      /\ j.queue = Tail(k.queue)
      /\ j.wait = k.wait /\ j.failed = k.failed /\ j.writing = NoFlow
  BY <1>4, <1>5, UnqueuedType
<1>7. /\ Len(Tail(k.queue)) = Len(k.queue) - 1 /\ Len(k.queue) > 0
      /\ Tail(k.queue) # <<>> <=> Len(k.queue) > 1
      /\ \A i \in 1 .. Len(Tail(k.queue)) : Proper(Tail(k.queue)[i], k.used)
      /\ Len(k.queue) <= BufCap /\ BufCap \in Nat
  BY <1>4, <1>5, ProperTail, BoundsAssumption DEF Sane
<1>8. /\ con' = [con EXCEPT ![l] = j]
      /\ jobs' = more \o Tail(jobs)
      /\ UNCHANGED <<list, num, dev, wire, given, sentTo, drop>>
  BY <1>3 DEF SentJob, Push, Unqueued
<1> HIDE DEF j
<1>9. Sane(j, l) /\ j.live /\ con[l].used \subseteq j.used
  <2>1. Len(j.queue) <= BufCap
    BY <1>4, <1>6, <1>7
  <2> QED
    BY <1>4, <1>6, <1>7, <2>1, SaneSame DEF SameFlow
<1>10. DropsOnlyWhenFull'
  BY <1>8 DEF Inv, DropsOnlyWhenFull
<1>11. /\ Types /\ \A x \in Locals : Sane(con[x], x)
       /\ "send" \in Busy /\ "sendw" \in Busy /\ "writer" \in Busy /\ "idle" \notin Busy
       /\ "send" # "idle" /\ "sendw" # "idle" /\ "writer" # "idle"
  BY DEF Inv, Busy, Shapes
<1>12. Len(j.queue) < BufCap /\ (j.queue # <<>> <=> Len(k.queue) > 1)
  BY <1>4, <1>6, <1>7
<1>13. CASE s = "sent" /\ Len(k.queue) >= BufCap
  <2>1. ~j.outHave /\ Tail(jobs) = Stack("idle", l, t)
    <3>1. Tail(jobs) = Stack("idle", l, t)
      BY <1>2, <1>13, TailLemma
    <3>2. ~k.outHave
      BY <1>4, <1>5, <1>7, <1>13
    <3> QED
      BY <1>6, <3>1, <3>2
  <2>2. CASE Len(k.queue) > 1
    <3>1. jobs' = Stack("sendw", l, t)
      BY <1>8, <1>13, <2>1, <2>2, PushedLemma
    <3>2. Promise("sendw", j, l, dev')
      BY <1>6, <1>12, <2>1, <2>2 DEF Promise
    <3> QED
      BY <1>4, <1>6, <1>8, <1>9, <1>10, <1>11, <3>1, <3>2, OneLemma, QuietLemma
  <2>3. CASE ~(Len(k.queue) > 1)
    <3>1. jobs' = Stack("writer", l, t)
      BY <1>8, <1>13, <2>1, <2>3, PushedLemma
    <3>2. Flowing(j)
      BY <1>5, <1>6, <1>12, <2>3 DEF Flowing
    <3>3. Promise("writer", j, l, dev')
      BY <1>6, <1>12, <2>1, <2>3, <3>2 DEF Promise
    <3> QED
      BY <1>4, <1>6, <1>8, <1>9, <1>10, <1>11, <3>1, <3>3, OneLemma, QuietLemma
  <2> QED
    BY <2>2, <2>3
<1>14. CASE s = "sent" /\ ~(Len(k.queue) >= BufCap)
  <2>1. j.outHave /\ Tail(jobs) = Stack("idle", l, t)
    <3>1. Tail(jobs) = Stack("idle", l, t)
      BY <1>2, <1>14, TailLemma
    <3>2. k.outHave
      BY <1>4, <1>5, <1>7, <1>14
    <3> QED
      BY <1>6, <3>1, <3>2
  <2>2. CASE Len(k.queue) > 1
    <3>1. jobs' = Stack("send", l, t)
      BY <1>8, <1>14, <2>1, <2>2, PushedLemma
    <3>2. Promise("send", j, l, dev')
      BY <1>6, <1>12, <2>1, <2>2 DEF Promise
    <3> QED
      BY <1>4, <1>6, <1>8, <1>9, <1>10, <1>11, <3>1, <3>2, OneLemma, QuietLemma
  <2>3. CASE ~(Len(k.queue) > 1)
    <3>1. jobs' = Stack("idle", l, t)
      BY <1>8, <1>14, <2>1, <2>3, PushedLemma
    <3>2. Flowing(j)
      BY <1>5, <1>6, <1>12, <2>3 DEF Flowing
    <3>3. AtRest(j)
      BY <1>6, <1>12, <2>1, <2>3, <3>2 DEF AtRest
    <3> QED
      BY <1>4, <1>6, <1>8, <1>9, <1>10, <1>11, <3>1, <3>3, OneLemma, QuietLemma
  <2> QED
    BY <2>2, <2>3
<1>15. CASE s = "sentw"
  <2>1. ~j.outHave /\ Tail(jobs) = Stack("writer", l, t) /\ ~(Len(k.queue) >= BufCap)
    <3>1. Tail(jobs) = Stack("writer", l, t)
      BY <1>2, <1>15, TailLemma
    <3>2. ~k.outHave /\ ~(Len(k.queue) >= BufCap)
      BY <1>4, <1>5, <1>7, <1>15
    <3> QED
      BY <1>6, <3>1, <3>2
  <2>2. CASE Len(k.queue) > 1
    <3>1. jobs' = Stack("sendw", l, t)
      BY <1>8, <2>1, <2>2, PushedLemma
    <3>2. Promise("sendw", j, l, dev')
      BY <1>6, <1>12, <2>1, <2>2 DEF Promise
    <3> QED
      BY <1>4, <1>6, <1>8, <1>9, <1>10, <1>11, <3>1, <3>2, OneLemma, QuietLemma
  <2>3. CASE ~(Len(k.queue) > 1)
    <3>1. jobs' = Stack("writer", l, t)
      BY <1>8, <2>1, <2>3, PushedLemma
    <3>2. Flowing(j)
      BY <1>5, <1>6, <1>12, <2>3 DEF Flowing
    <3>3. Promise("writer", j, l, dev')
      BY <1>6, <1>12, <2>1, <2>3, <3>2 DEF Promise
    <3> QED
      BY <1>4, <1>6, <1>8, <1>9, <1>10, <1>11, <3>1, <3>3, OneLemma, QuietLemma
  <2> QED
    BY <2>2, <2>3
<1> QED
  BY <1>3, <1>13, <1>14, <1>15

\* do_send: whatever becomes of the datagram, it is a proper one for this socket,
\* and the packets behind it are accounted for.
LEMMA DoSendStep ==
    ASSUME Inv, NEW l \in Locals, NEW below, DoSend(l, below),
           UNCHANGED <<list, num, dev, given, drop>>,
           con[l].live, con[l].queue # <<>>, con[l].writing = NoFlow,
           \A x \in Locals \ {l} : AtRest(con[x]),
           NEW t \in BOOLEAN,
           \/ /\ below = Stack("idle", l, t)
              /\ con[l].outHave <=> Len(con[l].queue) < BufCap
           \/ /\ below = Stack("writer", l, t)
              /\ ~con[l].outHave /\ Len(con[l].queue) < BufCap
    PROVE  Inv'
<1> DEFINE k == con[l]
           p == Head(k.queue)
<1>1. Types /\ Table /\ History /\ \A x \in Locals : Sane(con[x], x)
  BY DEF Inv
<1>2. k \in Conn /\ Sane(k, l) /\ k.failed \in BOOLEAN /\ k.queue \in Seq(Packets)
  BY <1>1 DEF Types, Conn
<1>3. Proper(p, k.used)
  BY <1>2, ProperTail DEF Sane
<1>4. /\ "sent" \in Busy /\ "sentw" \in Busy /\ "writer" \in Busy /\ "idle" \notin Busy
      /\ "sent" # "idle" /\ "sentw" # "idle" /\ "writer" # "idle"
  BY DEF Busy, Shapes
<1>5. DropsOnlyWhenFull'
  BY DEF Inv, DropsOnlyWhenFull
\* However it ends, the connection is sane.
<1>6. ASSUME NEW w \in BOOLEAN, NEW x \in BOOLEAN
      PROVE  /\ Tried(k, w, x) \in Conn /\ Tried(k, w, x).live /\ Sane(Tried(k, w, x), l)
             /\ Tried(k, w, x).used = k.used
             /\ Tried(k, w, x).outHave = k.outHave
             /\ Tried(k, w, x).queue = k.queue /\ Tried(k, w, x).writing = NoFlow
             /\ Tried(k, w, x).wait = w /\ Tried(k, w, x).failed = x
  <2>1. /\ Tried(k, w, x) \in Conn /\ SameFlow(Tried(k, w, x), k)
        /\ Tried(k, w, x).outHave = k.outHave
        /\ Tried(k, w, x).queue = k.queue /\ Tried(k, w, x).writing = k.writing
        /\ Tried(k, w, x).wait = w /\ Tried(k, w, x).failed = x
    <3>1. k \in Conn
      BY <1>2
    <3> HIDE DEF k
    <3> QED
      BY <3>1, TriedType
  <2>2. Len(k.queue) <= BufCap /\ \A i \in 1 .. Len(k.queue) : Proper(k.queue[i], k.used)
    BY <1>2 DEF Sane
  <2>3. Sane(Tried(k, w, x), l)
    BY <1>2, <2>1, <2>2, SaneSame
  <2> QED
    BY <2>1, <2>3 DEF SameFlow
\* It is not sent: it waits, or the send has failed.
<1>7. ASSUME NEW w \in BOOLEAN, NEW x \in BOOLEAN, w \/ x,
             con' = [con EXCEPT ![l] = Tried(k, w, x)], jobs' = below,
             UNCHANGED <<wire, sentTo>>
      PROVE  Inv'
  <2> DEFINE j == Tried(k, w, x)
  <2>1. /\ j \in Conn /\ j.live /\ Sane(j, l) /\ j.outHave = k.outHave
        /\ j.queue = k.queue /\ j.writing = NoFlow /\ j.wait = w /\ j.failed = x
        /\ k.used \subseteq j.used
    BY <1>6
  <2>2. con' = [con EXCEPT ![l] = j]
    BY <1>7
  <2> HIDE DEF j
  <2>3. Flowing(j)
    BY <1>7, <2>1 DEF Flowing
  <2>4. CASE below = Stack("idle", l, t) /\ (k.outHave <=> Len(k.queue) < BufCap)
    <3>1. AtRest(j)
      BY <2>1, <2>3, <2>4 DEF AtRest
    <3> QED
      BY <1>1, <1>4, <1>5, <1>7, <2>1, <2>2, <2>4, <3>1, OneLemma, QuietLemma
  <2>5. CASE below = Stack("writer", l, t) /\ ~k.outHave /\ Len(k.queue) < BufCap
    <3>1. Promise("writer", j, l, dev')
      BY <2>1, <2>3, <2>5 DEF Promise
    <3> QED
      BY <1>1, <1>4, <1>5, <1>7, <2>1, <2>2, <2>5, <3>1, OneLemma, QuietLemma
  <2> QED
    BY <2>4, <2>5
<1>8. CASE /\ con' = [con EXCEPT ![l].wait = FALSE]
           /\ wire' = [res |-> "sent", local |-> l, via |-> k.via, packet |-> p,
                       own |-> OneKind(k.used)]
           /\ sentTo' = [sentTo EXCEPT ![l] = @ \cup {p.data}]
           /\ jobs' = <<Job("sent", l)>> \o below
  <2> DEFINE j == Tried(k, FALSE, k.failed)
  <2>1. /\ j \in Conn /\ j.live /\ Sane(j, l) /\ j.outHave = k.outHave
        /\ j.queue = k.queue /\ j.writing = NoFlow /\ j.wait = FALSE /\ j.used = k.used
    BY <1>2, <1>6
  <2>2. con' = [con EXCEPT ![l] = j]
    BY <1>1, <1>2, <1>8 DEF Tried, Types, Conn
  <2> HIDE DEF j
  <2>3. /\ con' \in [Locals -> Conn]
        /\ \A x \in Locals : Sane(con'[x], x)
        /\ \A x \in Locals : con'[x].live <=> con[x].live
        /\ \A x \in Locals : con[x].used \subseteq con'[x].used
        /\ \E s1 \in Shapes, l1 \in Locals \cup {NoFlow}, t1 \in BOOLEAN : Running(s1, l1, t1)'
    <3>1. CASE below = Stack("idle", l, t) /\ (k.outHave <=> Len(k.queue) < BufCap)
      <4>1. jobs' = Stack("sent", l, t)
        BY <1>8, <3>1, PushLemma
      <4>2. Promise("sent", j, l, dev')
        BY <2>1, <3>1 DEF Promise
      <4> QED
        BY <1>1, <1>4, <2>1, <2>2, <4>1, <4>2, OneLemma
    <3>2. CASE below = Stack("writer", l, t) /\ ~k.outHave /\ Len(k.queue) < BufCap
      <4>1. jobs' = Stack("sentw", l, t)
        BY <1>8, <3>2, PushLemma
      <4>2. Promise("sentw", j, l, dev')
        BY <2>1, <3>2 DEF Promise
      <4> QED
        BY <1>1, <1>4, <2>1, <2>2, <4>1, <4>2, OneLemma
    <3> QED
      BY <3>1, <3>2
  <2>4. p.data \in k.used /\ p.data \in Flows /\ p.data.local = l /\ Proper(p, Flows)
    BY <1>2, <1>3 DEF Proper, Packets, Sane
  <2>5. sentTo' \in [Locals -> SUBSET Flows]
    BY <1>1, <1>8, <2>4 DEF Types
  <2>6. \A x \in Locals : sentTo'[x] \subseteq con'[x].used
    <3>1. \A x \in Locals \ {l} : sentTo'[x] = sentTo[x]
      BY <1>1, <1>8 DEF Types
    <3>2. sentTo'[l] = sentTo[l] \cup {p.data}
      BY <1>1, <1>8 DEF Types
    <3>3. \A x \in Locals : sentTo[x] \subseteq con'[x].used
      BY <1>1, <2>3 DEF History
    <3>4. p.data \in con'[l].used
      BY <2>3, <2>4
    <3> QED
      BY <3>1, <3>2, <3>3, <3>4
  <2>7. PICK h \in k.used : k.via = Way(h)
    BY <1>2 DEF Sane
  <2>8. /\ wire'.res = "sent" /\ wire'.local = l /\ wire'.packet = p /\ wire'.via = k.via
        /\ wire'.own = OneKind(k.used)
    BY <1>8
  <2>9. History'
    <3>1. wire'.own => h.dns = p.data.dns
      BY <2>4, <2>7, <2>8 DEF OneKind
    <3>2. wire'.own => wire'.via = IF p.data.dns THEN "dnsgw" ELSE "socks"
      BY <2>7, <2>8, <3>1 DEF Way
    <3>3. OnlySharedPortsConfused'
      BY <1>1, <2>8, <3>2 DEF History, OnlySharedPortsConfused
    <3> QED
      BY <2>4, <2>6, <2>8, <3>3 DEF History
  <2>10. Types'
    BY <1>1, <2>3, <2>5 DEF Types
  <2>11. Table'
    BY <1>1, <2>3, TableSame
  <2> QED
    BY <1>5, <2>3, <2>9, <2>10, <2>11 DEF Inv
<1>9. CASE /\ con' = [con EXCEPT ![l].wait = TRUE]
           /\ jobs' = below /\ UNCHANGED <<wire, sentTo>>
  <2>1. con' = [con EXCEPT ![l] = Tried(k, TRUE, k.failed)]
    BY <1>1, <1>2, <1>9 DEF Tried, Types, Conn
  <2> QED
    BY <1>2, <1>7, <1>9, <2>1
<1>10. CASE /\ con' = [con EXCEPT ![l].wait = FALSE, ![l].failed = TRUE]
            /\ jobs' = below /\ UNCHANGED <<wire, sentTo>>
  <2>1. con' = [con EXCEPT ![l] = Tried(k, FALSE, TRUE)]
    BY <1>1, <1>2, <1>10 DEF Tried, Types, Conn
  <2> QED
    BY <1>7, <1>10, <2>1
<1> QED
  BY <1>8, <1>9, <1>10 DEF DoSend

\* The job that starts the sending of a packet.
LEMMA SendStep ==
    ASSUME Inv, SendJob
    PROVE  Inv'
<1>1. PICK s \in Shapes, l \in Locals \cup {NoFlow}, t \in BOOLEAN : Running(s, l, t)
  BY DEF Inv
<1>2. jobs = Stack(s, l, t) /\ Top("send")
  BY <1>1 DEF Running, SendJob
<1>3. s \in {"send", "sendw"} /\ Here = l /\ s \in Busy
  BY <1>2, TopLemma DEF Busy, Shapes
<1>4. /\ l \in Locals /\ con[l].live /\ Promise(s, con[l], l, dev)
      /\ \A x \in Locals \ {l} : AtRest(con[x])
  BY <1>1, <1>3, BusyLemma
<1>5. DoSend(l, Tail(jobs)) /\ UNCHANGED <<list, num, dev, given, drop>>
  BY <1>3 DEF SendJob
<1>6. con[l].queue # <<>> /\ con[l].writing = NoFlow
  BY <1>3, <1>4 DEF Promise
<1>7. CASE s = "send"
  <2>1. Tail(jobs) = Stack("idle", l, t)
    BY <1>2, <1>7, TailLemma
  <2>2. con[l].outHave <=> Len(con[l].queue) < BufCap
    BY <1>4, <1>7 DEF Promise
  <2> QED
    BY <1>4, <1>5, <1>6, <2>1, <2>2, DoSendStep
<1>8. CASE s = "sendw"
  <2>1. Tail(jobs) = Stack("writer", l, t)
    BY <1>2, <1>8, TailLemma
  <2>2. ~con[l].outHave /\ Len(con[l].queue) < BufCap
    BY <1>4, <1>8 DEF Promise
  <2> QED
    BY <1>4, <1>5, <1>6, <2>1, <2>2, DoSendStep
<1> QED
  BY <1>3, <1>7, <1>8

\* While no job is pending every connection is at rest.
LEMMA RestLemma ==
    ASSUME Inv, jobs = <<>>
    PROVE  \A x \in Locals : AtRest(con[x]) /\ con[x] \in Conn /\ Sane(con[x], x)
<1>1. PICK s \in Shapes, l \in Locals \cup {NoFlow}, t \in BOOLEAN : Running(s, l, t)
  BY DEF Inv
<1>2. jobs = Stack(s, l, t)
  BY <1>1 DEF Running
<1>3. s = "idle" /\ s \notin Busy
  BY <1>2, TopLemma DEF Busy
<1> QED
  BY <1>1, <1>3 DEF Running, Inv, Types

\* fd_handler: the socket can be written to again.
LEMMA WritableStep ==
    ASSUME Inv, NEW l \in Locals, Writable(l)
    PROVE  Inv'
<1>1. /\ jobs = <<>> /\ con[l].wait /\ DoSend(l, <<>>)
      /\ UNCHANGED <<list, num, dev, given, drop>>
  BY DEF Writable
<1>2. \A x \in Locals : AtRest(con[x]) /\ con[x] \in Conn /\ Sane(con[x], x)
  BY <1>1, RestLemma
<1>3. con[l].live
  <2>1. ~NoCon.wait
    BY DEF NoCon
  <2> QED
    BY <1>1, <1>2, <2>1 DEF Sane
<1>4. con[l].queue # <<>> /\ con[l].writing = NoFlow
  BY <1>1, <1>2 DEF AtRest, Flowing
<1>5. con[l].outHave <=> Len(con[l].queue) < BufCap
  BY <1>2, <1>3 DEF AtRest
<1>6. <<>> = Stack("idle", l, FALSE)
  BY StackLemma
<1> QED
  BY <1>1, <1>2, <1>3, <1>4, <1>5, <1>6, DoSendStep

-----------------------------------------------------------------------------
(* The table *)

\* LinkedList1_Remove and LinkedList1_Append keep the list's members, each once.
LEMMA UsedLastLemma ==
    ASSUME list \in Seq(Locals), NEW l \in Locals, NEW a \in 1 .. Len(list), list[a] = l,
           \A i, j \in 1 .. Len(list) : list[i] = list[j] => i = j,
           list' = UsedLast(list, l)
    PROVE  /\ list' \in Seq(Locals) /\ Len(list') = Len(list)
           /\ \A i, j \in 1 .. Len(list') : list'[i] = list'[j] => i = j
           /\ \A i \in 1 .. Len(list') : \E j \in 1 .. Len(list) : list[j] = list'[i]
           /\ \A i \in 1 .. Len(list) : \E j \in 1 .. Len(list') : list'[j] = list[i]
<1> DEFINE at == CHOOSE i \in 1 .. Len(list) : list[i] = l
           n == Len(list)
<1>1. at \in 1 .. n /\ list[at] = l
  OBVIOUS
<1>2. n \in Nat
  OBVIOUS
<1>3. list' = [i \in 1 .. n |-> IF i < at THEN list[i] ELSE IF i < n THEN list[i + 1] ELSE l]
  BY DEF UsedLast
<1> HIDE DEF at
<1>4. \A i \in 1 .. n : list'[i] = IF i < at THEN list[i] ELSE IF i < n THEN list[i + 1] ELSE l
  BY <1>3
<1>5. list' \in Seq(Locals) /\ Len(list') = n
  BY <1>1, <1>2, <1>3
<1>6. \A i \in 1 .. n : list[i] \in Locals
  OBVIOUS
<1> HIDE DEF n
\* The place in list of what is at place i in list'.
<1> DEFINE from(i) == IF i < at THEN i ELSE IF i < n THEN i + 1 ELSE at
<1>7. \A i \in 1 .. n : from(i) \in 1 .. n /\ list'[i] = list[from(i)]
  BY <1>1, <1>2, <1>4
<1>8. \A i, j \in 1 .. n : from(i) = from(j) => i = j
  BY <1>1, <1>2
<1>9. \A i, j \in 1 .. n : list'[i] = list'[j] => i = j
  <2>1. SUFFICES ASSUME NEW i \in 1 .. n, NEW j \in 1 .. n, list'[i] = list'[j] PROVE i = j
    OBVIOUS
  <2>2. list[from(i)] = list[from(j)] /\ from(i) \in 1 .. n /\ from(j) \in 1 .. n
    BY <1>7, <2>1
  <2>3. from(i) = from(j)
    BY <2>2 DEF n
  <2> QED
    BY <1>8, <2>3
<1>10. ASSUME NEW i \in 1 .. n PROVE \E j \in 1 .. n : list'[j] = list[i]
  <2>1. CASE i < at
    BY <1>1, <1>2, <1>4, <2>1
  <2>2. CASE i = at
    <3>1. n \in 1 .. n /\ list'[n] = l
      BY <1>1, <1>2, <1>4
    <3> QED
      BY <1>1, <2>2, <3>1
  <2>3. CASE i > at
    <3>1. i - 1 \in 1 .. n /\ ~(i - 1 < at) /\ i - 1 < n /\ (i - 1) + 1 = i
      BY <1>1, <1>2, <2>3
    <3> QED
      BY <1>4, <3>1
  <2> QED
    BY <1>1, <1>2, <2>1, <2>2, <2>3
<1>11. ASSUME NEW i \in 1 .. n PROVE \E j \in 1 .. n : list[j] = list'[i]
  BY <1>7
<1>12. n = Len(list)
  BY DEF n
<1>13. Len(list') = Len(list) /\ \A i, j \in 1 .. Len(list') : list'[i] = list'[j] => i = j
  BY <1>5, <1>9, <1>12
<1>14. \A i \in 1 .. Len(list') : \E j \in 1 .. Len(list) : list[j] = list'[i]
  BY <1>5, <1>11, <1>12, Zenon
<1>15. \A i \in 1 .. Len(list) : \E j \in 1 .. Len(list') : list'[j] = list[i]
  BY <1>5, <1>10, <1>12, Zenon
<1> QED
  BY <1>5, <1>13, <1>14, <1>15, Zenon

\* The counter and the list have the number of connections in the tree.
LEMMA CountLemma ==
    ASSUME Types, Table
    PROVE  Len(list) = Cardinality({l \in Locals : con[l].live})
<1> DEFINE L == {l \in Locals : con[l].live}
<1>1. Len(list) \in Nat /\ list \in [1 .. Len(list) -> Locals]
  BY DEF Types
<1>2. {list[i] : i \in 1 .. Len(list)} = L
      /\ \A i, j \in 1 .. Len(list) : list[i] = list[j] => i = j
  BY DEF Table
<1> HIDE DEF L
<1>3. \A i \in 1 .. Len(list) : list[i] \in L
  BY <1>2
<1>4. \A x \in L : \E i \in 1 .. Len(list) : list[i] = x
  BY <1>2
<1>5. list \in [1 .. Len(list) -> L]
  BY <1>1, <1>3
<1>6. list \in Bijection(1 .. Len(list), L)
  BY <1>2, <1>4, <1>5 DEF Bijection, Injection, Surjection, IsInjective
<1>7. Cardinality(L) = Len(list)
  <2>1. ExistsBijection(1 .. Len(list), L)
    BY <1>6 DEF ExistsBijection
  <2> QED
    BY <1>1, <2>1, FS_CountingElements
<1> QED
  BY <1>7 DEF L

-----------------------------------------------------------------------------
(* The device and the replies *)

\* What the invariant says when a packet is about to be processed.
LEMMA SubmitLemma ==
    ASSUME Inv, Top("submit")
    PROVE  /\ dev \in Flows /\ dev.local \in Locals /\ Tail(jobs) = <<>>
           /\ \A x \in Locals : AtRest(con[x]) /\ con[x] \in Conn /\ Sane(con[x], x)
<1>1. PICK s \in Shapes, l \in Locals \cup {NoFlow}, t \in BOOLEAN : Running(s, l, t)
  BY DEF Inv
<1>2. jobs = Stack(s, l, t)
  BY <1>1 DEF Running
<1>3. s = "submit" /\ s \notin Busy
  BY <1>2, TopLemma DEF Busy
<1>4. t = FALSE /\ dev \in Flows
  BY <1>1, <1>3 DEF Running
<1>5. Tail(jobs) = <<>>
  BY <1>2, <1>3, <1>4, TailLemma
<1>6. \A x \in Locals : AtRest(con[x])
  BY <1>1, <1>3 DEF Running
<1> QED
  BY <1>4, <1>5, <1>6, FlowsAssumption DEF Inv, Types

\* The list after a connection was used is still the table's.
LEMMA TableUsed ==
    ASSUME Inv, NEW l \in Locals, con[l].live, list' = UsedLast(list, l), num' = num,
           \A x \in Locals : con'[x].live <=> con[x].live
    PROVE  list' \in Seq(Locals) /\ Table'
<1>1. /\ list \in Seq(Locals)
      /\ \A i, j \in 1 .. Len(list) : list[i] = list[j] => i = j
      /\ {list[i] : i \in 1 .. Len(list)} = {x \in Locals : con[x].live}
      /\ num = Len(list) /\ num <= MaxCon
  BY DEF Inv, Types, Table
<1>2. PICK a \in 1 .. Len(list) : list[a] = l
  BY <1>1
<1>3. /\ list' \in Seq(Locals) /\ Len(list') = Len(list)
      /\ \A i, j \in 1 .. Len(list') : list'[i] = list'[j] => i = j
      /\ \A i \in 1 .. Len(list') : \E j \in 1 .. Len(list) : list[j] = list'[i]
      /\ \A i \in 1 .. Len(list) : \E j \in 1 .. Len(list') : list'[j] = list[i]
  BY <1>1, <1>2, UsedLastLemma
<1>4. {list'[i] : i \in 1 .. Len(list')} = {x \in Locals : con'[x].live}
  <2>1. ASSUME NEW i \in 1 .. Len(list') PROVE list'[i] \in {x \in Locals : con'[x].live}
    <3>1. PICK j \in 1 .. Len(list) : list[j] = list'[i]
      BY <1>3
    <3>2. list[j] \in {x \in Locals : con[x].live}
      BY <1>1
    <3> QED
      BY <3>1, <3>2
  <2>2. ASSUME NEW x \in Locals, con'[x].live PROVE \E j \in 1 .. Len(list') : list'[j] = x
    <3>1. x \in {list[i] : i \in 1 .. Len(list)}
      BY <1>1, <2>2
    <3>2. PICK i \in 1 .. Len(list) : list[i] = x
      BY <3>1
    <3> QED
      BY <1>3, <3>2
  <2> QED
    BY <2>1, <2>2
<1> QED
  BY <1>1, <1>3, <1>4 DEF Table

\* SocksUdpGwClient_SubmitPacket to a connection that exists: the packet goes
\* behind the others, or is dropped because there is no room.
LEMMA SubmitExistingStep ==
    ASSUME Inv, SubmitExisting
    PROVE  Inv'
<1> DEFINE l == dev.local
           k == ResetConnection(con[l], dev)
<1>1. /\ Top("submit") /\ con[l].live
      /\ con' = [con EXCEPT ![l] = ConnectionSend(k, dev)]
      /\ drop' = [dropped |-> ~Sends(k), room |-> Len(k.queue) < BufCap]
      /\ list' = IF Sends(k) THEN UsedLast(list, l) ELSE list
      /\ jobs' = DeviceReadJobs(IF Sends(k) THEN <<Job("written", l)>> ELSE <<>>)
                 \o Tail(jobs)
      /\ UNCHANGED <<num, dev, wire, given, sentTo>>
  BY DEF SubmitExisting, FindConnection, Account, Push
<1>2. /\ dev \in Flows /\ l \in Locals /\ Tail(jobs) = <<>>
      /\ \A x \in Locals : AtRest(con[x]) /\ con[x] \in Conn /\ Sane(con[x], x)
  BY <1>1, SubmitLemma
<1>3. /\ k \in Conn /\ k.dns = dev.dns /\ k.remote = dev.remote
      /\ k.live = con[l].live /\ k.via = con[l].via /\ k.outHave = con[l].outHave
      /\ k.queue = con[l].queue /\ k.wait = con[l].wait
      /\ k.failed = con[l].failed /\ k.writing = con[l].writing
      /\ k.used = con[l].used \cup {dev}
  BY <1>2, ResetType
<1> HIDE DEF k
<1>4. k.live
  BY <1>1, <1>3
<1>5. Sane(k, l)
  <2>1. PICK h \in con[l].used : con[l].via = Way(h)
    BY <1>1, <1>2 DEF Sane
  <2>2. \E f, g, h1 \in k.used : k.dns = f.dns /\ k.remote = g.remote /\ k.via = Way(h1)
    BY <1>3, <2>1
  <2>3. \A f \in k.used : f.local = l
    BY <1>2, <1>3 DEF Sane
  <2>4. Len(k.queue) <= BufCap /\ \A i \in 1 .. Len(k.queue) : Proper(k.queue[i], k.used)
    BY <1>2, <1>3 DEF Sane, Proper
  <2> QED
    BY <1>4, <2>2, <2>3, <2>4 DEF Sane
<1>6. AtRest(k) /\ (k.outHave <=> Len(k.queue) < BufCap)
  <2>1. k.writing = NoFlow /\ Flowing(k)
    BY <1>2, <1>3 DEF AtRest, Flowing
  <2>2. con[l].outHave <=> Len(con[l].queue) < BufCap
    BY <1>1, <1>2 DEF AtRest
  <2>3. k.outHave <=> Len(k.queue) < BufCap
    BY <1>3, <2>2
  <2> QED
    BY <2>1, <2>3 DEF AtRest
<1>7. /\ Types /\ History /\ Table /\ \A x \in Locals : Sane(con[x], x)
      /\ \A x \in Locals \ {l} : AtRest(con[x])
      /\ "written" \in Busy /\ "written" # "idle" /\ "idle" \notin Busy
  BY <1>2 DEF Inv, Busy, Shapes
<1>8. ASSUME \A x \in Locals : con[x].used \subseteq con'[x].used PROVE History'
  BY <1>1, <1>7, <1>8 DEF History, OnlySharedPortsConfused
<1>9. CASE Sends(k)
  <2> DEFINE j == ConnectionSend(k, dev)
  <2>1. k.outHave
    BY <1>9 DEF Sends
  <2>2. Proper(Written(k, dev), k.used)
    BY <1>2, <1>3, WrittenLemma
  <2>3. /\ j \in Conn /\ SameFlow(j, k) /\ ~j.outHave /\ j.queue = k.queue
        /\ j.wait = k.wait /\ j.failed = k.failed /\ j.writing = Written(k, dev)
    BY <1>3, <2>1, <2>2, SendType DEF Proper
  <2>4. con' = [con EXCEPT ![l] = j]
    BY <1>1
  <2> HIDE DEF j
  <2>5. Sane(j, l) /\ j.live /\ con[l].used \subseteq j.used
    <3>1. j.used = k.used /\ j.live
      BY <1>4, <2>3 DEF SameFlow
    <3>2. Len(j.queue) <= BufCap /\ \A i \in 1 .. Len(j.queue) : Proper(j.queue[i], k.used)
      BY <1>5, <2>3 DEF Sane
    <3>3. Sane(j, l)
      BY <1>3, <1>4, <1>5, <2>3, <3>2, SaneSame
    <3> QED
      BY <1>3, <3>1, <3>3
  <2>6. jobs' = Stack("written", l, TRUE)
    BY <1>1, <1>2, <1>9, DeviceLemma
  <2>7. Promise("written", j, l, dev')
    <3>1. Len(j.queue) < BufCap /\ Flowing(j)
      BY <1>6, <2>1, <2>3 DEF AtRest, Flowing
    <3> QED
      BY <2>2, <2>3, <3>1 DEF Promise, SameFlow
  <2>8. /\ con' \in [Locals -> Conn]
        /\ \A x \in Locals : Sane(con'[x], x)
        /\ \A x \in Locals : con'[x].live <=> con[x].live
        /\ \A x \in Locals : con[x].used \subseteq con'[x].used
        /\ \E s1 \in Shapes, l1 \in Locals \cup {NoFlow}, t1 \in BOOLEAN : Running(s1, l1, t1)'
    BY <1>1, <1>2, <1>7, <2>3, <2>4, <2>5, <2>6, <2>7, OneLemma
  <2>9. list' \in Seq(Locals) /\ Table'
    BY <1>1, <1>2, <1>9, <2>8, TableUsed
  <2>10. Types'
    BY <1>1, <1>7, <2>8, <2>9 DEF Types
  <2>11. DropsOnlyWhenFull'
    BY <1>1, <1>9 DEF DropsOnlyWhenFull
  <2> QED
    BY <1>8, <2>8, <2>9, <2>10, <2>11 DEF Inv
<1>10. CASE ~Sends(k)
  <2>1. con' = [con EXCEPT ![l] = k] /\ UNCHANGED <<list, num, dev, wire, given, sentTo>>
    BY <1>1, <1>10 DEF ConnectionSend
  <2>2. jobs' = Stack("idle", l, TRUE)
    BY <1>1, <1>2, <1>10, DeviceLemma
  <2>3. DropsOnlyWhenFull'
    <3>1. ~(Len(k.queue) < BufCap)
      BY <1>6, <1>10 DEF Sends
    <3> QED
      BY <1>1, <3>1 DEF DropsOnlyWhenFull
  <2> QED
    BY <1>1, <1>2, <1>3, <1>4, <1>5, <1>6, <1>7, <2>1, <2>2, <2>3, OneLemma, QuietLemma
<1> QED
  BY <1>9, <1>10

\* The list q has every live connection of c once, and nothing else.
Listed(q, c) ==
    /\ \A i, j \in 1 .. Len(q) : q[i] = q[j] => i = j
    /\ \A i \in 1 .. Len(q) : q[i] \in Locals /\ c[q[i]].live
    /\ \A x \in Locals : c[x].live => \E i \in 1 .. Len(q) : q[i] = x

\* The table is listed,
LEMMA TableListed ==
    ASSUME Table, list \in Seq(Locals)
    PROVE  Listed(list, con)
<1>1. {list[i] : i \in 1 .. Len(list)} = {x \in Locals : con[x].live}
  BY DEF Table
<1>2. \A i \in 1 .. Len(list) : list[i] \in {x \in Locals : con[x].live}
  BY <1>1
<1>3. ASSUME NEW x \in Locals, con[x].live PROVE \E i \in 1 .. Len(list) : list[i] = x
  <2>1. x \in {list[i] : i \in 1 .. Len(list)}
    BY <1>1, <1>3
  <2> QED
    BY <2>1
<1> QED
  BY <1>2, <1>3 DEF Listed, Table

\* and what is listed is a table.
LEMMA ListedTable ==
    ASSUME Listed(list', con'), num' = Len(list'), num' <= MaxCon
    PROVE  Table'
<1>1. \A i \in 1 .. Len(list') : list'[i] \in {x \in Locals : con'[x].live}
  BY DEF Listed
<1>2. \A x \in {y \in Locals : con'[y].live} : \E i \in 1 .. Len(list') : list'[i] = x
  BY DEF Listed
<1>3. {list'[i] : i \in 1 .. Len(list')} = {x \in Locals : con'[x].live}
  BY <1>1, <1>2
<1> QED
  BY <1>3 DEF Listed, Table

\* What SocksUdpGwClient_SubmitPacket frees to make room, and what it leaves.
Gone  == IF num = MaxCon THEN {list[1]} ELSE {}
Rest  == IF num = MaxCon THEN Tail(list) ELSE list
Freed == [x \in Locals |-> IF x \in Gone THEN NoCon ELSE con[x]]

\* A connection that does not exist.
LEMMA NoConLemma ==
    /\ NoCon \in Conn /\ ~NoCon.live /\ AtRest(NoCon)
    /\ \A l : Sane(NoCon, l)
<1>1. NoCon \in Conn
  BY DEF NoCon, Conn
<1>2. /\ NoCon.live = FALSE /\ NoCon.queue = <<>> /\ NoCon.wait = FALSE
      /\ NoCon.writing = NoFlow /\ NoCon.used = {}
  BY DEF NoCon
<1>3. Len(NoCon.queue) = 0
  BY <1>2
<1>4. AtRest(NoCon)
  BY <1>2 DEF AtRest, Flowing
<1>5. ASSUME NEW l PROVE Sane(NoCon, l)
  BY <1>2, <1>3, BoundsAssumption DEF Sane
<1> QED
  BY <1>1, <1>2, <1>4, <1>5

\* remove_lru_connection, if the table is full: there is room for one more.
LEMMA EvictLemma ==
    ASSUME Inv
    PROVE  /\ Freed \in [Locals -> Conn]
           /\ \A x \in Locals : Freed[x] = NoCon \/ Freed[x] = con[x]
           /\ Rest \in Seq(Locals) /\ Listed(Rest, Freed)
           /\ num - Cardinality(Gone) = Len(Rest) /\ Len(Rest) \in Nat /\ Len(Rest) < MaxCon
<1>1. /\ con \in [Locals -> Conn] /\ list \in Seq(Locals) /\ num = Len(list)
      /\ num <= MaxCon /\ Listed(list, con) /\ num \in Nat
      /\ MaxCon \in Nat /\ MaxCon > 0
  BY TableListed, BoundsAssumption DEF Inv, Types, Table
<1>2. /\ Freed \in [Locals -> Conn]
      /\ \A x \in Locals : Freed[x] = IF x \in Gone THEN NoCon ELSE con[x]
  BY <1>1, NoConLemma DEF Freed
<1>3. num = Len(list) /\ num \in Nat /\ MaxCon \in Nat /\ MaxCon > 0 /\ num <= MaxCon
  BY <1>1
<1>4. CASE num = MaxCon
  <2>1. Gone = {list[1]} /\ Rest = Tail(list) /\ 1 \in 1 .. Len(list)
    BY <1>1, <1>4 DEF Gone, Rest
  <2>2. Cardinality(Gone) = 1
    BY <2>1, FS_Singleton
  <2>3. /\ list # <<>> /\ Rest \in Seq(Locals) /\ Len(Rest) = Len(list) - 1
        /\ \A i \in 1 .. Len(Rest) : Rest[i] = list[i + 1] /\ i + 1 \in 1 .. Len(list)
    <3>1. list # <<>>
      BY <1>1, <1>4, <1>3, EmptyLemma
    <3>2. /\ Tail(list) \in Seq(Locals) /\ Len(Tail(list)) = Len(list) - 1
          /\ \A i \in 1 .. Len(Tail(list)) :
                Tail(list)[i] = list[i + 1] /\ i + 1 \in 1 .. Len(list)
      BY <1>1, <3>1
    <3> QED
      BY <2>1, <3>1, <3>2
  <2>4. \A i, j \in 1 .. Len(Rest) : Rest[i] = Rest[j] => i = j
    <3>1. SUFFICES ASSUME NEW i \in 1 .. Len(Rest), NEW j \in 1 .. Len(Rest), Rest[i] = Rest[j]
                   PROVE  i = j
      OBVIOUS
    <3>2. list[i + 1] = list[j + 1] /\ i + 1 \in 1 .. Len(list) /\ j + 1 \in 1 .. Len(list)
      BY <2>3, <3>1
    <3>3. i + 1 = j + 1
      BY <1>1, <3>2 DEF Listed
    <3> QED
      BY <1>1, <2>3, <3>3
  <2>5. ASSUME NEW i \in 1 .. Len(Rest) PROVE Rest[i] \in Locals /\ Freed[Rest[i]].live
    <3>1. Rest[i] = list[i + 1] /\ i + 1 \in 1 .. Len(list) /\ i + 1 # 1
      BY <1>1, <2>3
    <3>2. list[i + 1] \in Locals /\ con[list[i + 1]].live /\ list[i + 1] # list[1]
      BY <1>1, <2>1, <3>1 DEF Listed
    <3> QED
      BY <1>2, <2>1, <3>1, <3>2
  <2>6. ASSUME NEW x \in Locals, Freed[x].live PROVE \E i \in 1 .. Len(Rest) : Rest[i] = x
    <3>1. x # list[1] /\ con[x].live
      BY <1>2, <2>1, <2>6, NoConLemma
    <3>2. PICK i \in 1 .. Len(list) : list[i] = x
      BY <1>1, <3>1 DEF Listed
    <3>3. i - 1 \in 1 .. Len(Rest) /\ (i - 1) + 1 = i
      BY <1>1, <2>1, <2>3, <3>1, <3>2
    <3> QED
      BY <2>3, <3>2, <3>3
  <2>7. Listed(Rest, Freed)
    BY <2>4, <2>5, <2>6 DEF Listed
  <2>8. num - Cardinality(Gone) = Len(Rest) /\ Len(Rest) \in Nat /\ Len(Rest) < MaxCon
    <3>1. Len(Rest) = Len(list) - 1
      BY <2>3
    <3> QED
      BY <1>4, <1>3, <2>2, <3>1
  <2>9. \A x \in Locals : Freed[x] = NoCon \/ Freed[x] = con[x]
    BY <1>2
  <2> QED
    BY <1>2, <2>3, <2>7, <2>8, <2>9
<1>5. CASE num # MaxCon
  <2>1. Gone = {} /\ Rest = list
    BY <1>5 DEF Gone, Rest
  <2>2. Cardinality(Gone) = 0
    BY <2>1, FS_EmptySet
  <2>3. \A x \in Locals : Freed[x] = con[x]
    BY <1>2, <2>1
  <2>4. Freed = con
    BY <1>1, <1>2, <2>3
  <2> QED
    BY <1>1, <1>2, <1>5, <2>1, <2>2, <2>3, <2>4
<1> QED
  BY <1>4, <1>5

\* connection_init gives a connection of the flow that is in the read buffer.
LEMMA NewType ==
    ASSUME NEW f \in Flows
    PROVE  LET k == NewConnection(f)
           IN  /\ k \in Conn /\ k.live /\ k.dns = f.dns /\ k.remote = f.remote
               /\ k.via = Way(f) /\ ~k.outHave /\ k.queue = <<>> /\ ~k.wait
               /\ k.writing = NoFlow /\ k.used = {f}
<1> DEFINE k == NewConnection(f)
           v == Way(f)
<1>1. f.dns \in BOOLEAN /\ f.remote \in Remotes
  BY FlowsAssumption DEF Remotes
<1>2. v \in {"none", "dnsgw", "socks"}
  BY DEF Way
<1>3. k = [live |-> TRUE, dns |-> f.dns, remote |-> f.remote, via |-> v,
           outHave |-> FALSE, writing |-> NoFlow, queue |-> <<>>,
           wait |-> FALSE, failed |-> FALSE, used |-> {f}]
  <2>1. k = [NoCon EXCEPT !.live = TRUE, !.dns = f.dns, !.remote = f.remote, !.via = v,
                          !.used = {f}]
    BY DEF NewConnection, Way
  <2> HIDE DEF k, v
  <2> QED
    BY <2>1 DEF NoCon
<1> HIDE DEF k, v
<1>4. k \in Conn
  BY <1>1, <1>2, <1>3 DEF Conn
<1>5. /\ k.live /\ k.dns = f.dns /\ k.remote = f.remote /\ k.via = v
      /\ ~k.outHave /\ k.queue = <<>> /\ ~k.wait /\ k.writing = NoFlow
      /\ k.used = {f}
  BY <1>3
<1> QED
  BY <1>4, <1>5 DEF k, v

\* SocksUdpGwClient_SubmitPacket for a new local address, with or without a
\* connection given up for it, and whether or not connection_init succeeds.
LEMMA SubmitNewStep ==
    ASSUME Inv, NEW ok \in BOOLEAN, SubmitNew(ok)
    PROVE  Inv'
<1>0. PICK l : l = dev.local
  OBVIOUS
<1> DEFINE k == NewConnection(dev)
<1>1. /\ Top("submit") /\ ~con[l].live
      /\ con' = IF ok THEN [Freed EXCEPT ![l] = k] ELSE Freed
      /\ list' = IF ok THEN Append(Rest, l) ELSE Rest
      /\ num' = num - Cardinality(Gone) + (IF ok THEN 1 ELSE 0)
      /\ sentTo' = [x \in Locals |-> IF x \in Gone THEN {} ELSE sentTo[x]]
      /\ jobs' = DeviceReadJobs(IF ok THEN InitJobs(l) ELSE <<>>) \o Tail(jobs)
      /\ UNCHANGED <<dev, wire, given, drop>>
  BY <1>0 DEF SubmitNew, FindConnection, Push, Freed, Gone, Rest
<1>2. /\ dev \in Flows /\ l \in Locals /\ Tail(jobs) = <<>>
      /\ \A x \in Locals : AtRest(con[x]) /\ con[x] \in Conn /\ Sane(con[x], x)
  BY <1>0, <1>1, SubmitLemma
<1>3. /\ Freed \in [Locals -> Conn]
      /\ \A x \in Locals : Freed[x] = NoCon \/ Freed[x] = con[x]
      /\ Rest \in Seq(Locals) /\ Listed(Rest, Freed)
      /\ num - Cardinality(Gone) = Len(Rest) /\ Len(Rest) \in Nat /\ Len(Rest) < MaxCon
  BY EvictLemma
<1>4. \A x \in Locals : AtRest(Freed[x]) /\ Sane(Freed[x], x)
  BY <1>2, <1>3, NoConLemma
<1>5. ~Freed[l].live
  BY <1>1, <1>2, <1>3, NoConLemma
<1>6. sentTo' \in [Locals -> SUBSET Flows] /\ \A x \in Locals : sentTo'[x] \subseteq sentTo[x]
  BY <1>1 DEF Inv, Types
<1>7. \A x \in Locals : sentTo'[x] \subseteq Freed[x].used /\ (x = l => sentTo'[x] = {})
  <2>1. \A x \in Locals : sentTo[x] \subseteq con[x].used
    BY DEF Inv, History
  <2>2. \A x \in Locals : sentTo'[x] = {} \/ (sentTo'[x] = sentTo[x] /\ Freed[x] = con[x])
    BY <1>1 DEF Freed
  <2>3. sentTo[l] = {}
    <3>1. con[l] = NoCon
      BY <1>1, <1>2 DEF Sane
    <3>2. NoCon.used = {}
      BY DEF NoCon
    <3> QED
      BY <1>2, <2>1, <3>1, <3>2
  <2> QED
    BY <2>1, <2>2, <2>3
<1>h. ASSUME \A x \in Locals : sentTo'[x] \subseteq con'[x].used PROVE History'
  BY <1>1, <1>h DEF Inv, History, OnlySharedPortsConfused
<1>8. DropsOnlyWhenFull'
  BY <1>1 DEF Inv, DropsOnlyWhenFull
<1>9. CASE ok
  <2>1. /\ k \in Conn /\ k.live /\ k.dns = dev.dns /\ k.remote = dev.remote
        /\ k.via = Way(dev) /\ ~k.outHave /\ k.queue = <<>> /\ ~k.wait
        /\ k.writing = NoFlow /\ k.used = {dev}
    BY <1>2, NewType
  <2>2. con' = [Freed EXCEPT ![l] = k]
    BY <1>1, <1>9
  <2> HIDE DEF k
  <2>3. /\ con' \in [Locals -> Conn] /\ con'[l] = k
        /\ \A x \in Locals \ {l} : con'[x] = Freed[x]
    BY <1>2, <1>3, <2>1, <2>2
  <2>4. Sane(k, l)
    <3>1. Len(k.queue) = 0
      BY <2>1
    <3>2. Len(k.queue) <= BufCap /\ \A i \in 1 .. Len(k.queue) : Proper(k.queue[i], k.used)
      BY <3>1, BoundsAssumption
    <3> QED
      BY <1>0, <1>2, <2>1, <3>2 DEF Sane
  <2>5. \A x \in Locals : Sane(con'[x], x)
    BY <1>4, <2>3, <2>4
  <2>6. jobs' = Stack("new", l, TRUE)
    BY <1>1, <1>2, <1>9, DeviceLemma
  <2>7. Promise("new", con'[l], l, dev')
    BY <1>0, <1>1, <1>2, <2>1, <2>3 DEF Promise
  <2>8. "new" \in Busy /\ "new" \in Shapes /\ "new" # "submit"
    BY DEF Busy, Shapes
  <2>9. Running("new", l, TRUE)'
    <3>1. l \in Locals /\ con'[l].live
      BY <1>2, <2>1, <2>3
    <3>2. \A x \in Locals : x = l \/ AtRest(con'[x])
      BY <1>4, <2>3
    <3> QED
      BY <2>6, <2>7, <2>8, <3>1, <3>2 DEF Running
  <2>10. list' = Append(Rest, l) /\ num' = Len(Rest) + 1
    BY <1>1, <1>3, <1>9
  <2>11. /\ list' \in Seq(Locals) /\ Len(list') = Len(Rest) + 1
         /\ \A i \in 1 .. Len(Rest) : list'[i] = Rest[i]
         /\ list'[Len(Rest) + 1] = l
    BY <1>2, <1>3, <2>10
  <2>12. Listed(list', con')
    <3>1. \A i \in 1 .. Len(Rest) : Rest[i] \in Locals /\ Freed[Rest[i]].live /\ Rest[i] # l
      BY <1>3, <1>5 DEF Listed
    <3>2. \A i, j \in 1 .. Len(Rest) : Rest[i] = Rest[j] => i = j
      BY <1>3 DEF Listed
    <3>3. \A i \in 1 .. Len(list') : i \in 1 .. Len(Rest) \/ i = Len(Rest) + 1
      BY <1>3, <2>11
    <3>4. \A i, j \in 1 .. Len(list') : list'[i] = list'[j] => i = j
      BY <2>11, <3>1, <3>2, <3>3
    <3>5. \A i \in 1 .. Len(list') : list'[i] \in Locals /\ con'[list'[i]].live
      BY <1>2, <2>1, <2>3, <2>11, <3>1, <3>3
    <3>6. ASSUME NEW x \in Locals, con'[x].live PROVE \E i \in 1 .. Len(list') : list'[i] = x
      <4>1. CASE x = l
        BY <1>3, <2>11, <4>1
      <4>2. CASE x # l
        <5>1. PICK i \in 1 .. Len(Rest) : Rest[i] = x
          BY <1>3, <2>3, <3>6, <4>2 DEF Listed
        <5>2. i \in 1 .. Len(list') /\ list'[i] = x
          BY <1>3, <2>11, <5>1
        <5> QED
          BY <5>2
      <4> QED
        BY <4>1, <4>2
    <3> QED
      BY <3>4, <3>5, <3>6 DEF Listed
  <2>13. num' = Len(list') /\ num' <= MaxCon /\ num' \in Nat
    BY <1>3, <2>10, <2>11, BoundsAssumption
  <2>14. Table'
    BY <2>12, <2>13, ListedTable
  <2>15. Types'
    BY <1>1, <1>2, <1>6, <2>3, <2>11, <2>13 DEF Types
  <2>16. History'
    <3>1. \A x \in Locals : sentTo'[x] \subseteq con'[x].used
      BY <1>7, <2>3
    <3> QED
      BY <1>h, <3>1
  <2> QED
    BY <1>2, <1>8, <2>5, <2>8, <2>9, <2>14, <2>15, <2>16 DEF Inv
<1>10. CASE ~ok
  <2>1. con' = Freed /\ list' = Rest /\ num' = Len(Rest)
    BY <1>1, <1>3, <1>10
  <2>2. jobs' = Stack("idle", l, TRUE)
    BY <1>1, <1>2, <1>10, DeviceLemma
  <2>3. "idle" \in Shapes /\ "idle" \notin Busy /\ "idle" # "submit"
    BY DEF Busy, Shapes
  <2>4. Running("idle", l, TRUE)'
    BY <1>4, <2>1, <2>2, <2>3 DEF Running
  <2>5. Table'
    <3>1. Listed(list', con')
      BY <1>3, <2>1
    <3>2. num' = Len(list') /\ num' <= MaxCon
      BY <1>3, <2>1, BoundsAssumption
    <3> QED
      BY <3>1, <3>2, ListedTable
  <2>6. Types'
    BY <1>1, <1>2, <1>3, <1>6, <2>1 DEF Types
  <2>7. \A x \in Locals : Sane(con'[x], x)
    BY <1>4, <2>1
  <2>8. History'
    BY <1>7, <1>h, <2>1
  <2> QED
    BY <1>2, <1>8, <2>3, <2>4, <2>5, <2>6, <2>7, <2>8 DEF Inv
<1> QED
  BY <1>9, <1>10

\* The invariant after a step that leaves all connections alone, at rest.
LEMMA StillLemma ==
    ASSUME Inv, UNCHANGED <<con, list, num, sentTo>>,
           \/ UNCHANGED <<wire, given, drop>>
           \/ wire' = Nothing /\ given' = Nothing /\ drop' = NoDrop,
           dev' \in Flows \cup {NoFlow}, \A x \in Locals : AtRest(con[x]),
           NEW l \in Locals \cup {NoFlow},
           \/ jobs' = Stack("idle", l, FALSE)
           \/ jobs' = Stack("submit", l, FALSE) /\ dev' \in Flows
    PROVE  Inv'
<1>1. /\ "idle" \in Shapes /\ "idle" \notin Busy /\ "idle" # "submit"
      /\ "submit" \in Shapes /\ "submit" \notin Busy
  BY DEF Busy, Shapes
<1>2. Running("idle", l, FALSE)' \/ Running("submit", l, FALSE)'
  BY <1>1 DEF Running
<1>3. Types' /\ Table' /\ History' /\ DropsOnlyWhenFull'
  <2>1. Types' /\ Table'
    BY DEF Inv, Types, Table
  <2>2. Nothing.res = "none" /\ NoDrop.dropped = FALSE
    BY DEF Nothing, NoDrop
  <2>3. History' /\ DropsOnlyWhenFull'
    BY <2>2 DEF Inv, History, OnlySharedPortsConfused, DropsOnlyWhenFull
  <2> QED
    BY <2>1, <2>3
<1>4. \A x \in Locals : Sane(con'[x], x)
  BY DEF Inv
<1> QED
  BY <1>1, <1>2, <1>3, <1>4 DEF Inv

\* A packet is read from the device.
LEMMA DeviceReadStep ==
    ASSUME Inv, NEW f \in Flows, DeviceRead(f)
    PROVE  Inv'
<1>1. /\ jobs = <<>> /\ dev' = f /\ jobs' = <<Job("submit", NoFlow)>>
      /\ wire' = Nothing /\ given' = Nothing /\ drop' = NoDrop
      /\ UNCHANGED <<con, list, num, sentTo>>
  BY DEF DeviceRead
<1>2. \A x \in Locals : AtRest(con[x])
  BY <1>1, RestLemma
<1>3. jobs' = Stack("submit", NoFlow, FALSE)
  BY <1>1, DeviceLemma
<1> QED
  BY <1>1, <1>2, <1>3, StillLemma

\* The read buffer is given back to the device.
LEMMA DeviceDoneStep ==
    ASSUME Inv, DeviceDone
    PROVE  Inv'
<1>1. PICK s \in Shapes, l \in Locals \cup {NoFlow}, t \in BOOLEAN : Running(s, l, t)
  BY DEF Inv
<1>2. jobs = Stack(s, l, t) /\ Top("devdone")
  BY <1>1 DEF Running, DeviceDone
<1>3. s = "idle" /\ t = TRUE /\ s \notin Busy
  BY <1>2, TopLemma DEF Busy
<1>4. \A x \in Locals : AtRest(con[x])
  BY <1>1, <1>3 DEF Running
<1>5. Tail(jobs) = <<>>
  BY <1>2, <1>3, TailLemma
<1>6. UNCHANGED <<con, list, num, wire, given, sentTo, drop>>
  BY DEF DeviceDone
<1>7. CASE dev' = NoFlow /\ jobs' = Push(<<>>)
  <2>1. jobs' = Stack("idle", l, FALSE)
    BY <1>5, <1>7, DeviceLemma DEF Push
  <2> QED
    BY <1>4, <1>6, <1>7, <2>1, StillLemma
<1>8. ASSUME NEW f \in Flows, dev' = f, jobs' = Push(<<Job("submit", NoFlow)>>) PROVE Inv'
  <2>1. jobs' = Stack("submit", l, FALSE)
    BY <1>5, <1>8, DeviceLemma DEF Push
  <2> QED
    BY <1>4, <1>6, <1>8, <2>1, StillLemma
<1> QED
  BY <1>7, <1>8 DEF DeviceDone


\* dgram_handler_received: the connection's remote address is then that of a flow
\* it was used for, and what the app is given is right if these do not differ.
LEMMA ReceivedStep ==
    ASSUME Inv, NEW l \in Locals, NEW f \in Flows, DgramHandlerReceived(l, f)
    PROVE  Inv'
<1> DEFINE k == con[l]
           from == IF k.dns THEN k.remote ELSE f.remote
           j == Answered(k, from)
<1>1. /\ jobs = <<>> /\ k.live /\ f \in sentTo[l]
      /\ con' = [con EXCEPT ![l] = j]
      /\ given' = [res |-> "given", to |-> l, from |-> from, flow |-> f,
                   whole |-> k.dns = (k.via = "dnsgw"),
                   own |-> OneKind(k.used) /\ OneResolver(k.used)]
      /\ UNCHANGED <<list, num, jobs, dev, wire, sentTo, drop>>
  BY DEF DgramHandlerReceived, Gives, Answered
<1>2. \A x \in Locals : AtRest(con[x]) /\ con[x] \in Conn /\ Sane(con[x], x)
  BY <1>1, RestLemma
<1>3. PICK a \in k.used, b \in k.used, h \in k.used :
         k.dns = a.dns /\ k.remote = b.remote /\ k.via = Way(h)
  BY <1>1, <1>2 DEF Sane
<1>4. f \in k.used /\ k.used \subseteq Flows
  BY <1>1, <1>2 DEF Inv, History, Conn
<1>5. PICK g \in k.used : from = g.remote
  <2>1. CASE k.dns
    BY <1>3, <2>1
  <2>2. CASE ~k.dns
    BY <1>4, <2>2
  <2> QED
    BY <2>1, <2>2
<1>6. from \in Remotes
  BY <1>4, <1>5 DEF Remotes
<1>7. given'.res = "given" /\ given'.flow = f /\ given'.from = from
  BY <1>1
<1>8. given'.own => given'.from = f.remote /\ given'.whole
  <2>1. SUFFICES ASSUME OneKind(k.used), OneResolver(k.used)
                 PROVE  from = f.remote /\ k.dns = (k.via = "dnsgw")
    BY <1>1
  <2>2. a.dns = b.dns /\ a.dns = h.dns /\ a.dns = f.dns
    BY <1>3, <1>4, <2>1 DEF OneKind
  <2>3. from = f.remote
    BY <1>3, <1>4, <2>1, <2>2 DEF OneResolver
  <2>4. (k.via = "dnsgw") = h.dns
    <3>1. h.dns \in BOOLEAN
      BY <1>3, <1>4, FlowsAssumption
    <3> QED
      BY <1>3, <3>1 DEF Way
  <2> QED
    BY <1>3, <2>2, <2>3, <2>4
<1> HIDE DEF from
<1>10. /\ j \in Conn /\ j.remote = from /\ j.live = k.live /\ j.dns = k.dns
       /\ j.via = k.via /\ j.outHave = k.outHave /\ j.queue = k.queue
       /\ j.wait = k.wait /\ j.failed = k.failed /\ j.writing = k.writing
       /\ j.used = k.used
  BY <1>2, <1>6, AnsweredType
<1> HIDE DEF j
<1>11. Sane(j, l) /\ j.live /\ con[l].used \subseteq j.used
  <2>1. Len(j.queue) <= BufCap /\ \A i \in 1 .. Len(j.queue) : Proper(j.queue[i], j.used)
    BY <1>2, <1>10 DEF Sane
  <2>2. j.live
    BY <1>1, <1>10
  <2>3. \E p, q, r \in j.used : j.dns = p.dns /\ j.remote = q.remote /\ j.via = Way(r)
    BY <1>3, <1>5, <1>10
  <2>4. \A x \in j.used : x.local = l
    BY <1>2, <1>10 DEF Sane
  <2> QED
    BY <1>10, <2>1, <2>2, <2>3, <2>4 DEF Sane
<1>12. AtRest(j)
  <2>1. j.writing = NoFlow /\ Flowing(j)
    BY <1>2, <1>10 DEF AtRest, Flowing
  <2>2. j.outHave <=> Len(j.queue) < BufCap
    BY <1>1, <1>2, <1>10 DEF AtRest
  <2> QED
    BY <2>1, <2>2 DEF AtRest
<1>13. jobs' = Stack("idle", l, FALSE)
  BY <1>1, StackLemma
<1>14. "idle" \in Busy \cup {"idle"} /\ "idle" \notin Busy
  BY DEF Busy
<1>15. Types /\ Table /\ History /\ DropsOnlyWhenFull /\ \A x \in Locals : Sane(con[x], x)
  BY DEF Inv
<1>16. \A x \in Locals \ {l} : AtRest(con[x])
  BY <1>2
<1>17. /\ con' \in [Locals -> Conn]
       /\ \A x \in Locals : Sane(con'[x], x)
       /\ \A x \in Locals : con'[x].live <=> con[x].live
       /\ \A x \in Locals : con[x].used \subseteq con'[x].used
       /\ \E s1 \in Shapes, l1 \in Locals \cup {NoFlow}, t1 \in BOOLEAN : Running(s1, l1, t1)'
  BY <1>1, <1>10, <1>11, <1>12, <1>13, <1>14, <1>15, <1>16, OneLemma
<1>18. Types'
  BY <1>1, <1>15, <1>17 DEF Types
<1>19. Table'
  BY <1>1, <1>15, <1>17, TableSame
<1>20. History'
  <2>1. OnlySharedPortsConfused'
    BY <1>1, <1>7, <1>8, <1>15 DEF History, OnlySharedPortsConfused
  <2>2. \A x \in Locals : sentTo'[x] \subseteq con'[x].used
    BY <1>1, <1>15, <1>17 DEF History
  <2> QED
    BY <1>1, <1>15, <2>1, <2>2 DEF History
<1>21. DropsOnlyWhenFull'
  BY <1>1, <1>15 DEF DropsOnlyWhenFull
<1> QED
  BY <1>17, <1>18, <1>19, <1>20, <1>21 DEF Inv

\* SocksUdpGwClient_Free gives up all connections.
LEMMA FreeStep ==
    ASSUME Inv, Free
    PROVE  Inv'
<1>1. /\ jobs = <<>> /\ con' = [x \in Locals |-> NoCon]
      /\ list' = <<>> /\ num' = num - Len(list)
      /\ sentTo' = [x \in Locals |-> {}]
      /\ UNCHANGED <<jobs, dev, wire, given, drop>>
  BY DEF Free
<1>2. Types /\ Table /\ History /\ DropsOnlyWhenFull
  BY DEF Inv
<1>3. /\ con' \in [Locals -> Conn] /\ \A x \in Locals : con'[x] = NoCon
  BY <1>1, NoConLemma
<1>4. \A x \in Locals : Sane(con'[x], x) /\ AtRest(con'[x]) /\ ~con'[x].live
  BY <1>3, NoConLemma
<1>5. num' = 0
  BY <1>1, <1>2 DEF Types, Table
<1>6. Len(list') = 0 /\ list' \in Seq(Locals)
  BY <1>1
<1>7. Listed(list', con')
  BY <1>4, <1>6 DEF Listed
<1>8. Table'
  BY <1>5, <1>6, <1>7, BoundsAssumption, ListedTable
<1>9. sentTo' \in [Locals -> SUBSET Flows] /\ \A x \in Locals : sentTo'[x] = {}
  BY <1>1
<1>10. Types'
  BY <1>1, <1>2, <1>3, <1>5, <1>6, <1>9 DEF Types
<1>11. History'
  BY <1>1, <1>2, <1>9 DEF History, OnlySharedPortsConfused
<1>12. DropsOnlyWhenFull'
  BY <1>1, <1>2 DEF DropsOnlyWhenFull
<1>13. "idle" \in Shapes /\ "idle" \notin Busy /\ "idle" # "submit"
  BY DEF Busy, Shapes
<1>14. jobs' = Stack("idle", NoFlow, FALSE)
  BY <1>1, StackLemma
<1>15. Running("idle", NoFlow, FALSE)'
  BY <1>4, <1>13, <1>14 DEF Running
<1> QED
  BY <1>4, <1>8, <1>10, <1>11, <1>12, <1>13, <1>15 DEF Inv

-----------------------------------------------------------------------------
(* The theorems *)

\* The invariant holds before the first packet.
LEMMA InitLemma ==
    ASSUME Init
    PROVE  Inv
<1>1. /\ con = [x \in Locals |-> NoCon] /\ list = <<>> /\ num = 0 /\ jobs = <<>>
      /\ dev = NoFlow /\ wire.res = "none" /\ given.res = "none"
      /\ sentTo = [x \in Locals |-> {}] /\ drop.dropped = FALSE
  BY DEF Init, Nothing, NoDrop
<1>2. con \in [Locals -> Conn] /\ \A x \in Locals : con[x] = NoCon
  BY <1>1, NoConLemma
<1>3. \A x \in Locals : Sane(con[x], x) /\ AtRest(con[x]) /\ ~con[x].live
  BY <1>2, NoConLemma
<1>4. Len(list) = 0 /\ list \in Seq(Locals)
  BY <1>1
<1>5. {list[i] : i \in 1 .. Len(list)} = {x \in Locals : con[x].live}
  BY <1>3, <1>4
<1>6. Table
  BY <1>1, <1>4, <1>5, BoundsAssumption DEF Table
<1>7. sentTo \in [Locals -> SUBSET Flows] /\ \A x \in Locals : sentTo[x] = {}
  BY <1>1
<1>8. Types
  BY <1>1, <1>2, <1>4, <1>7 DEF Types
<1>9. History
  BY <1>1, <1>7 DEF History, OnlySharedPortsConfused
<1>10. "idle" \in Shapes /\ "idle" \notin Busy /\ "idle" # "submit"
  BY DEF Busy, Shapes
<1>11. Running("idle", NoFlow, FALSE)
  BY <1>1, <1>3, <1>10, StackLemma DEF Running
<1> QED
  BY <1>1, <1>3, <1>6, <1>8, <1>9, <1>10, <1>11 DEF Inv, DropsOnlyWhenFull

\* Every step keeps the invariant.
LEMMA NextLemma ==
    ASSUME Inv, [Next]_vars
    PROVE  Inv'
<1>1. CASE UNCHANGED vars
  <2>1. UNCHANGED <<con, list, num, jobs, dev, wire, given, sentTo, drop>>
    BY <1>1 DEF vars
  <2>2. Types' /\ Table' /\ History' /\ DropsOnlyWhenFull'
    BY <2>1 DEF Inv, Types, Table, History, DropsOnlyWhenFull, OnlySharedPortsConfused
  <2>3. PICK s \in Shapes, l \in Locals \cup {NoFlow}, t \in BOOLEAN : Running(s, l, t)
    BY DEF Inv
  <2>4. Running(s, l, t)'
    BY <2>1, <2>3 DEF Running
  <2>5. \A x \in Locals : Sane(con'[x], x)
    BY <2>1 DEF Inv
  <2> QED
    BY <2>2, <2>4, <2>5 DEF Inv
<1>2. CASE RunJob
  BY <1>2, SubmitExistingStep, SubmitNewStep, FirstStep, WriterStep, WrittenStep,
     SendStep, SentStep, DeviceDoneStep DEF RunJob
<1>3. ASSUME NEW f \in Flows, DeviceRead(f) PROVE Inv'
  BY <1>3, DeviceReadStep
<1>4. ASSUME NEW l \in Locals, Writable(l) PROVE Inv'
  BY <1>4, WritableStep
<1>5. ASSUME NEW l \in Locals, NEW f \in Flows, DgramHandlerReceived(l, f) PROVE Inv'
  BY <1>5, ReceivedStep
<1>6. CASE Free
  BY <1>6, FreeStep
<1> QED
  BY <1>1, <1>2, <1>3, <1>4, <1>5, <1>6 DEF Next

\* The inductive invariant: the table, the stack of jobs, the connections and
\* what was sent and given agree in every state the relay can be in.
THEOREM Invariance == Spec => []Inv
<1>1. Init => Inv
  BY InitLemma
<1>2. Inv /\ [Next]_vars => Inv'
  BY NextLemma
<1> QED
  BY <1>1, <1>2, PTL DEF Spec

\* TableConsistent: tree, list and counter agree through evictions and failed
\* connection_init calls, and no job is left for a connection that was freed.
THEOREM TableConsistentHolds == Spec => []TableConsistent
<1>1. ASSUME Inv PROVE TableConsistent
  <2>1. PICK s \in Shapes, l \in Locals \cup {NoFlow}, t \in BOOLEAN : Running(s, l, t)
    BY <1>1 DEF Inv
  <2>2. /\ jobs = Stack(s, l, t)
        /\ s \in Busy => l \in Locals /\ con[l].live
    BY <2>1 DEF Running
  <2>3. /\ \A i \in 1 .. Len(jobs) : jobs[i].kind \in Kinds
        /\ \A i \in 1 .. Len(jobs) :
              jobs[i].kind \notin {"submit", "devdone"} => con[jobs[i].local].live
    BY <2>2, JobsLemma
  <2>4. Types /\ Table /\ \A x \in Locals : Sane(con[x], x)
    BY <1>1 DEF Inv
  <2>5. ASSUME NEW x \in Locals
        PROVE  /\ con[x].live \in BOOLEAN /\ con[x].dns \in BOOLEAN
               /\ con[x].outHave \in BOOLEAN
               /\ con[x].wait \in BOOLEAN /\ con[x].failed \in BOOLEAN
               /\ con[x].via \in {"none", "dnsgw", "socks"}
               /\ con[x].writing \in Packets \cup {NoFlow}
               /\ con[x].queue \in Seq(Packets) /\ Len(con[x].queue) <= BufCap
               /\ con[x].used \subseteq Flows /\ sentTo[x] \subseteq Flows
    <3>1. con[x] \in Conn /\ sentTo[x] \in SUBSET Flows
      BY <2>4 DEF Types
    <3>2. Len(con[x].queue) <= BufCap
      BY <2>4 DEF Sane
    <3> QED
      BY <3>1, <3>2 DEF Conn
  <2>6. num \in 0 .. MaxCon /\ list \in Seq(Locals) /\ dev \in Flows \cup {NoFlow}
    BY <2>4, BoundsAssumption DEF Types, Table
  <2>7. TypeOK
    BY <2>3, <2>5, <2>6 DEF TypeOK
  <2>8. Len(list) = Cardinality({x \in Locals : con[x].live})
    BY <2>4, CountLemma
  <2> QED
    BY <2>3, <2>4, <2>7, <2>8 DEF TableConsistent, Table
<1> QED
  BY <1>1, Invariance, PTL

\* CarriesItsFlow: what leaves the process is what an app sent, with the header
\* of its own flow; connection_first_job_handler reads the device's buffer before
\* it is refilled.
THEOREM CarriesItsFlowHolds == Spec => []CarriesItsFlow
<1>1. Inv => CarriesItsFlow
  <2>1. SUFFICES ASSUME Inv, wire.res = "sent"
                 PROVE  /\ wire.packet.data \in Flows /\ wire.packet.data.local = wire.local
                        /\ wire.packet.hdr = ~wire.packet.data.dns
                        /\ wire.packet.hdr => wire.packet.to = wire.packet.data.remote
    BY DEF CarriesItsFlow
  <2>2. Proper(wire.packet, Flows) /\ wire.packet.data.local = wire.local
    BY <2>1 DEF Inv, History
  <2> QED
    BY <2>2 DEF Proper, Packets
<1> QED
  BY <1>1, Invariance, PTL

\* DropsOnlyWhenFull: connection_send drops a packet only when the connection's
\* send buffer is full; the first packet of a connection is never dropped.
THEOREM DropsOnlyWhenFullHolds == Spec => []DropsOnlyWhenFull
<1>1. Inv => DropsOnlyWhenFull
  BY DEF Inv
<1> QED
  BY <1>1, Invariance, PTL

\* SendingUnderWay: a packet in a send buffer is being sent, waits for the
\* socket, or its sending has failed; it is never forgotten.
THEOREM SendingUnderWayHolds == Spec => []SendingUnderWay
<1>1. Inv => SendingUnderWay
  <2>1. SUFFICES ASSUME Inv, NEW x \in Locals, con[x].queue # <<>>,
                        ~con[x].wait, ~con[x].failed
                 PROVE  \E i \in 1 .. Len(jobs) :
                           jobs[i].local = x /\ jobs[i].kind \in {"send", "sent"}
    BY DEF SendingUnderWay
  <2>2. PICK s \in Shapes, l \in Locals \cup {NoFlow}, t \in BOOLEAN : Running(s, l, t)
    BY <2>1 DEF Inv
  <2>3. ~AtRest(con[x]) /\ ~Flowing(con[x])
    BY <2>1 DEF AtRest, Flowing
  <2>4. s \in Busy /\ x = l /\ jobs = Stack(s, l, t) /\ Promise(s, con[x], x, dev)
    BY <2>2, <2>3 DEF Running
  <2>5. s \in {"send", "sendw", "sent", "sentw"}
    <3>1. s \notin {"new", "first", "written", "writer"}
      BY <2>1, <2>3, <2>4 DEF Promise
    <3> QED
      BY <2>4, <3>1 DEF Busy, Shapes
  <2> QED
    BY <2>4, <2>5, JobsLemma
<1> QED
  BY <1>1, Invariance, PTL

\* OnlySharedPortsConfused: a datagram goes the wrong way, or a reply is given with
\* the wrong sender or its header, only on a local port that was used, since its
\* connection was made, for DNS and other traffic, or for two resolvers.
THEOREM OnlySharedPortsConfusedHolds == Spec => []OnlySharedPortsConfused
<1>1. Inv => OnlySharedPortsConfused
  BY DEF Inv, History
<1> QED
  BY <1>1, Invariance, PTL
=============================================================================

----------------------------- MODULE PartsProofs -----------------------------
(***************************************************************************)
(* Proofs about the small components, for every number of connections,     *)
(* listeners, networks, services and restarts, and for rule files of any   *)
(* contents and length.                                                    *)
(***************************************************************************)
EXTENDS MCParts, WellFoundedInduction, FiniteSetTheorems, TLAPS

-----------------------------------------------------------------------------
(* Queues *)

\* What is left of a queue when its first element is taken.
LEMMA TailFacts ==
    ASSUME NEW S, NEW q \in Seq(S), q # <<>>
    PROVE  /\ Tail(q) \in Seq(S) /\ Head(q) = q[1] /\ Head(q) \in S /\ 1 \in DOMAIN q
           /\ \A i \in DOMAIN Tail(q) : i \in Nat \ {0} /\ i + 1 \in DOMAIN q /\ Tail(q)[i] = q[i + 1]
           /\ \A i \in DOMAIN q : i \in Nat \ {0} /\ (i # 1 => i - 1 \in DOMAIN Tail(q) /\ Tail(q)[i - 1] = q[i])
<1>1. /\ Tail(q) \in Seq(S) /\ Head(q) = q[1] /\ Head(q) \in S /\ 1 \in DOMAIN q
      /\ Len(q) \in Nat /\ DOMAIN q = 1 .. Len(q) /\ DOMAIN Tail(q) = 1 .. Len(q) - 1
      /\ \A i \in 1 .. Len(q) - 1 : Tail(q)[i] = q[i + 1]
  OBVIOUS
<1>2. ASSUME NEW i \in DOMAIN Tail(q)
      PROVE  i \in Nat \ {0} /\ i + 1 \in DOMAIN q /\ Tail(q)[i] = q[i + 1]
  BY <1>1
<1>3. ASSUME NEW i \in DOMAIN q, i # 1
      PROVE  i - 1 \in DOMAIN Tail(q) /\ Tail(q)[i - 1] = q[i]
  <2>1. i - 1 \in 1 .. Len(q) - 1 /\ (i - 1) + 1 = i
    BY <1>1, <1>3
  <2> QED
    BY <1>1, <2>1
<1>4. \A i \in DOMAIN q : i \in Nat \ {0}
  BY <1>1
<1> QED
  BY <1>1, <1>2, <1>3, <1>4

\* An element is added at the end.
LEMMA AppendFacts ==
    ASSUME NEW S, NEW q \in Seq(S), NEW x
    PROVE  /\ Len(q) \in Nat /\ DOMAIN q = 1 .. Len(q) /\ DOMAIN Append(q, x) = 1 .. Len(q) + 1
           /\ Append(q, x)[Len(q) + 1] = x
           /\ \A i \in DOMAIN q : Append(q, x)[i] = q[i]
           /\ x \in S => Append(q, x) \in Seq(S)
OBVIOUS

-----------------------------------------------------------------------------
(* Numbers *)

\* A set of numbers has a least element: numbers are well-founded under <.
LEMMA Least ==
    ASSUME NEW T \in SUBSET Nat, T # {}
    PROVE  \E x \in T : \A y \in T : x <= y
<1> DEFINE R == OpToRel(<, Nat)
<1>1. IsWellFoundedOn(R, Nat)
  BY NatLessThanWellFounded
<1>2. R = {ss \in Nat \X Nat : ss[1] < ss[2]}
  BY DEF OpToRel
<1>3. \A x, y \in Nat : x < y => <<x, y>> \in R
  BY <1>2
<1> HIDE DEF R
<1>4. PICK x \in T : \A y \in T : ~(<<y, x>> \in R)
  BY <1>1, WFMin
<1>5. ASSUME NEW y \in T PROVE x <= y
  <2>1. ~(<<y, x>> \in R)
    BY <1>4
  <2>2. x \in Nat /\ y \in Nat
    OBVIOUS
  <2>3. ~(y < x)
    BY <2>1, <2>2, <1>3
  <2> QED
    BY <2>2, <2>3
<1> QED
  BY <1>5

\* Induction over the numbers up to a bound.
LEMMA Induction ==
    ASSUME NEW N \in Nat, NEW T, 0 \in T, \A n \in 0 .. N : n < N /\ n \in T => n + 1 \in T
    PROVE  0 .. N \subseteq T
<1> DEFINE F == (0 .. N) \ T
<1>1. SUFFICES ASSUME F # {} PROVE FALSE
  OBVIOUS
<1>2. F \in SUBSET Nat
  OBVIOUS
<1>3. PICK x \in F : \A y \in F : x <= y
  BY <1>1, <1>2, Least
<1>4. x \in 0 .. N /\ x \notin T /\ x # 0
  OBVIOUS
<1>5. x - 1 \in 0 .. N /\ x - 1 < N /\ x - 1 < x /\ (x - 1) + 1 = x
  BY <1>4
<1>6. x - 1 \in T
  BY <1>3, <1>4, <1>5
<1> QED
  BY <1>4, <1>5, <1>6

-----------------------------------------------------------------------------
(* FdHandover *)

\* What a queue holds, and that it holds nothing twice.
Elems(q)    == {q[i] : i \in DOMAIN q}
Distinct(q) == \A i, j \in DOMAIN q : q[i] = q[j] => i = j

LEMMA TailElems ==
    ASSUME NEW S, NEW q \in Seq(S), q # <<>>, Distinct(q)
    PROVE  /\ Elems(q) = Elems(Tail(q)) \union {Head(q)}
           /\ Head(q) \notin Elems(Tail(q)) /\ Distinct(Tail(q))
<1>1. /\ Head(q) = q[1] /\ 1 \in DOMAIN q
      /\ \A i \in DOMAIN Tail(q) : i \in Nat \ {0} /\ i + 1 \in DOMAIN q /\ Tail(q)[i] = q[i + 1]
      /\ \A i \in DOMAIN q : i # 1 => i - 1 \in DOMAIN Tail(q) /\ Tail(q)[i - 1] = q[i]
  BY TailFacts
<1>2. Elems(q) = Elems(Tail(q)) \union {Head(q)}
  BY <1>1 DEF Elems
<1>3. \A i \in DOMAIN Tail(q) : i + 1 # 1
  BY <1>1
<1>4. Head(q) \notin Elems(Tail(q))
  BY <1>1, <1>3 DEF Elems, Distinct
<1>5. ASSUME NEW i \in DOMAIN Tail(q), NEW j \in DOMAIN Tail(q), Tail(q)[i] = Tail(q)[j]
      PROVE  i = j
  <2>1. i + 1 = j + 1
    BY <1>1, <1>5 DEF Distinct
  <2> QED
    BY <1>1, <2>1
<1> QED
  BY <1>2, <1>4, <1>5 DEF Distinct

LEMMA AppendElems ==
    ASSUME NEW S, NEW q \in Seq(S), NEW x \in S, x \notin Elems(q), Distinct(q)
    PROVE  /\ Append(q, x) \in Seq(S) /\ Append(q, x) # <<>>
           /\ Elems(Append(q, x)) = Elems(q) \union {x} /\ Distinct(Append(q, x))
<1>1. /\ Len(q) \in Nat /\ DOMAIN q = 1 .. Len(q) /\ DOMAIN Append(q, x) = 1 .. Len(q) + 1
      /\ Append(q, x)[Len(q) + 1] = x /\ \A i \in DOMAIN q : Append(q, x)[i] = q[i]
      /\ Append(q, x) \in Seq(S)
  BY AppendFacts
<1>2. \A i \in DOMAIN Append(q, x) : i \in DOMAIN q \/ i = Len(q) + 1
  BY <1>1
<1>3. Len(q) + 1 \in DOMAIN Append(q, x) /\ \A i \in DOMAIN q : i \in DOMAIN Append(q, x)
  BY <1>1
<1>4. Elems(Append(q, x)) = Elems(q) \union {x}
  BY <1>1, <1>2, <1>3 DEF Elems
<1>5. Distinct(Append(q, x))
  BY <1>1, <1>2 DEF Distinct, Elems
<1> QED
  BY <1>1, <1>3, <1>4, <1>5

\* The connections that the current process may still take a descriptor from.
Open == Elems(backlog) \union {accepted}

\* The socket listens, and somebody may wait, from listen() to close(); a connection
\* is accepted while ancil_recv_fd runs; a process that leaves the loop has received
\* a descriptor or is known to have missed it.
Process ==
    /\ listener = "listening" <=> tun \in {"select", "accept", "recv", "close"}
    /\ backlog # <<>> => listener = "listening"
    /\ accepted # 0 <=> tun = "recv"
    /\ took[starts] # 0 => tun \in {"close", "init", "running", "exited"}
    /\ tun = "close" => starts \in missed \/ took[starts] # 0
    /\ \A p \in 1 .. MaxStarts : p > starts => took[p] = 0 /\ sender[p] = "idle"

\* A connection is of use exactly while it waits or is accepted, and then it was made
\* to the current process; one that is of no use is not connected, or its call finds
\* out when it writes; a descriptor received came over a connection now closed.
Connections ==
    /\ Distinct(backlog) /\ accepted \notin Elems(backlog)
    /\ \A s \in 1 .. MaxStarts :
          /\ s \in Open <=> conn[s] \in {"open", "sent"}
          /\ s \in Open => peer[s] = starts
          /\ conn[s] = "none" <=> peer[s] = 0
          /\ sender[s] \in {"idle", "retry", "failed"} => conn[s] \in {"none", "reset"}
          /\ sender[s] = "connected" => conn[s] \in {"open", "reset"}
          /\ sender[s] = "done" => conn[s] \in {"sent", "closed", "reset"}
    /\ \A p \in 1 .. MaxStarts : took[p] # 0 => conn[took[p]] = "closed" /\ peer[took[p]] = p

HandoverInv == Handover!TypeOK /\ Process /\ Connections /\ Handover!SentIsReceived

\* The bounds of this part.
LEMMA HandoverBounds == MaxTries \in Nat /\ MaxStarts \in Nat \ {0}
BY PartsAssumption

\* The connections in C are reset, by a process that has received what it will.
LEMMA HandoverReset ==
    ASSUME HandoverInv, NEW C, Handover!Reset(C), UNCHANGED <<sender, peer, took, starts>>,
           \A s \in 1 .. MaxStarts : (s \in Open' <=> s \in Open /\ s \notin C) /\ (s \in C => s \in Open),
           Distinct(backlog'), accepted' \notin Elems(backlog'),
           missed \subseteq missed', starts \in missed' \/ took[starts] # 0,
           \A s \in 1 .. MaxStarts : s \in Open' => tun' \in {"select", "accept", "recv", "close"}
    PROVE  Connections' /\ Handover!SentIsReceived'
<1> USE DEF Handover!Procs
<1>0. Handover!TypeOK /\ Process /\ Connections /\ Handover!SentIsReceived
  BY DEF HandoverInv
<1>1. Handover!Waiting = Elems(backlog) /\ Handover!Waiting' = Elems(backlog')
  BY DEF Handover!Waiting, Elems
<1>2. \A s \in 1 .. MaxStarts : conn'[s] = IF s \in C THEN "reset" ELSE conn[s]
  BY DEF Handover!Reset
<1>3. Connections'
  <2>1. \A s \in 1 .. MaxStarts :
          /\ s \in Open' <=> conn'[s] \in {"open", "sent"}
          /\ s \in Open' => peer'[s] = starts'
          /\ conn'[s] = "none" <=> peer'[s] = 0
          /\ sender'[s] \in {"idle", "retry", "failed"} => conn'[s] \in {"none", "reset"}
          /\ sender'[s] = "connected" => conn'[s] \in {"open", "reset"}
          /\ sender'[s] = "done" => conn'[s] \in {"sent", "closed", "reset"}
    BY <1>0, <1>2 DEF Connections
  <2>2. ASSUME NEW p \in 1 .. MaxStarts, took[p] # 0
        PROVE  conn'[took[p]] = "closed" /\ peer[took[p]] = p
    <3>1. took[p] \in 1 .. MaxStarts
      BY <1>0, <2>2, HandoverBounds DEF Handover!TypeOK
    <3>2. conn[took[p]] = "closed" /\ peer[took[p]] = p
      BY <1>0, <2>2 DEF Connections
    <3> QED
      BY <1>0, <1>2, <3>1, <3>2 DEF Connections
  <2> QED
    BY <2>1, <2>2 DEF Connections
<1>4. ASSUME NEW s \in 1 .. MaxStarts, sender[s] = "done"
      PROVE  \/ /\ conn'[s] = "sent" /\ s \in Open'
                /\ peer[s] = starts /\ tun' \in {"select", "accept", "recv", "close"}
             \/ took[peer[s]] = s
             \/ conn'[s] = "reset" /\ (peer[s] \in missed' \/ took[peer[s]] \notin {0, s})
  <2>1. CASE s \in C
    BY <1>0, <1>2, <2>1 DEF Connections
  <2>2. CASE s \notin C
    <3>1. conn'[s] = conn[s] /\ (s \in Open' <=> s \in Open)
      BY <1>2, <2>2
    <3>2. \/ conn[s] = "sent" /\ s \in Open /\ peer[s] = starts
          \/ took[peer[s]] = s
          \/ conn[s] = "reset" /\ (peer[s] \in missed \/ took[peer[s]] \notin {0, s})
      BY <1>0, <1>1, <1>4 DEF Handover!SentIsReceived, Open
    <3> QED
      BY <3>1, <3>2
  <2> QED
    BY <2>1, <2>2
<1> QED
  BY <1>1, <1>3, <1>4 DEF Handover!SentIsReceived, Open

\* Every step of tun2socks and of sendFd keeps it.
LEMMA HandoverStep ==
    ASSUME HandoverInv, Handover!Next
    PROVE  HandoverInv'
<1> USE HandoverBounds DEF Handover!Procs, Handover!sendVars, Handover!tunVars
<1>0. Handover!TypeOK /\ Process /\ Connections /\ Handover!SentIsReceived
  BY DEF HandoverInv
<1>w. Handover!Waiting = Elems(backlog) /\ Handover!Waiting' = Elems(backlog')
  BY DEF Handover!Waiting, Elems
<1> SUFFICES Handover!TypeOK' /\ Process' /\ Connections' /\ Handover!SentIsReceived'
  BY DEF HandoverInv
<1>1. CASE Handover!Bind
  <2>1. Handover!TypeOK'
    BY <1>0, <1>1 DEF Handover!TypeOK, Handover!Bind
  <2>2. Process'
    BY <1>0, <1>1 DEF Handover!TypeOK, Process, Handover!Bind
  <2>3. Connections'
    BY <1>0, <1>1 DEF Connections, Open, Handover!Bind
  <2>4. Handover!SentIsReceived'
    BY <1>0, <1>1, <1>w DEF Handover!SentIsReceived, Connections, Process, Open, Handover!Bind
  <2> QED
    BY <2>1, <2>2, <2>3, <2>4
<1>2. CASE Handover!Listen
  <2>1. Handover!TypeOK'
    BY <1>0, <1>2 DEF Handover!TypeOK, Handover!Listen
  <2>2. Process'
    BY <1>0, <1>2 DEF Handover!TypeOK, Process, Handover!Listen
  <2>3. Connections'
    BY <1>0, <1>2 DEF Connections, Open, Handover!Listen
  <2>4. Handover!SentIsReceived'
    BY <1>0, <1>2, <1>w DEF Handover!SentIsReceived, Handover!Listen
  <2> QED
    BY <2>1, <2>2, <2>3, <2>4
<1>3. CASE Handover!Select
  <2>1. Handover!TypeOK'
    BY <1>0, <1>3 DEF Handover!TypeOK, Handover!Select, Handover!GivesUp
  <2>2. Process'
    BY <1>0, <1>3 DEF Handover!TypeOK, Process, Handover!Select, Handover!GivesUp
  <2>3. Connections'
    BY <1>0, <1>3 DEF Connections, Open, Handover!Select
  <2>4. Handover!SentIsReceived'
    BY <1>0, <1>3, <1>w DEF Handover!SentIsReceived, Handover!Select, Handover!GivesUp
  <2> QED
    BY <2>1, <2>2, <2>3, <2>4
<1>4. CASE Handover!Accept
  <2>1. CASE Handover!GivesUp /\ UNCHANGED <<backlog, accepted>>
    <3>1. Handover!TypeOK'
      BY <1>0, <1>4, <2>1 DEF Handover!TypeOK, Handover!Accept, Handover!GivesUp
    <3>2. Process'
      BY <1>0, <1>4, <2>1 DEF Handover!TypeOK, Process, Handover!Accept, Handover!GivesUp
    <3>3. Connections'
      BY <1>0, <1>4, <2>1 DEF Connections, Open, Handover!Accept
    <3>4. Handover!SentIsReceived'
      BY <1>0, <1>4, <1>w, <2>1 DEF Handover!SentIsReceived, Handover!Accept, Handover!GivesUp
    <3> QED
      BY <3>1, <3>2, <3>3, <3>4
  <2>2. CASE ~(Handover!GivesUp /\ UNCHANGED <<backlog, accepted>>)
    <3>1. /\ tun = "accept" /\ tun' = "recv" /\ backlog # <<>> /\ backlog' = Tail(backlog)
          /\ accepted' = Head(backlog) /\ missed' = missed /\ took' = took /\ fd' = fd
          /\ listener' = listener /\ sender' = sender /\ tries' = tries /\ conn' = conn
          /\ peer' = peer /\ starts' = starts
      BY <1>4, <2>2 DEF Handover!Accept
    <3>2. backlog \in Seq(1 .. MaxStarts) /\ Distinct(backlog) /\ accepted = 0
      BY <1>0, <3>1 DEF Handover!TypeOK, Connections, Process
    <3>3. accepted' \in 1 .. MaxStarts /\ backlog' \in Seq(1 .. MaxStarts)
      BY <3>1, <3>2, TailFacts
    <3>4. /\ Elems(backlog) = Elems(backlog') \union {accepted'}
          /\ accepted' \notin Elems(backlog') /\ Distinct(backlog')
      BY <3>1, <3>2, TailElems
    <3>5. \A s \in 1 .. MaxStarts : s \in Open' <=> s \in Open
      BY <3>2, <3>4 DEF Open
    <3>6. Handover!TypeOK'
      <4>1. accepted' \in 0 .. MaxStarts
        BY <3>3
      <4> QED
        BY <1>0, <3>1, <3>3, <4>1 DEF Handover!TypeOK
    <3>7. Process'
      BY <1>0, <3>1, <3>3 DEF Process
    <3>8. Connections'
      BY <1>0, <3>1, <3>4, <3>5 DEF Connections
    <3>9. Handover!SentIsReceived'
      BY <1>0, <1>w, <3>1, <3>5 DEF Handover!SentIsReceived, Open
    <3> QED
      BY <3>6, <3>7, <3>8, <3>9
  <2> QED
    BY <2>1, <2>2
<1>5. CASE Handover!AncilRecvFd
  <2>1. /\ tun = "recv" /\ conn[accepted] = "sent" /\ fd' = "tun" /\ tun' = "close"
        /\ took' = [took EXCEPT ![starts] = accepted] /\ accepted' = 0
        /\ conn' = [conn EXCEPT ![accepted] = "closed"] /\ listener' = listener
        /\ backlog' = backlog /\ sender' = sender /\ tries' = tries /\ missed' = missed
        /\ peer' = peer /\ starts' = starts
    BY <1>5 DEF Handover!AncilRecvFd
  <2>2. /\ accepted \in 1 .. MaxStarts /\ starts \in 1 .. MaxStarts
        /\ took[starts] = 0 /\ accepted \in Open /\ peer[accepted] = starts
    <3>1. accepted \in 1 .. MaxStarts /\ starts \in 1 .. MaxStarts /\ took[starts] = 0
      BY <1>0, <2>1 DEF Handover!TypeOK, Process
    <3>2. accepted \in Open
      BY DEF Open
    <3> QED
      BY <1>0, <3>1, <3>2 DEF Connections
  <2>3. /\ conn'[accepted] = "closed"
        /\ \A s \in 1 .. MaxStarts : s # accepted => conn'[s] = conn[s]
        /\ took'[starts] = accepted
        /\ \A p \in 1 .. MaxStarts : p # starts => took'[p] = took[p]
    BY <1>0, <2>1, <2>2 DEF Handover!TypeOK
  <2>4. \A s \in 1 .. MaxStarts : s \in Open' <=> s \in Open /\ s # accepted
    BY <1>0, <2>1, <2>2 DEF Open, Connections
  <2>5. Handover!TypeOK'
    BY <1>0, <2>1, <2>2 DEF Handover!TypeOK
  <2>6. Process'
    <3>1. \A p \in 1 .. MaxStarts : p > starts => p # starts
      BY <2>2
    <3> QED
      BY <1>0, <2>1, <2>2, <2>3, <3>1 DEF Process
  <2>7. sender[accepted] = "done"
    BY <1>0, <2>1, <2>2 DEF Connections, Handover!TypeOK
  <2>8. Connections'
    <3>1. Distinct(backlog') /\ accepted' \notin Elems(backlog')
      <4>1. backlog \in Seq(1 .. MaxStarts) /\ Distinct(backlog)
        BY <1>0 DEF Handover!TypeOK, Connections
      <4> QED
        BY <2>1, <4>1 DEF Elems
    <3>2. \A s \in 1 .. MaxStarts :
            /\ s \in Open' <=> conn'[s] \in {"open", "sent"}
            /\ s \in Open' => peer'[s] = starts'
            /\ conn'[s] = "none" <=> peer'[s] = 0
            /\ sender'[s] \in {"idle", "retry", "failed"} => conn'[s] \in {"none", "reset"}
            /\ sender'[s] = "connected" => conn'[s] \in {"open", "reset"}
            /\ sender'[s] = "done" => conn'[s] \in {"sent", "closed", "reset"}
      BY <1>0, <2>1, <2>2, <2>3, <2>4, <2>7 DEF Connections
    <3>3. ASSUME NEW p \in 1 .. MaxStarts, took'[p] # 0
          PROVE  conn'[took'[p]] = "closed" /\ peer'[took'[p]] = p
      <4>1. CASE p = starts
        BY <2>1, <2>2, <2>3, <4>1
      <4>2. CASE p # starts
        <5>1. took'[p] = took[p] /\ took[p] \in 1 .. MaxStarts
          BY <1>0, <2>3, <3>3, <4>2 DEF Handover!TypeOK
        <5>2. conn[took[p]] = "closed" /\ peer[took[p]] = p
          BY <1>0, <3>3, <5>1 DEF Connections
        <5> QED
          BY <2>1, <2>3, <5>1, <5>2
      <4> QED
        BY <4>1, <4>2
    <3> QED
      BY <3>1, <3>2, <3>3 DEF Connections
  <2>9. Handover!SentIsReceived'
    <3> SUFFICES ASSUME NEW s \in 1 .. MaxStarts, sender[s] = "done"
                 PROVE  \/ /\ conn'[s] = "sent" /\ s \in Open' /\ peer[s] = starts
                        \/ took'[peer[s]] = s
                        \/ conn'[s] = "reset" /\ (peer[s] \in missed \/ took'[peer[s]] \notin {0, s})
      BY <1>w, <2>1 DEF Handover!SentIsReceived, Open
    <3>1. CASE s = accepted
      BY <2>2, <2>3, <3>1
    <3>2. CASE s # accepted
      <4>1. conn'[s] = conn[s] /\ (s \in Open' <=> s \in Open)
        BY <2>3, <2>4, <3>2
      <4>2. peer[s] \in 1 .. MaxStarts
        <5>1. peer[s] \in 0 .. MaxStarts
          BY <1>0 DEF Handover!TypeOK
        <5>2. peer[s] # 0
          BY <1>0 DEF Connections
        <5> QED
          BY <5>1, <5>2
      <4>3. took[peer[s]] # 0 => took'[peer[s]] = took[peer[s]]
        BY <2>2, <2>3, <4>2
      <4>4. \/ conn[s] = "sent" /\ s \in Open /\ peer[s] = starts
            \/ took[peer[s]] = s
            \/ conn[s] = "reset" /\ (peer[s] \in missed \/ took[peer[s]] \notin {0, s})
        BY <1>0, <1>w DEF Handover!SentIsReceived, Open
      <4>5. s # 0
        OBVIOUS
      <4> QED
        BY <4>1, <4>3, <4>4, <4>5
    <3> QED
      BY <3>1, <3>2
  <2> QED
    BY <2>5, <2>6, <2>8, <2>9
<1>6. CASE Handover!AncilRecvFails
  <2>1. /\ tun = "recv" /\ tun' = "close" /\ missed' = missed \union {starts} /\ fd' = fd
        /\ Handover!Reset({accepted}) /\ accepted' = 0 /\ listener' = listener
        /\ backlog' = backlog /\ sender' = sender /\ tries' = tries /\ peer' = peer
        /\ took' = took /\ starts' = starts
    BY <1>6 DEF Handover!AncilRecvFails, Handover!GivesUp
  <2>2. Handover!TypeOK'
    <3>1. conn' \in [1 .. MaxStarts -> {"none", "open", "sent", "reset", "closed"}]
      BY <1>0, <2>1 DEF Handover!TypeOK, Handover!Reset
    <3>2. missed' \subseteq 1 .. MaxStarts /\ accepted' \in 0 .. MaxStarts
      BY <1>0, <2>1 DEF Handover!TypeOK
    <3> QED
      BY <1>0, <2>1, <3>1, <3>2 DEF Handover!TypeOK
  <2>3. Process'
    BY <1>0, <2>1 DEF Process
  <2>4. /\ Distinct(backlog') /\ accepted' \notin Elems(backlog')
        /\ \A s \in 1 .. MaxStarts :
              (s \in Open' <=> s \in Open /\ s \notin {accepted}) /\ (s \in {accepted} => s \in Open)
    <3>1. backlog \in Seq(1 .. MaxStarts) /\ Distinct(backlog) /\ accepted \notin Elems(backlog)
      BY <1>0 DEF Handover!TypeOK, Connections
    <3>2. 0 \notin Elems(backlog)
      BY <3>1 DEF Elems
    <3> QED
      BY <2>1, <3>1, <3>2 DEF Open
  <2>5. Connections' /\ Handover!SentIsReceived'
    BY <2>1, <2>4, HandoverReset
  <2> QED
    BY <2>2, <2>3, <2>5
<1>7. ASSUME backlog' = <<>>, accepted' = 0
      PROVE  /\ Distinct(backlog') /\ accepted' \notin Elems(backlog')
             /\ \A s \in 1 .. MaxStarts : s \notin Open'
  BY <1>7 DEF Distinct, Elems, Open
<1>8. CASE Handover!Return
  <2>1. /\ tun = "close" /\ tun' = "init" /\ listener' = "none" /\ backlog' = <<>>
        /\ fd' \in {fd, "none", "bad", "other"} /\ Handover!Reset(Elems(backlog))
        /\ accepted' = accepted /\ sender' = sender /\ tries' = tries /\ missed' = missed
        /\ peer' = peer /\ took' = took /\ starts' = starts
    BY <1>8, <1>w DEF Handover!Return, Handover!Garbage
  <2>2. Handover!TypeOK'
    <3>1. conn' \in [1 .. MaxStarts -> {"none", "open", "sent", "reset", "closed"}]
      BY <1>0, <2>1 DEF Handover!TypeOK, Handover!Reset
    <3>2. missed' \subseteq 1 .. MaxStarts /\ accepted' \in 0 .. MaxStarts
      BY <1>0, <2>1 DEF Handover!TypeOK
    <3>3. backlog' \in Seq(1 .. MaxStarts)
      BY <2>1
    <3> QED
      BY <1>0, <2>1, <3>1, <3>2, <3>3 DEF Handover!TypeOK
  <2>3. Process'
    BY <1>0, <2>1 DEF Process
  <2>4. accepted = 0 /\ (starts \in missed \/ took[starts] # 0)
    BY <1>0, <2>1 DEF Process
  <2>5. Connections' /\ Handover!SentIsReceived'
    <3>1. \A s \in 1 .. MaxStarts : s \in Elems(backlog) <=> s \in Open
      BY <2>4 DEF Open
    <3> QED
      BY <1>7, <2>1, <2>4, <3>1, HandoverReset
  <2> QED
    BY <2>2, <2>3, <2>5
<1>9. CASE Handover!Main
  <2>1. Handover!TypeOK'
    BY <1>0, <1>9 DEF Handover!TypeOK, Handover!Main
  <2>2. Process'
    BY <1>0, <1>9 DEF Handover!TypeOK, Process, Handover!Main
  <2>3. Connections'
    BY <1>0, <1>9 DEF Connections, Open, Handover!Main
  <2>4. Handover!SentIsReceived'
    BY <1>0, <1>9, <1>w DEF Handover!SentIsReceived, Handover!Main
  <2> QED
    BY <2>1, <2>2, <2>3, <2>4
<1>10. CASE Handover!Exit
  <2>1. /\ tun # "exited" /\ tun' = "exited" /\ listener' = "none" /\ backlog' = <<>>
        /\ accepted' = 0 /\ fd' = fd /\ Handover!Reset(Open)
        /\ missed' = IF took[starts] = 0 THEN missed \union {starts} ELSE missed
        /\ sender' = sender /\ tries' = tries /\ peer' = peer
        /\ took' = took /\ starts' = starts
    BY <1>10, <1>w DEF Handover!Exit, Open
  <2>2. Handover!TypeOK'
    <3>1. conn' \in [1 .. MaxStarts -> {"none", "open", "sent", "reset", "closed"}]
      BY <1>0, <2>1 DEF Handover!TypeOK, Handover!Reset
    <3>2. missed' \subseteq 1 .. MaxStarts /\ accepted' \in 0 .. MaxStarts
      BY <1>0, <2>1 DEF Handover!TypeOK
    <3>3. backlog' \in Seq(1 .. MaxStarts)
      BY <2>1
    <3> QED
      BY <1>0, <2>1, <3>1, <3>2, <3>3 DEF Handover!TypeOK
  <2>3. Process'
    BY <1>0, <2>1 DEF Process
  <2>4. missed \subseteq missed' /\ (starts \in missed' \/ took[starts] # 0)
    BY <2>1
  <2>5. Connections' /\ Handover!SentIsReceived'
    BY <1>7, <2>1, <2>4, HandoverReset
  <2> QED
    BY <2>2, <2>3, <2>5
<1>11. CASE Handover!Restart
  <2>1. /\ tun = "exited" /\ tun' = "start" /\ fd' = "unset" /\ starts' = starts + 1
        /\ starts + 1 \in 1 .. MaxStarts /\ sender' = [sender EXCEPT ![starts + 1] = "retry"]
        /\ listener' = listener /\ backlog' = backlog /\ tries' = tries /\ conn' = conn
        /\ peer' = peer /\ accepted' = accepted /\ missed' = missed /\ took' = took
    BY <1>0, <1>11 DEF Handover!TypeOK, Handover!Restart
  <2>2. /\ starts \in Nat /\ sender[starts + 1] = "idle" /\ sender'[starts + 1] = "retry"
        /\ \A s \in 1 .. MaxStarts : s # starts + 1 => sender'[s] = sender[s]
    BY <1>0, <2>1 DEF Handover!TypeOK, Process
  <2>3. backlog = <<>> /\ accepted = 0
    BY <1>0, <2>1 DEF Process
  <2>4. \A s \in 1 .. MaxStarts : s \notin Open /\ s \notin Open'
    BY <2>1, <2>3 DEF Open, Elems
  <2>5. Handover!TypeOK'
    BY <1>0, <2>1 DEF Handover!TypeOK
  <2>6. Process'
    <3>1. took[starts + 1] = 0
      BY <1>0, <2>1, <2>2 DEF Process
    <3>2. \A p \in 1 .. MaxStarts : p > starts + 1 => p > starts /\ p # starts + 1
      BY <2>2
    <3> QED
      BY <1>0, <2>1, <2>2, <2>3, <3>1, <3>2 DEF Process
  <2>7. Connections'
    BY <1>0, <2>1, <2>2, <2>4 DEF Connections
  <2>8. Handover!SentIsReceived'
    <3>1. \A s \in 1 .. MaxStarts : sender'[s] = "done" => sender[s] = "done" /\ s \notin Open
      BY <2>2, <2>4
    <3> QED
      BY <1>0, <1>w, <2>1, <3>1 DEF Handover!SentIsReceived, Open
  <2> QED
    BY <2>5, <2>6, <2>7, <2>8
<1>12. ASSUME NEW s \in 1 .. MaxStarts, Handover!Fails(s), sender[s] \in {"retry", "connected"},
             conn[s] \in {"none", "reset"},
             UNCHANGED <<tun, fd, listener, backlog, conn, peer, accepted, missed, took, starts>>
      PROVE  HandoverInv'
  <2>1. /\ sender'[s] \in {"retry", "failed"}
        /\ \A x \in 1 .. MaxStarts : x # s => sender'[x] = sender[x]
    BY <1>0, <1>12 DEF Handover!TypeOK, Handover!Fails
  <2>2. Handover!TypeOK'
    <3>1. /\ tries' \in [1 .. MaxStarts -> 0 .. MaxTries]
          /\ sender' \in [1 .. MaxStarts -> {"idle", "retry", "connected", "done", "failed"}]
      <4>1. /\ tries \in [1 .. MaxStarts -> 0 .. MaxTries]
            /\ sender \in [1 .. MaxStarts -> {"idle", "retry", "connected", "done", "failed"}]
        BY <1>0 DEF Handover!TypeOK
      <4>2. CASE tries[s] >= MaxTries
        BY <1>12, <4>1, <4>2 DEF Handover!Fails
      <4>3. CASE ~(tries[s] >= MaxTries)
        <5>1. tries[s] + 1 \in 0 .. MaxTries
          BY <4>1, <4>3
        <5> QED
          BY <1>12, <4>1, <4>3, <5>1 DEF Handover!Fails
      <4> QED
        BY <4>2, <4>3
    <3> QED
      BY <1>0, <1>12, <3>1 DEF Handover!TypeOK
  <2>3. Process'
    BY <1>0, <1>12, <2>1 DEF Process
  <2>4. Connections'
    BY <1>0, <1>12, <2>1 DEF Connections, Open
  <2>5. Handover!SentIsReceived'
    BY <1>0, <1>12, <1>w, <2>1 DEF Handover!SentIsReceived
  <2> QED
    BY <2>2, <2>3, <2>4, <2>5 DEF HandoverInv
<1>13. ASSUME NEW s \in 1 .. MaxStarts, Handover!Connect(s) PROVE HandoverInv'
  <2>1. sender[s] = "retry" /\ conn[s] \in {"none", "reset"}
    BY <1>0, <1>13 DEF Connections, Handover!Connect
  <2>2. CASE listener # "listening"
    BY <1>12, <1>13, <2>1, <2>2 DEF Handover!Connect
  <2>3. CASE listener = "listening"
    <3>1. /\ sender' = [sender EXCEPT ![s] = "connected"] /\ conn' = [conn EXCEPT ![s] = "open"]
          /\ peer' = [peer EXCEPT ![s] = starts] /\ backlog' = Append(backlog, s)
          /\ tries' = tries /\ tun' = tun /\ fd' = fd /\ listener' = listener
          /\ accepted' = accepted /\ missed' = missed /\ took' = took /\ starts' = starts
      BY <1>13, <2>3 DEF Handover!Connect
    <3>2. /\ sender'[s] = "connected" /\ conn'[s] = "open" /\ peer'[s] = starts
          /\ \A x \in 1 .. MaxStarts : x # s =>
                sender'[x] = sender[x] /\ conn'[x] = conn[x] /\ peer'[x] = peer[x]
      BY <1>0, <3>1 DEF Handover!TypeOK
    <3>3. s \notin Open /\ starts # 0
      <4>1. s \notin Open
        BY <1>0, <2>1 DEF Connections
      <4>2. starts \in 1 .. MaxStarts
        BY <1>0 DEF Handover!TypeOK
      <4> QED
        BY <4>1, <4>2
    <3>4. /\ backlog' \in Seq(1 .. MaxStarts) /\ backlog' # <<>> /\ Distinct(backlog')
          /\ Elems(backlog') = Elems(backlog) \union {s}
      <4>1. backlog \in Seq(1 .. MaxStarts) /\ Distinct(backlog) /\ s \notin Elems(backlog)
        BY <1>0, <3>3 DEF Handover!TypeOK, Connections, Open
      <4> QED
        BY <3>1, <4>1, AppendElems
    <3>5. accepted' \notin Elems(backlog') /\ \A x \in 1 .. MaxStarts : x \in Open' <=> x \in Open \/ x = s
      BY <1>0, <3>1, <3>3, <3>4 DEF Connections, Open
    <3>6. Handover!TypeOK'
      <4>1. starts \in 0 .. MaxStarts
        BY <1>0 DEF Handover!TypeOK
      <4>2. peer' \in [1 .. MaxStarts -> 0 .. MaxStarts]
        BY <1>0, <3>1, <4>1 DEF Handover!TypeOK
      <4>3. /\ sender' \in [1 .. MaxStarts -> {"idle", "retry", "connected", "done", "failed"}]
            /\ conn' \in [1 .. MaxStarts -> {"none", "open", "sent", "reset", "closed"}]
        BY <1>0, <3>1 DEF Handover!TypeOK
      <4> QED
        BY <1>0, <3>1, <3>4, <4>2, <4>3 DEF Handover!TypeOK
    <3>7. Process'
      BY <1>0, <2>1, <2>3, <3>1, <3>2 DEF Process
    <3>8. Connections'
      <4>1. \A x \in 1 .. MaxStarts :
              /\ x \in Open' <=> conn'[x] \in {"open", "sent"}
              /\ x \in Open' => peer'[x] = starts'
              /\ conn'[x] = "none" <=> peer'[x] = 0
              /\ sender'[x] \in {"idle", "retry", "failed"} => conn'[x] \in {"none", "reset"}
              /\ sender'[x] = "connected" => conn'[x] \in {"open", "reset"}
              /\ sender'[x] = "done" => conn'[x] \in {"sent", "closed", "reset"}
        BY <1>0, <3>1, <3>2, <3>3, <3>5 DEF Connections
      <4>2. ASSUME NEW p \in 1 .. MaxStarts, took[p] # 0
            PROVE  conn'[took[p]] = "closed" /\ peer'[took[p]] = p
        <5>1. took[p] \in 1 .. MaxStarts /\ conn[took[p]] = "closed" /\ peer[took[p]] = p
          BY <1>0, <4>2 DEF Handover!TypeOK, Connections
        <5>2. took[p] # s
          BY <2>1, <5>1
        <5> QED
          BY <3>2, <5>1, <5>2
      <4> QED
        BY <3>1, <3>4, <3>5, <4>1, <4>2 DEF Connections
    <3>9. Handover!SentIsReceived'
      <4>1. \A x \in 1 .. MaxStarts : sender'[x] = "done" =>
               /\ sender[x] = "done" /\ conn'[x] = conn[x] /\ peer'[x] = peer[x]
               /\ (x \in Open => x \in Open')
        BY <3>2, <3>5
      <4> QED
        BY <1>0, <1>w, <3>1, <4>1 DEF Handover!SentIsReceived, Open
    <3> QED
      BY <3>6, <3>7, <3>8, <3>9 DEF HandoverInv
  <2> QED
    BY <2>2, <2>3
<1>14. ASSUME NEW s \in 1 .. MaxStarts, Handover!WriteFd(s) PROVE HandoverInv'
  <2>1. sender[s] = "connected" /\ conn[s] \in {"open", "reset"}
    BY <1>0, <1>14 DEF Connections, Handover!WriteFd
  <2>2. CASE conn[s] # "open"
    BY <1>12, <1>14, <2>1, <2>2 DEF Handover!WriteFd
  <2>3. CASE conn[s] = "open"
    <3>1. /\ sender' = [sender EXCEPT ![s] = "done"] /\ conn' = [conn EXCEPT ![s] = "sent"]
          /\ backlog' = backlog /\ tries' = tries /\ tun' = tun /\ fd' = fd
          /\ listener' = listener /\ accepted' = accepted /\ missed' = missed
          /\ peer' = peer /\ took' = took /\ starts' = starts
      BY <1>14, <2>3 DEF Handover!WriteFd
    <3>2. /\ sender'[s] = "done" /\ conn'[s] = "sent"
          /\ \A x \in 1 .. MaxStarts : x # s => sender'[x] = sender[x] /\ conn'[x] = conn[x]
      BY <1>0, <3>1 DEF Handover!TypeOK
    <3>3. Open' = Open /\ s \in Open /\ peer[s] = starts
      BY <1>0, <2>3, <3>1 DEF Connections, Open
    <3>4. Handover!TypeOK'
      BY <1>0, <3>1 DEF Handover!TypeOK
    <3>5. Process'
      BY <1>0, <2>1, <3>1, <3>2 DEF Process
    <3>6. Connections'
      <4>1. \A p \in 1 .. MaxStarts : took[p] # s
        BY <1>0, <2>3 DEF Connections
      <4>2. ASSUME NEW p \in 1 .. MaxStarts, took[p] # 0
            PROVE  conn'[took[p]] = "closed" /\ peer[took[p]] = p
        <5>1. took[p] \in 1 .. MaxStarts /\ conn[took[p]] = "closed" /\ peer[took[p]] = p
          BY <1>0, <4>2 DEF Handover!TypeOK, Connections
        <5> QED
          BY <3>2, <4>1, <5>1
      <4> QED
        BY <1>0, <2>3, <3>1, <3>2, <3>3, <4>2 DEF Connections
    <3>7. tun \in {"select", "accept", "recv", "close"}
      <4>1. s \in Elems(backlog) => backlog # <<>>
        BY DEF Elems
      <4>2. s = accepted => accepted # 0
        OBVIOUS
      <4> QED
        BY <1>0, <3>3, <4>1, <4>2 DEF Process, Open
    <3>8. Handover!SentIsReceived'
      BY <1>0, <1>w, <3>1, <3>2, <3>3, <3>7 DEF Handover!SentIsReceived, Open
    <3> QED
      BY <3>4, <3>5, <3>6, <3>8 DEF HandoverInv
  <2> QED
    BY <2>2, <2>3
<1> QED
  BY <1>1, <1>2, <1>3, <1>4, <1>5, <1>6, <1>8, <1>9, <1>10, <1>11, <1>13, <1>14
  DEF Handover!Next, Handover!Tun2Socks, Handover!SendFd, HandoverInv

\* Before tun2socks is started.
LEMMA HandoverInit == Handover!Init => HandoverInv
<1> USE HandoverBounds DEF Handover!Procs
<1> SUFFICES ASSUME Handover!Init PROVE HandoverInv
  OBVIOUS
<1>1. Handover!TypeOK
  BY DEF Handover!Init, Handover!TypeOK
<1>2. Process /\ Handover!SentIsReceived
  BY DEF Handover!Init, Process, Handover!SentIsReceived
<1>3. Connections
  BY DEF Handover!Init, Connections, Open, Elems, Distinct
<1> QED
  BY <1>1, <1>2, <1>3 DEF HandoverInv

\* What the component promises.
LEMMA HandoverPromise == HandoverInv => Handover!FailureIsReal
<1> SUFFICES ASSUME HandoverInv PROVE Handover!FailureIsReal
  OBVIOUS
<1>1. Handover!TypeOK /\ Connections
  BY DEF HandoverInv
<1>2. ASSUME NEW p \in 1 .. MaxStarts, took[p] # 0
      PROVE  peer[took[p]] = p /\ sender[took[p]] = "done"
  <2>1. took[p] \in 1 .. MaxStarts /\ conn[took[p]] = "closed" /\ peer[took[p]] = p
    BY <1>1, <1>2, HandoverBounds DEF Handover!TypeOK, Handover!Procs, Connections
  <2>2. sender[took[p]] \in {"idle", "retry", "connected", "done", "failed"}
    BY <1>1, <2>1 DEF Handover!TypeOK, Handover!Procs
  <2> QED
    BY <1>1, <2>1, <2>2 DEF Connections
<1> QED
  BY <1>2 DEF Handover!FailureIsReal, Handover!Procs

-----------------------------------------------------------------------------
(* DefaultNetworkListener *)

\* Only services start to listen and only coroutines stop, so that nobody ever
\* does; the callback is registered while somebody listens, and before that nothing
\* is known of any network.
Keys ==
    /\ \A i \in DOMAIN mail : mail[i][1] = "Start" => mail[i][2] \in Services
    /\ \A i \in DOMAIN mail : mail[i][1] = "Stop" => mail[i][2] = "coroutine"
    /\ ~calledBack => \A i \in DOMAIN mail : mail[i][1] \notin {"Put", "Update", "Lost"}

Listening ==
    /\ calledBack <=> listeners # {}
    /\ ~calledBack => network = "none"
    /\ \A k \in Services : underlying[k] = IF k \in listeners THEN network ELSE "none"

\* Before a Get somebody listens.
Asking ==
    \A i \in DOMAIN mail : mail[i][1] = "Get" =>
        listeners # {} \/ \E j \in DOMAIN mail : j < i /\ mail[j][1] = "Start"

\* Network x, put at position i of the mail m, is the default network a in the end.
Remains(m, a, x, i) ==
    IF a = "none"
    THEN x = "none" \/ \E j \in DOMAIN m : j > i /\ m[j][1] = "Lost" /\ m[j][2] = x
    ELSE x = a /\ \A j \in DOMAIN m : j > i /\ m[j][1] = "Lost" => m[j][2] # x

LastPut(m, i) == m[i][1] = "Put" /\ \A j \in DOMAIN m : j > i => m[j][1] # "Put"

\* The mail m leads from network n to the default network a: by its last Put, or
\* without one by what the actor has.
LeadsTo(m, a, n) ==
    /\ \A i \in DOMAIN m : LastPut(m, i) => Remains(m, a, m[i][2], i)
    /\ (\A i \in DOMAIN m : m[i][1] # "Put") => Remains(m, a, n, 0)

Leads == calledBack => LeadsTo(mail, available, network)

NetworkInv ==
    Network!TypeOK /\ Keys /\ Listening /\ Asking /\ Leads /\ Network!SessionListens

\* The actor takes a message.
LEMMA LeadsTail ==
    ASSUME NEW S, NEW m \in Seq(S), m # <<>>, NEW a, NEW n, LeadsTo(m, a, n)
    PROVE  /\ m[1][1] = "Put" => LeadsTo(Tail(m), a, m[1][2])
           /\ m[1][1] = "Lost" => LeadsTo(Tail(m), a, IF n = m[1][2] THEN "none" ELSE n)
           /\ m[1][1] \notin {"Put", "Lost"} => LeadsTo(Tail(m), a, n)
<1> DEFINE r == Tail(m)
<1>1. /\ 1 \in DOMAIN m
      /\ \A i \in DOMAIN r : i \in Nat \ {0} /\ i + 1 \in DOMAIN m /\ r[i] = m[i + 1]
      /\ \A i \in DOMAIN m : i \in Nat \ {0} /\ (i # 1 => i - 1 \in DOMAIN r /\ r[i - 1] = m[i])
  BY TailFacts
<1> HIDE DEF r
<1>2. ASSUME NEW i \in Nat, NEW x PROVE Remains(m, a, x, i + 1) => Remains(r, a, x, i)
  <2>1. \A j \in DOMAIN m : j > i + 1 => j - 1 \in DOMAIN r /\ j - 1 > i /\ r[j - 1] = m[j]
    BY <1>1
  <2>2. \A j \in DOMAIN r : j > i => j + 1 \in DOMAIN m /\ j + 1 > i + 1 /\ r[j] = m[j + 1]
    BY <1>1
  <2> QED
    BY <2>1, <2>2 DEF Remains
<1>3. ASSUME NEW i \in DOMAIN r, LastPut(r, i) PROVE Remains(r, a, r[i][2], i)
  <2>1. i \in Nat /\ i + 1 \in DOMAIN m /\ r[i] = m[i + 1]
    BY <1>1
  <2>2. ASSUME NEW j \in DOMAIN m, j > i + 1 PROVE m[j][1] # "Put"
    <3>1. j - 1 \in DOMAIN r /\ j - 1 > i /\ r[j - 1] = m[j]
      BY <1>1, <2>1, <2>2
    <3> QED
      BY <1>3, <3>1 DEF LastPut
  <2>3. LastPut(m, i + 1)
    BY <1>3, <2>1, <2>2 DEF LastPut
  <2> QED
    BY <1>2, <2>1, <2>3 DEF LeadsTo
<1>4. ASSUME \A i \in DOMAIN r : r[i][1] # "Put"
      PROVE  \A j \in DOMAIN m : j # 1 => m[j][1] # "Put"
  BY <1>1, <1>4
<1>5. ASSUME m[1][1] = "Put", \A i \in DOMAIN r : r[i][1] # "Put"
      PROVE  Remains(r, a, m[1][2], 0)
  <2>1. \A j \in DOMAIN m : j > 1 => m[j][1] # "Put"
    BY <1>1, <1>4, <1>5
  <2>2. LastPut(m, 1)
    BY <1>5, <2>1 DEF LastPut
  <2>3. Remains(m, a, m[1][2], 0 + 1)
    BY <1>1, <2>2 DEF LeadsTo
  <2> QED
    BY <1>2, <2>3
<1>6. ASSUME m[1][1] # "Put", \A i \in DOMAIN r : r[i][1] # "Put"
      PROVE  Remains(m, a, n, 0)
  BY <1>1, <1>4, <1>6 DEF LeadsTo
<1>7. ASSUME m[1][1] = "Lost", \A i \in DOMAIN r : r[i][1] # "Put"
      PROVE  Remains(r, a, IF n = m[1][2] THEN "none" ELSE n, 0)
  <2>1. Remains(m, a, n, 0)
    BY <1>6, <1>7
  <2>2. \A j \in DOMAIN m : j > 0
    BY <1>1
  <2>3. CASE n = m[1][2]
    <3>1. a = "none"
      BY <1>1, <1>7, <2>1, <2>2, <2>3 DEF Remains
    <3> QED
      BY <2>3, <3>1 DEF Remains
  <2>4. CASE n # m[1][2]
    <3>1. \A j \in DOMAIN m : m[j][2] = n => j # 1
      BY <2>4
    <3>2. Remains(m, a, n, 0 + 1)
      <4>1. \A j \in DOMAIN m : m[j][2] = n => j > 0 + 1
        BY <1>1, <3>1
      <4> QED
        BY <2>1, <2>2, <4>1 DEF Remains
    <3> QED
      BY <1>2, <2>4, <3>2
  <2> QED
    BY <2>3, <2>4
<1>8. ASSUME m[1][1] \notin {"Put", "Lost"}, \A i \in DOMAIN r : r[i][1] # "Put"
      PROVE  Remains(r, a, n, 0)
  <2>1. Remains(m, a, n, 0)
    BY <1>6, <1>8
  <2>2. \A j \in DOMAIN m : m[j][1] = "Lost" => j > 0 + 1
    BY <1>1, <1>8
  <2>3. Remains(m, a, n, 0 + 1)
    BY <1>1, <2>1, <2>2 DEF Remains
  <2> QED
    BY <1>2, <2>3
<1>9. /\ m[1][1] = "Put" => LeadsTo(r, a, m[1][2])
      /\ m[1][1] = "Lost" => LeadsTo(r, a, IF n = m[1][2] THEN "none" ELSE n)
      /\ m[1][1] \notin {"Put", "Lost"} => LeadsTo(r, a, n)
  BY <1>3, <1>5, <1>7, <1>8 DEF LeadsTo
<1> QED
  BY <1>9 DEF r

\* A message is added that says nothing of the default network; the default network
\* is put; another network is lost; the default network itself is lost.
LEMMA LeadsAppend ==
    ASSUME NEW S, NEW m \in Seq(S), NEW a, NEW n, NEW x
    PROVE  /\ LeadsTo(m, a, n) /\ x[1] \notin {"Put", "Lost"} => LeadsTo(Append(m, x), a, n)
           /\ a # "none" /\ x[1] = "Put" /\ x[2] = a => LeadsTo(Append(m, x), a, n)
           /\ LeadsTo(m, a, n) /\ a # "none" /\ x[1] = "Lost" /\ x[2] # a
                 => LeadsTo(Append(m, x), a, n)
           /\ LeadsTo(m, a, n) /\ a # "none" /\ x[1] = "Lost" /\ x[2] = a
                 => LeadsTo(Append(m, x), "none", n)
<1> DEFINE r == Append(m, x)
           l == Len(m) + 1
<1>1. /\ l \in Nat /\ l \in DOMAIN r /\ r[l] = x
      /\ \A i \in DOMAIN m : i \in Nat \ {0} /\ i \in DOMAIN r /\ r[i] = m[i] /\ i < l
      /\ \A i \in DOMAIN r : i \in Nat \ {0} /\ (i # l => i \in DOMAIN m)
  <2>1. /\ Len(m) \in Nat /\ DOMAIN m = 1 .. Len(m) /\ DOMAIN r = 1 .. Len(m) + 1
        /\ r[Len(m) + 1] = x /\ \A i \in DOMAIN m : r[i] = m[i]
    BY AppendFacts
  <2> QED
    BY <2>1
<1> HIDE DEF r, l
<1>2. \A i \in DOMAIN r : LastPut(r, i) => IF x[1] = "Put" THEN i = l ELSE i \in DOMAIN m /\ LastPut(m, i)
  BY <1>1 DEF LastPut
<1>3. ASSUME LeadsTo(m, a, n), x[1] \notin {"Put", "Lost"} PROVE LeadsTo(r, a, n)
  <2>1. \A i, y : Remains(m, a, y, i) => Remains(r, a, y, i)
    BY <1>1, <1>3 DEF Remains
  <2> QED
    BY <1>1, <1>2, <1>3, <2>1 DEF LeadsTo
<1>4. ASSUME a # "none", x[1] = "Put", x[2] = a PROVE LeadsTo(r, a, n)
  <2>1. \A j \in DOMAIN r : ~(j > l)
    BY <1>1
  <2>2. Remains(r, a, r[l][2], l)
    BY <1>1, <1>4, <2>1 DEF Remains
  <2> QED
    BY <1>1, <1>2, <1>4, <2>2 DEF LeadsTo
<1>5. ASSUME LeadsTo(m, a, n), a # "none", x[1] = "Lost", x[2] # a PROVE LeadsTo(r, a, n)
  <2>1. \A i, y : Remains(m, a, y, i) => Remains(r, a, y, i)
    BY <1>1, <1>5 DEF Remains
  <2> QED
    BY <1>1, <1>2, <1>5, <2>1 DEF LeadsTo
<1>6. ASSUME LeadsTo(m, a, n), a # "none", x[1] = "Lost", x[2] = a PROVE LeadsTo(r, "none", n)
  <2>1. ASSUME NEW y, NEW i, i < l, Remains(m, a, y, i) PROVE Remains(r, "none", y, i)
    BY <1>1, <1>6, <2>1 DEF Remains
  <2>2. 0 < l
    BY <1>1
  <2> QED
    BY <1>1, <1>2, <1>6, <2>1, <2>2 DEF LeadsTo
<1> QED
  BY <1>3, <1>4, <1>5, <1>6 DEF r

Mails == Seq(Network!Message)

\* What a message may be about.
LEMMA Messages ==
    ASSUME NEW x \in Network!Message
    PROVE  /\ x[1] \in {"Put", "Update", "Lost"} => x[2] \in Nets
           /\ x[1] = "Get" => x[2] \in Gets
           /\ x[1] \in {"Start", "Stop", "Put", "Update", "Lost", "Get"}
BY DEF Network!Message

\* A message is sent that says nothing of the default network.
LEMMA NetworkSent ==
    ASSUME NetworkInv, NEW kind, NEW y, <<kind, y>> \in Network!Message,
           mail' = Append(mail, <<kind, y>>),
           kind \notin {"Put", "Lost"},
           kind = "Start" => y \in Services, kind = "Stop" => y = "coroutine",
           kind = "Update" => calledBack,
           kind = "Get" => session # "none",
           UNCHANGED <<available, calledBack, listeners, network, underlying>>
    PROVE  /\ mail' \in Mails /\ Keys' /\ Listening' /\ Asking' /\ Leads'
           /\ \A i \in DOMAIN mail : i \in DOMAIN mail' /\ mail'[i] = mail[i]
           /\ Len(mail) + 1 \in DOMAIN mail' /\ mail'[Len(mail) + 1] = <<kind, y>>
<1>1. mail \in Mails /\ Keys /\ Listening /\ Asking /\ Leads /\ Network!SessionListens
  BY DEF NetworkInv, Network!TypeOK, Mails
<1> DEFINE l == Len(mail) + 1
<1>2. /\ l \in Nat /\ l \in DOMAIN mail' /\ mail'[l] = <<kind, y>>
      /\ \A i \in DOMAIN mail : i \in Nat /\ i \in DOMAIN mail' /\ mail'[i] = mail[i] /\ i < l
      /\ \A i \in DOMAIN mail' : i # l => i \in DOMAIN mail
      /\ mail' \in Mails
  <2>1. /\ Len(mail) \in Nat /\ DOMAIN mail = 1 .. Len(mail) /\ DOMAIN mail' = 1 .. Len(mail) + 1
        /\ mail'[Len(mail) + 1] = <<kind, y>> /\ \A i \in DOMAIN mail : mail'[i] = mail[i]
        /\ mail' \in Mails
    BY <1>1, AppendFacts DEF Mails
  <2> QED
    BY <2>1
<1>3. <<kind, y>>[1] = kind /\ <<kind, y>>[2] = y
  OBVIOUS
<1> HIDE DEF l
<1>4. Keys'
  BY <1>1, <1>2, <1>3 DEF Keys
<1>5. Listening'
  BY <1>1 DEF Listening
<1>6. Asking'
  <2>1. ASSUME NEW i \in DOMAIN mail', mail'[i][1] = "Get"
        PROVE  listeners' # {} \/ \E j \in DOMAIN mail' : j < i /\ mail'[j][1] = "Start"
    <3>1. CASE i = l
      <4>1. session # "none"
        BY <1>2, <1>3, <2>1, <3>1
      <4>2. CASE session \in listeners
        BY <4>2
      <4>3. CASE session \notin listeners
        <5>1. PICK j \in DOMAIN mail : mail[j] = <<"Start", session>>
          BY <1>1, <4>1, <4>3 DEF Network!SessionListens, Network!NoNet
        <5>2. mail[j][1] = "Start"
          BY <5>1
        <5> QED
          BY <1>2, <3>1, <5>2
      <4> QED
        BY <4>2, <4>3
    <3>2. CASE i # l
      <4>1. i \in DOMAIN mail /\ mail[i][1] = "Get"
        BY <1>2, <2>1, <3>2
      <4> QED
        BY <1>1, <1>2, <4>1 DEF Asking
    <3> QED
      BY <3>1, <3>2
  <2> QED
    BY <2>1 DEF Asking
<1>7. Leads'
  <2>1. calledBack => LeadsTo(Append(mail, <<kind, y>>), available, network)
    BY <1>1, <1>3, LeadsAppend DEF Leads, Mails
  <2> QED
    BY <2>1 DEF Leads
<1> QED
  BY <1>2, <1>4, <1>5, <1>6, <1>7 DEF l

\* The actor takes a message.
LEMMA NetworkTaken ==
    ASSUME NetworkInv, mail # <<>>
    PROVE  /\ Tail(mail) \in Mails /\ Head(mail) = mail[1] /\ 1 \in DOMAIN mail
           /\ mail[1] \in Network!Message
           /\ \A i \in DOMAIN Tail(mail) :
                 i \in Nat \ {0} /\ i + 1 \in DOMAIN mail /\ Tail(mail)[i] = mail[i + 1]
           /\ \A i \in DOMAIN mail :
                 i \in Nat \ {0} /\ (i # 1 => i - 1 \in DOMAIN Tail(mail) /\ Tail(mail)[i - 1] = mail[i])
<1>1. mail \in Seq(Network!Message)
  BY DEF NetworkInv, Network!TypeOK
<1> QED
  BY <1>1, TailFacts DEF Mails

\* What holds of the messages behind it, if it is not a Start.
LEMMA NetworkTakes ==
    ASSUME NetworkInv, mail # <<>>, mail[1][1] # "Start", mail' = Tail(mail),
           listeners' = listeners, calledBack' = calledBack, session' = session
    PROVE  mail' \in Mails /\ Keys' /\ Asking' /\ Network!SessionListens'
<1>1. Keys /\ Asking /\ Network!SessionListens
  BY DEF NetworkInv
<1>2. /\ mail' \in Mails
      /\ \A i \in DOMAIN mail' : i \in Nat \ {0} /\ i + 1 \in DOMAIN mail /\ mail'[i] = mail[i + 1]
      /\ \A i \in DOMAIN mail :
            i \in Nat \ {0} /\ (i # 1 => i - 1 \in DOMAIN mail' /\ mail'[i - 1] = mail[i])
  BY NetworkTaken
<1>3. Keys'
  BY <1>1, <1>2 DEF Keys
<1>4. ASSUME NEW i \in DOMAIN mail', mail'[i][1] = "Get", listeners = {}
      PROVE  \E j \in DOMAIN mail' : j < i /\ mail'[j][1] = "Start"
  <2>1. i + 1 \in DOMAIN mail /\ mail[i + 1][1] = "Get" /\ i \in Nat
    BY <1>2, <1>4
  <2>2. PICK j \in DOMAIN mail : j < i + 1 /\ mail[j][1] = "Start"
    BY <1>1, <1>4, <2>1 DEF Asking
  <2>3. j - 1 \in DOMAIN mail' /\ mail'[j - 1] = mail[j] /\ j \in Nat
    BY <1>2, <2>2
  <2>4. j - 1 < i
    BY <2>1, <2>2, <2>3
  <2> QED
    BY <2>2, <2>3, <2>4
<1>5. Asking'
  BY <1>4 DEF Asking
<1>6. Network!SessionListens'
  <2>1. ASSUME NEW i \in DOMAIN mail, mail[i] = <<"Start", session>>
        PROVE  \E j \in DOMAIN mail' : mail'[j] = <<"Start", session>>
    <3>1. mail[i][1] = "Start"
      BY <2>1
    <3>2. i - 1 \in DOMAIN mail' /\ mail'[i - 1] = mail[i]
      BY <1>2, <3>1
    <3> QED
      BY <2>1, <3>2
  <2> QED
    BY <1>1, <2>1 DEF Network!SessionListens
<1> QED
  BY <1>2, <1>3, <1>5, <1>6

\* The bound and the names of this part.
LEMMA NetworkNames ==
    MaxEvents \in Nat /\ "none" \notin Nets \union Services /\ "coroutine" \notin Services
BY PartsAssumption DEF Network!NoNet, Network!Coroutine

\* Every step of VpnService, the actor and the system keeps it.
LEMMA NetworkStep ==
    ASSUME NetworkInv, Network!Next
    PROVE  NetworkInv'
<1> USE NetworkNames DEF Network!NoNet, Network!Coroutine
<1>0. Network!TypeOK /\ Keys /\ Listening /\ Asking /\ Leads /\ Network!SessionListens
  BY DEF NetworkInv
<1>1. ASSUME NEW k \in Services, Network!PreInit(k) PROVE NetworkInv'
  <2>1. /\ mail' = Append(mail, <<"Start", k>>) /\ session' = k
        /\ UNCHANGED <<available, calledBack, listeners, network, underlying, pending, get>>
        /\ events' = events + 1 /\ events < MaxEvents
    BY <1>1 DEF Network!PreInit, Network!Mail
  <2>2. <<"Start", k>> \in Network!Message
    BY DEF Network!Message
  <2>3. /\ mail' \in Mails /\ Keys' /\ Listening' /\ Asking' /\ Leads'
        /\ Len(mail) + 1 \in DOMAIN mail' /\ mail'[Len(mail) + 1] = <<"Start", k>>
    BY <2>1, <2>2, NetworkSent
  <2>4. Network!SessionListens'
    BY <2>1, <2>3 DEF Network!SessionListens
  <2>5. Network!TypeOK'
    BY <1>0, <2>1, <2>3 DEF Network!TypeOK, Mails
  <2> QED
    BY <2>3, <2>4, <2>5 DEF NetworkInv
<1>2. ASSUME NEW g \in Gets, Network!OpenConnection(g) PROVE NetworkInv'
  <2>1. /\ mail' = Append(mail, <<"Get", g>>) /\ session # "none" /\ session' = session
        /\ get' = [get EXCEPT ![g] = "waits"]
        /\ UNCHANGED <<available, calledBack, listeners, network, underlying, pending, events>>
    BY <1>2 DEF Network!OpenConnection, Network!Mail
  <2>2. <<"Get", g>> \in Network!Message
    BY DEF Network!Message
  <2>3. /\ mail' \in Mails /\ Keys' /\ Listening' /\ Asking' /\ Leads'
        /\ \A i \in DOMAIN mail : i \in DOMAIN mail' /\ mail'[i] = mail[i]
    BY <2>1, <2>2, NetworkSent
  <2>4. Network!SessionListens'
    BY <1>0, <2>1, <2>3 DEF Network!SessionListens
  <2>5. Network!TypeOK'
    BY <1>0, <2>1, <2>3 DEF Network!TypeOK, Mails
  <2> QED
    BY <2>3, <2>4, <2>5 DEF NetworkInv
<1>3. ASSUME Network!KillProcesses PROVE NetworkInv'
  <2>1. /\ mail' = Append(mail, <<"Stop", "coroutine">>) /\ session' = "none"
        /\ get' = [g \in Gets |-> IF get[g] = "waits" THEN "cancelled" ELSE get[g]]
        /\ UNCHANGED <<available, calledBack, listeners, network, underlying, pending, events>>
    BY <1>3 DEF Network!KillProcesses, Network!Mail
  <2>2. <<"Stop", "coroutine">> \in Network!Message
    BY DEF Network!Message
  <2>3. mail' \in Mails /\ Keys' /\ Listening' /\ Asking' /\ Leads'
    BY <2>1, <2>2, NetworkSent
  <2>4. Network!SessionListens'
    BY <2>1 DEF Network!SessionListens
  <2>5. Network!TypeOK'
    BY <1>0, <2>1, <2>3 DEF Network!TypeOK, Mails
  <2> QED
    BY <2>3, <2>4, <2>5 DEF NetworkInv
<1>4. ASSUME Network!HandleStart PROVE NetworkInv'
  <2>0. /\ mail # <<>> /\ Head(mail) = mail[1] /\ mail[1][1] = "Start" /\ 1 \in DOMAIN mail
        /\ Tail(mail) \in Mails
        /\ \A i \in DOMAIN Tail(mail) :
              i \in Nat \ {0} /\ i + 1 \in DOMAIN mail /\ Tail(mail)[i] = mail[i + 1]
        /\ \A i \in DOMAIN mail :
              i \in Nat \ {0} /\ (i # 1 => i - 1 \in DOMAIN Tail(mail) /\ Tail(mail)[i - 1] = mail[i])
    BY <1>4, NetworkTaken DEF Network!HandleStart, Network!Receives
  <2>1. PICK k \in Services : k = mail[1][2]
    BY <1>0, <2>0 DEF Keys
  <2>2. /\ listeners' = listeners \union {k} /\ calledBack' = TRUE
        /\ mail' = IF listeners = {} /\ available # "none"
                   THEN Append(Tail(mail), <<"Put", available>>) ELSE Tail(mail)
        /\ underlying' = IF network # "none" THEN [underlying EXCEPT ![k] = network]
                                             ELSE underlying
        /\ UNCHANGED <<available, network, pending, session, get, events>>
    BY <1>4, <2>0, <2>1 DEF Network!HandleStart, Network!Arg
  <2>3. /\ available # "none" => <<"Put", available>> \in Network!Message
        /\ mail' \in Mails
        /\ \A i \in DOMAIN Tail(mail) : i \in DOMAIN mail' /\ mail'[i] = Tail(mail)[i]
        /\ \A i \in DOMAIN mail' : mail'[i] = <<"Put", available>>
                                     \/ (i \in DOMAIN Tail(mail) /\ mail'[i] = Tail(mail)[i])
    <3>1. available # "none" => <<"Put", available>> \in Network!Message
      BY <1>0 DEF Network!TypeOK, Network!Message
    <3>2. CASE mail' = Tail(mail)
      BY <2>0, <3>1, <3>2
    <3>3. CASE mail' = Append(Tail(mail), <<"Put", available>>) /\ available # "none"
      <4>1. /\ Len(Tail(mail)) \in Nat /\ DOMAIN Tail(mail) = 1 .. Len(Tail(mail))
            /\ DOMAIN mail' = 1 .. Len(Tail(mail)) + 1
            /\ mail'[Len(Tail(mail)) + 1] = <<"Put", available>>
            /\ \A i \in DOMAIN Tail(mail) : mail'[i] = Tail(mail)[i]
            /\ mail' \in Mails
        BY <2>0, <3>1, <3>3, AppendFacts DEF Mails
      <4> QED
        BY <3>1, <4>1
    <3> QED
      BY <2>2, <3>2, <3>3
  <2>4. Keys'
    BY <1>0, <2>0, <2>2, <2>3 DEF Keys
  <2>5. underlying' \in [Services -> Nets \union {"none"}] /\ Listening'
    BY <1>0, <2>1, <2>2 DEF Network!TypeOK, Listening
  <2>6. Asking'
    BY <2>2 DEF Asking
  <2>7. Leads'
    <3>1. CASE listeners # {}
      <4>1. LeadsTo(Tail(mail), available, network)
        BY <1>0, <2>0, <3>1, LeadsTail DEF Leads, Listening, Network!TypeOK
      <4> QED
        BY <2>2, <3>1, <4>1 DEF Leads
    <3>2. CASE listeners = {} /\ available # "none"
      <4>1. LeadsTo(Append(Tail(mail), <<"Put", available>>), available, network)
        BY <2>0, <3>2, LeadsAppend DEF Mails
      <4> QED
        BY <2>2, <3>2, <4>1 DEF Leads
    <3>3. CASE listeners = {} /\ available = "none"
      <4>1. network = "none" /\ \A i \in DOMAIN Tail(mail) : Tail(mail)[i][1] # "Put"
        BY <1>0, <2>0, <3>3 DEF Keys, Listening
      <4>2. LeadsTo(Tail(mail), available, network)
        BY <3>3, <4>1 DEF LeadsTo, LastPut, Remains
      <4> QED
        BY <2>2, <3>3, <4>2 DEF Leads
    <3> QED
      BY <3>1, <3>2, <3>3
  <2>8. Network!SessionListens'
    <3>1. ASSUME NEW i \in DOMAIN mail, mail[i] = <<"Start", session>>
          PROVE  session = k \/ \E j \in DOMAIN mail' : mail'[j] = <<"Start", session>>
      <4>1. CASE i = 1
        BY <2>1, <3>1, <4>1
      <4>2. CASE i # 1
        <5>1. i - 1 \in DOMAIN mail' /\ mail'[i - 1] = mail[i]
          BY <2>0, <2>3, <4>2
        <5> QED
          BY <3>1, <5>1
      <4> QED
        BY <4>1, <4>2
    <3> QED
      BY <1>0, <2>2, <3>1 DEF Network!SessionListens
  <2>9. Network!TypeOK'
    BY <1>0, <2>1, <2>2, <2>3, <2>5 DEF Network!TypeOK, Mails
  <2> QED
    BY <2>4, <2>5, <2>6, <2>7, <2>8, <2>9 DEF NetworkInv
<1>5. ASSUME Network!HandleGet PROVE NetworkInv'
  <2>1. /\ mail # <<>> /\ Head(mail) = mail[1] /\ mail[1][1] = "Get" /\ mail[1] \in Network!Message
        /\ mail' = Tail(mail)
        /\ UNCHANGED <<available, calledBack, listeners, network, underlying, session, events>>
    BY <1>5, NetworkTaken DEF Network!HandleGet, Network!Receives
  <2>2. PICK g \in Gets : g = mail[1][2]
    BY <2>1, Messages
  <2>3. \/ pending' = pending \union {g} /\ get' = get
        \/ /\ get' = [h \in Gets |-> IF h = g /\ get[h] = "waits" THEN "done" ELSE get[h]]
           /\ pending' = pending
    BY <1>5, <2>1, <2>2 DEF Network!HandleGet, Network!Complete, Network!Arg
  <2>4. mail' \in Mails /\ Keys' /\ Asking' /\ Network!SessionListens'
    BY <2>1, NetworkTakes
  <2>5. Listening'
    BY <1>0, <2>1 DEF Listening
  <2>6. Leads'
    BY <1>0, <2>1, LeadsTail DEF Leads, Network!TypeOK
  <2>7. Network!TypeOK'
    BY <1>0, <2>1, <2>2, <2>3, <2>4 DEF Network!TypeOK, Mails
  <2> QED
    BY <2>4, <2>5, <2>6, <2>7 DEF NetworkInv
<1>6. ASSUME Network!HandleStop PROVE NetworkInv'
  <2>1. /\ mail # <<>> /\ Head(mail) = mail[1] /\ mail[1][1] = "Stop" /\ 1 \in DOMAIN mail
        /\ mail' = Tail(mail)
        /\ UNCHANGED <<available, pending, underlying, session, get, events>>
    BY <1>6, NetworkTaken DEF Network!HandleStop, Network!Receives
  <2>2. mail[1][2] = "coroutine" /\ "coroutine" \notin listeners
    BY <1>0, <2>1 DEF Keys, Network!TypeOK
  <2>3. listeners' = listeners /\ network' = network /\ calledBack' = calledBack
    BY <1>6, <2>1, <2>2 DEF Network!HandleStop, Network!Arg
  <2>4. mail' \in Mails /\ Keys' /\ Asking' /\ Network!SessionListens'
    BY <2>1, <2>3, NetworkTakes
  <2>5. Listening'
    BY <1>0, <2>1, <2>3 DEF Listening
  <2>6. Leads'
    BY <1>0, <2>1, <2>3, LeadsTail DEF Leads, Network!TypeOK
  <2>7. Network!TypeOK'
    BY <1>0, <2>1, <2>3, <2>4 DEF Network!TypeOK, Mails
  <2> QED
    BY <2>4, <2>5, <2>6, <2>7 DEF NetworkInv
<1>7. ASSUME Network!HandlePut PROVE NetworkInv'
  <2>1. /\ mail # <<>> /\ Head(mail) = mail[1] /\ mail[1][1] = "Put" /\ mail[1] \in Network!Message
        /\ mail' = Tail(mail) /\ 1 \in DOMAIN mail
        /\ UNCHANGED <<available, calledBack, listeners, session, events>>
    BY <1>7, NetworkTaken DEF Network!HandlePut, Network!Receives
  <2>2. PICK n \in Nets : n = mail[1][2]
    BY <2>1, Messages
  <2>3. /\ network' = n /\ pending' = {}
        /\ get' = [g \in Gets |-> IF g \in pending /\ get[g] = "waits" THEN "done" ELSE get[g]]
        /\ underlying' = [k \in Services |-> IF k \in listeners THEN n ELSE underlying[k]]
    BY <1>7, <2>1, <2>2 DEF Network!HandlePut, Network!Complete, Network!Tell, Network!Arg
  <2>4. mail' \in Mails /\ Keys' /\ Asking' /\ Network!SessionListens'
    BY <2>1, NetworkTakes
  <2>5. calledBack
    BY <1>0, <2>1 DEF Keys
  <2>6. Listening'
    BY <1>0, <2>1, <2>3, <2>5 DEF Listening
  <2>7. Leads'
    <3>1. LeadsTo(Tail(mail), available, n)
      BY <1>0, <2>1, <2>2, <2>5, LeadsTail DEF Leads, Network!TypeOK
    <3> QED
      BY <2>1, <2>3, <3>1 DEF Leads
  <2>8. Network!TypeOK'
    BY <1>0, <2>1, <2>2, <2>3, <2>4 DEF Network!TypeOK, Mails
  <2> QED
    BY <2>4, <2>6, <2>7, <2>8 DEF NetworkInv
<1>8. ASSUME Network!HandleUpdate PROVE NetworkInv'
  <2>1. /\ mail # <<>> /\ Head(mail) = mail[1] /\ mail[1][1] = "Update" /\ mail[1] \in Network!Message
        /\ mail' = Tail(mail)
        /\ UNCHANGED <<available, calledBack, listeners, network, pending, session, get, events>>
    BY <1>8, NetworkTaken DEF Network!HandleUpdate, Network!Receives
  <2>2. PICK n \in Nets : n = mail[1][2]
    BY <2>1, Messages
  <2>3. IF network = n
        THEN underlying' = [k \in Services |-> IF k \in listeners THEN n ELSE underlying[k]]
        ELSE underlying' = underlying
    BY <1>8, <2>1, <2>2 DEF Network!HandleUpdate, Network!Tell, Network!Arg
  <2>4. mail' \in Mails /\ Keys' /\ Asking' /\ Network!SessionListens'
    BY <2>1, NetworkTakes
  <2>5. Listening'
    BY <1>0, <2>1, <2>3 DEF Listening
  <2>6. Leads'
    BY <1>0, <2>1, LeadsTail DEF Leads, Network!TypeOK
  <2>7. Network!TypeOK'
    BY <1>0, <2>1, <2>2, <2>3, <2>4 DEF Network!TypeOK, Mails
  <2> QED
    BY <2>4, <2>5, <2>6, <2>7 DEF NetworkInv
<1>9. ASSUME Network!HandleLost PROVE NetworkInv'
  <2>1. /\ mail # <<>> /\ Head(mail) = mail[1] /\ mail[1][1] = "Lost" /\ mail[1] \in Network!Message
        /\ mail' = Tail(mail)
        /\ UNCHANGED <<available, calledBack, listeners, pending, session, get, events>>
    BY <1>9, NetworkTaken DEF Network!HandleLost, Network!Receives
  <2>2. PICK n \in Nets : n = mail[1][2]
    BY <2>1, Messages
  <2>3. IF network = n
        THEN /\ network' = "none"
             /\ underlying' = [k \in Services |-> IF k \in listeners THEN "none" ELSE underlying[k]]
        ELSE network' = network /\ underlying' = underlying
    BY <1>9, <2>1, <2>2 DEF Network!HandleLost, Network!Tell, Network!Arg
  <2>4. mail' \in Mails /\ Keys' /\ Asking' /\ Network!SessionListens'
    BY <2>1, NetworkTakes
  <2>5. Listening'
    BY <1>0, <2>1, <2>3 DEF Listening
  <2>6. Leads'
    <3>1. calledBack => LeadsTo(Tail(mail), available, IF network = n THEN "none" ELSE network)
      BY <1>0, <2>1, <2>2, LeadsTail DEF Leads, Network!TypeOK
    <3> QED
      BY <2>1, <2>3, <3>1 DEF Leads
  <2>7. Network!TypeOK'
    BY <1>0, <2>1, <2>2, <2>3, <2>4 DEF Network!TypeOK, Mails
  <2> QED
    BY <2>4, <2>5, <2>6, <2>7 DEF NetworkInv
<1>10. ASSUME NEW n \in Nets \union {"none"}, Network!NetworkChanges(n) PROVE NetworkInv'
  <2>1. /\ n # available /\ available' = n /\ events < MaxEvents /\ events' = events + 1
        /\ UNCHANGED <<calledBack, listeners, network, pending, underlying, session, get>>
    BY <1>10 DEF Network!NetworkChanges
  <2>2. Listening'
    BY <1>0, <2>1 DEF Listening
  <2>3. mail \in Mails
    BY <1>0 DEF Network!TypeOK, Mails
  <2>4. CASE ~calledBack
    <3>1. mail' = mail
      BY <1>10, <2>4 DEF Network!NetworkChanges
    <3> QED
      BY <1>0, <2>1, <2>2, <2>4, <3>1
      DEF NetworkInv, Network!TypeOK, Keys, Asking, Leads, Network!SessionListens
  <2>5. CASE calledBack
    <3>1. /\ n # "none" => <<"Put", n>> \in Network!Message
          /\ available # "none" => <<"Lost", available>> \in Network!Message
      BY <1>0 DEF Network!TypeOK, Network!Message
    <3>2. PICK put, gone : put = <<"Put", n>> /\ gone = <<"Lost", available>>
      OBVIOUS
    <3>3. put[1] = "Put" /\ put[2] = n /\ gone[1] = "Lost" /\ gone[2] = available
      BY <3>2
    <3>4. LeadsTo(mail, available, network)
      BY <1>0, <2>5 DEF Leads
    <3>5. /\ mail' \in Mails /\ LeadsTo(mail', n, network)
          /\ \A i \in DOMAIN mail : i \in DOMAIN mail' /\ mail'[i] = mail[i]
          /\ \A i \in DOMAIN mail' : mail'[i] \in {put, gone} \/ i \in DOMAIN mail
      <4>1. CASE available = "none"
        <5>1. mail' = Append(mail, put)
          BY <1>10, <2>1, <2>3, <2>5, <3>2, <4>1 DEF Network!NetworkChanges, Mails
        <5>2. n # "none" /\ put \in Network!Message
          BY <2>1, <3>1, <3>2, <4>1
        <5>3. LeadsTo(mail', n, network)
          BY <2>3, <3>3, <5>1, <5>2, LeadsAppend DEF Mails
        <5> QED
          BY <2>3, <5>1, <5>2, <5>3, AppendFacts, Z3 DEF Mails
      <4>2. CASE available # "none" /\ n = "none"
        <5>1. mail' = Append(mail, gone)
          BY <1>10, <2>1, <2>3, <2>5, <3>2, <4>2 DEF Network!NetworkChanges, Mails
        <5>2. gone \in Network!Message
          BY <3>1, <3>2, <4>2
        <5>3. LeadsTo(mail', n, network)
          BY <2>3, <3>3, <3>4, <4>2, <5>1, LeadsAppend DEF Mails
        <5> QED
          BY <2>3, <5>1, <5>2, <5>3, AppendFacts, Z3 DEF Mails
      <4>3. CASE available # "none" /\ n # "none"
        <5>0. mail' = (mail \o <<put>>) \o <<gone>>
          BY <1>10, <2>1, <2>5, <3>2, <4>3 DEF Network!NetworkChanges
        <5>1. mail' = Append(Append(mail, put), gone)
          <6>1. mail \o <<put>> = Append(mail, put) /\ Append(mail, put) \in Seq(Network!Message \union {put})
            BY <2>3 DEF Mails
          <6>2. Append(mail, put) \o <<gone>> = Append(Append(mail, put), gone)
            BY <6>1
          <6> QED
            BY <5>0, <6>1, <6>2
        <5>2. put \in Network!Message /\ gone \in Network!Message
          BY <3>1, <3>2, <4>3
        <5>3. PICK m : m = Append(mail, put)
          OBVIOUS
        <5>4. /\ m \in Mails /\ \A i \in DOMAIN mail : i \in DOMAIN m /\ m[i] = mail[i]
              /\ \A i \in DOMAIN m : m[i] = put \/ i \in DOMAIN mail
          BY <2>3, <5>2, <5>3, AppendFacts DEF Mails
        <5>5. LeadsTo(m, n, network)
          BY <2>3, <3>3, <4>3, <5>3, LeadsAppend DEF Mails
        <5>6. LeadsTo(mail', n, network)
          BY <2>1, <3>3, <4>3, <5>1, <5>3, <5>4, <5>5, LeadsAppend DEF Mails
        <5>7. /\ mail' \in Mails /\ \A i \in DOMAIN m : i \in DOMAIN mail' /\ mail'[i] = m[i]
              /\ \A i \in DOMAIN mail' : mail'[i] = gone \/ i \in DOMAIN m
          BY <5>1, <5>2, <5>3, <5>4, AppendFacts DEF Mails
        <5> QED
          BY <5>4, <5>6, <5>7
      <4> QED
        BY <4>1, <4>2, <4>3
    <3>6. Leads'
      BY <2>1, <3>5 DEF Leads
    <3>7. \A i \in DOMAIN mail' : mail'[i][1] \in {"Put", "Lost"} \/ (i \in DOMAIN mail /\ mail'[i] = mail[i])
      BY <3>3, <3>5
    <3>8. Keys'
      BY <1>0, <2>1, <2>5, <3>7 DEF Keys
    <3>9. Asking' /\ Network!SessionListens'
      BY <1>0, <2>1, <3>5, <3>7 DEF Asking, Network!SessionListens
    <3>10. Network!TypeOK'
      BY <1>0, <2>1, <3>5 DEF Network!TypeOK, Mails
    <3> QED
      BY <2>2, <3>6, <3>8, <3>9, <3>10 DEF NetworkInv
  <2> QED
    BY <2>4, <2>5
<1>11. ASSUME Network!CapabilitiesChange PROVE NetworkInv'
  <2>1. /\ mail' = Append(mail, <<"Update", available>>) /\ calledBack /\ available # "none"
        /\ UNCHANGED <<available, calledBack, listeners, network, pending, underlying, session, get>>
        /\ events < MaxEvents /\ events' = events + 1
    BY <1>11 DEF Network!CapabilitiesChange, Network!Mail
  <2>2. <<"Update", available>> \in Network!Message
    BY <1>0, <2>1 DEF Network!Message, Network!TypeOK
  <2>3. /\ mail' \in Mails /\ Keys' /\ Listening' /\ Asking' /\ Leads'
        /\ \A i \in DOMAIN mail : i \in DOMAIN mail' /\ mail'[i] = mail[i]
    BY <2>1, <2>2, NetworkSent
  <2>4. Network!SessionListens'
    BY <1>0, <2>1, <2>3 DEF Network!SessionListens
  <2>5. Network!TypeOK'
    BY <1>0, <2>1, <2>3 DEF Network!TypeOK, Mails
  <2> QED
    BY <2>3, <2>4, <2>5 DEF NetworkInv
<1> QED
  BY <1>1, <1>2, <1>3, <1>4, <1>5, <1>6, <1>7, <1>8, <1>9, <1>10, <1>11 DEF Network!Next

\* Before anybody listens.
LEMMA NetworkInit == Network!Init => NetworkInv
<1> SUFFICES ASSUME Network!Init PROVE NetworkInv
  OBVIOUS
<1>1. DOMAIN mail = {} /\ mail \in Seq(Network!Message)
  BY DEF Network!Init
<1>2. Network!TypeOK
  <2>0. MaxEvents \in Nat
    BY NetworkNames
  <2>1. events \in 0 .. MaxEvents /\ calledBack \in BOOLEAN
    <3>1. events = 0 /\ calledBack = FALSE
      BY DEF Network!Init
    <3>2. calledBack \in BOOLEAN
      BY <3>1, Zenon
    <3>3. events \in 0 .. MaxEvents
      BY <2>0, <3>1
    <3> QED
      BY <3>2, <3>3
  <2>2. get \in [Gets -> {"new", "waits", "done", "cancelled"}]
    BY DEF Network!Init
  <2>3. underlying \in [Services -> Nets \union {Network!NoNet}]
    BY DEF Network!Init
  <2> QED
    BY <1>1, <2>1, <2>2, <2>3 DEF Network!Init, Network!TypeOK
<1>3. Keys /\ Asking /\ Leads
  BY <1>1 DEF Network!Init, Keys, Asking, Leads
<1>4. Listening /\ Network!SessionListens
  BY DEF Network!Init, Listening, Network!SessionListens, Network!NoNet
<1> QED
  BY <1>2, <1>3, <1>4 DEF NetworkInv

\* What the invariant gives for a Get at the head of the mail, and for no mail.
LEMMA NetworkPromise ==
    ASSUME NetworkInv
    PROVE  Network!GetHasListener /\ Network!UnderlyingIsDefault
<1>0. Network!TypeOK /\ Listening /\ Asking /\ Leads
  BY DEF NetworkInv
<1>1. Network!GetHasListener
  <2> SUFFICES ASSUME mail # <<>>, Head(mail)[1] = "Get" PROVE listeners # {}
    BY DEF Network!GetHasListener, Network!Receives
  <2>1. 1 \in DOMAIN mail /\ mail[1][1] = "Get" /\ \A j \in DOMAIN mail : ~(j < 1)
    BY NetworkTaken
  <2> QED
    BY <1>0, <2>1 DEF Asking
<1>2. Network!UnderlyingIsDefault
  <2> SUFFICES ASSUME mail = <<>>, NEW k \in listeners PROVE underlying[k] = available
    BY DEF Network!UnderlyingIsDefault
  <2>1. DOMAIN mail = {} /\ k \in Services /\ calledBack
    BY <1>0 DEF Network!TypeOK, Listening
  <2>2. Remains(mail, available, network, 0)
    BY <1>0, <2>1 DEF Leads, LeadsTo
  <2>3. network = available
    BY <2>1, <2>2 DEF Remains
  <2> QED
    BY <1>0, <2>1, <2>3 DEF Listening
<1> QED
  BY <1>1, <1>2

-----------------------------------------------------------------------------
(* LocalSocketListener, concurrent (k) or plain *)

Threads   == {"test", "accept", "handle", "read", "closing", "ended"}
Phases    == {"no", "flag", "cancel", "shut", "joined"}
SockState == {"new", "queued", "refused", "accepted", "launched", "handled", "closed",
              "dropped"}

\* A connection the thread has accepted is the current one until it is handed
\* over; in the plain listener the thread itself handles it; when the thread has
\* ended its socket is closed and nobody waits there.
Held(k, c) ==
    /\ sock[c] = "accepted" => pc = "handle" /\ current = c
    /\ pc = "ended" => sock[c] # "queued"
    /\ ~k => /\ sock[c] \notin {"launched", "dropped"}
             /\ sock[c] = "handled" => pc = "read" /\ current = c
    /\ stop = "joined" => sock[c] \notin {"launched", "handled"}

HeldInv(k) ==
    /\ sock \in [Peers -> SockState]
    /\ queue \in Seq(Peers)
    /\ pc \in Threads /\ stop \in Phases
    /\ current \in Peers \union {"none"}
    /\ pc \in {"handle", "read"} => current \in Peers
    /\ sent \/ stop = "joined" => pc = "ended"
    /\ pc = "ended" => shut
    /\ \A c \in Peers : Held(k, c)

Flags ==
    /\ running \in BOOLEAN /\ cancelled \in BOOLEAN /\ shut \in BOOLEAN /\ sent \in BOOLEAN
    /\ spoken \subseteq Peers

\* Every step of the thread, of shutdown(), of a coroutine and of a peer keeps it.
LEMMA HeldStep ==
    ASSUME NEW k \in BOOLEAN, HeldInv(k), IF k THEN Workers!Next ELSE Plain!Next
    PROVE  HeldInv(k)'
<1> USE DEF HeldInv, Held, SockState, Threads, Phases, Workers!NoPeer, Plain!NoPeer
<1>1. ASSUME NEW c \in Peers, Workers!Connect(c) \/ Plain!Connect(c) PROVE HeldInv(k)'
  BY <1>1 DEF Workers!Connect, Plain!Connect
<1>2. ASSUME NEW c \in Peers, Workers!Speak(c) \/ Plain!Speak(c) PROVE HeldInv(k)'
  BY <1>2 DEF Workers!Speak, Plain!Speak
<1>3. ASSUME NEW c \in Peers, Workers!Begin(c) \/ Plain!Begin(c) PROVE HeldInv(k)'
  BY <1>3 DEF Workers!Begin, Plain!Begin
<1>4. ASSUME NEW c \in Peers, IF k THEN Workers!Finish(c) ELSE Plain!Finish(c)
      PROVE  HeldInv(k)'
  BY <1>4 DEF Workers!Finish, Plain!Finish
<1>5. CASE Workers!Test \/ Plain!Test
  BY <1>5 DEF Workers!Test, Plain!Test
<1>6. CASE Workers!Accept \/ Plain!Accept
  <2>1. CASE queue = <<>>
    <3>1. /\ pc = "accept" /\ pc' = "test" /\ queue' = queue /\ current' = current
          /\ sock' = sock /\ sent' = sent /\ stop' = stop /\ shut' = shut
      BY <1>6, <2>1 DEF Workers!Accept, Plain!Accept
    <3> QED
      BY <3>1
  <2>2. CASE queue # <<>>
    <3>1. PICK h \in Peers : h = Head(queue)
      BY <2>2, TailFacts
    <3>2. /\ pc = "accept" /\ pc' = "handle" /\ current' = h /\ queue' = Tail(queue)
          /\ sock' = [sock EXCEPT ![h] = "accepted"]
          /\ UNCHANGED <<running, cancelled, shut, sent, spoken, stop>>
      BY <1>6, <2>2, <3>1 DEF Workers!Accept, Plain!Accept
    <3>3. queue' \in Seq(Peers)
      BY <2>2, <3>2, TailFacts
    <3> QED
      BY <3>1, <3>2, <3>3
  <2> QED
    BY <2>1, <2>2
<1>7. CASE IF k THEN Workers!Handle ELSE Plain!Handle
  BY <1>7 DEF Workers!Handle, Plain!Handle
<1>8. CASE Workers!Read \/ Plain!Read
  BY <1>8 DEF Workers!Read, Plain!Read
<1>9. CASE Workers!Close \/ Plain!Close
  <2>1. /\ pc = "closing" /\ pc' = "ended" /\ shut' = TRUE /\ queue' = <<>>
        /\ sock' = [c \in Peers |-> IF sock[c] = "queued" THEN "refused" ELSE sock[c]]
        /\ current' = current /\ stop' = stop
    BY <1>9 DEF Workers!Close, Plain!Close
  <2>2. sock' \in [Peers -> SockState] /\ queue' \in Seq(Peers)
    BY <2>1
  <2>3. ASSUME NEW c \in Peers PROVE Held(k, c)'
    <3>1. sock'[c] = IF sock[c] = "queued" THEN "refused" ELSE sock[c]
      BY <2>1
    <3> QED
      BY <2>1, <3>1
  <2> QED
    BY <2>1, <2>2, <2>3
<1>10. CASE Workers!ClearRunning \/ Plain!ClearRunning
  BY <1>10 DEF Workers!ClearRunning, Plain!ClearRunning
<1>11. CASE Workers!Cancel \/ Plain!Cancel
  BY <1>11 DEF Workers!Cancel, Plain!Cancel
<1>12. CASE Workers!ShutDown \/ Plain!ShutDown
  BY <1>12 DEF Workers!ShutDown, Plain!ShutDown
<1>13. CASE IF k THEN Workers!Join ELSE Plain!Join
  BY <1>13 DEF Workers!Join, Plain!Join
<1>14. CASE k
  BY <1>1, <1>2, <1>3, <1>4, <1>5, <1>6, <1>7, <1>8, <1>9, <1>10, <1>11, <1>12,
     <1>13, <1>14 DEF Workers!Next
<1>15. CASE ~k
  BY <1>1, <1>2, <1>3, <1>4, <1>5, <1>6, <1>7, <1>8, <1>9, <1>10, <1>11, <1>12,
     <1>13, <1>15 DEF Plain!Next
<1> QED
  BY <1>14, <1>15

\* The flags stay flags.
LEMMA FlagsStep == Flags /\ (Workers!Next \/ Plain!Next) => Flags'
BY DEF Flags, Workers!Next, Workers!Connect, Workers!Speak, Workers!Begin, Workers!Finish,
       Workers!Test, Workers!Accept, Workers!Handle, Workers!Read, Workers!Close,
       Workers!ClearRunning, Workers!Cancel, Workers!ShutDown, Workers!Join,
       Plain!Next, Plain!Connect, Plain!Speak, Plain!Begin, Plain!Finish,
       Plain!Test, Plain!Accept, Plain!Handle, Plain!Read, Plain!Close,
       Plain!ClearRunning, Plain!Cancel, Plain!ShutDown, Plain!Join

\* Before anybody connects.
LEMMA HeldInit == Plain!Init => Flags /\ HeldInv(TRUE) /\ HeldInv(FALSE)
<1> SUFFICES ASSUME Plain!Init PROVE Flags /\ \A k \in BOOLEAN : HeldInv(k)
  OBVIOUS
<1>1. Flags
  BY DEF Plain!Init, Flags
<1>2. ASSUME NEW k \in BOOLEAN PROVE HeldInv(k)
  <2>1. \A c \in Peers : sock[c] = "new"
    BY DEF Plain!Init
  <2>2. sock \in [Peers -> SockState] /\ queue \in Seq(Peers)
    BY DEF Plain!Init, SockState
  <2> QED
    BY <2>1, <2>2 DEF Plain!Init, Plain!NoPeer, HeldInv, Held, Threads, Phases
<1> QED
  BY <1>1, <1>2

\* When shutdown() has been waited for nothing is left of the listener, and the
\* plain one has closed what it accepted.
LEMMA HeldPromise ==
    /\ Flags /\ HeldInv(TRUE) => Workers!TypeOK /\ Workers!NothingLeft
    /\ Flags /\ HeldInv(FALSE) =>
          Plain!TypeOK /\ Plain!NothingLeft /\ Plain!AcceptedAreClosed
<1>1. ASSUME NEW k \in BOOLEAN, Flags, HeldInv(k)
      PROVE  Workers!TypeOK /\ Plain!TypeOK /\ Workers!NothingLeft /\ Plain!NothingLeft
  <2>1. Workers!TypeOK /\ Plain!TypeOK
    BY <1>1 DEF Flags, HeldInv, SockState, Threads, Phases, Workers!TypeOK, Plain!TypeOK,
                Workers!NoPeer, Plain!NoPeer
  <2>2. Workers!NothingLeft /\ Plain!NothingLeft
    BY <1>1 DEF HeldInv, Held, SockState, Workers!NothingLeft, Plain!NothingLeft
  <2> QED
    BY <2>1, <2>2
<1>2. HeldInv(FALSE) => Plain!AcceptedAreClosed
  BY DEF HeldInv, Held, SockState, Plain!AcceptedAreClosed
<1> QED
  BY <1>1, <1>2

-----------------------------------------------------------------------------
(* TrafficMonitor *)

\* A report is held while one of its writes is not seen.
Holds == unseen # {} => received \in Traffic!Totals

\* Between two calls of requestUpdate every listener has been told `stats`.
Told == main = "idle" /\ ~ended => \A c \in bandwidthListeners : shown[c] = stats

\* A report of which dirty has become visible and is not set any more has been
\* copied, and was visible as a whole when it was, unless `lost` says otherwise.
Copied ==
    main = "idle" /\ ~dirty /\ ~lost /\ "dirty" \notin unseen =>
        total = stats.total /\ "total" \notin unseen

MonitorInv == Traffic!TypeOK /\ Holds /\ Traffic!LooperIffListeners /\ Told /\ Copied

\* Before the first report.
LEMMA MonitorInit == Traffic!Init => MonitorInv
<1> SUFFICES ASSUME Traffic!Init PROVE MonitorInv
  OBVIOUS
<1>0. 0 \in Traffic!Totals /\ 0 \in 0 .. MaxReports
  BY PartsAssumption DEF Traffic!Totals
<1>1. shown \in [BandwidthClients -> Traffic!Stats] /\ stats \in Traffic!Stats
  BY <1>0 DEF Traffic!Init, Traffic!Nothing, Traffic!Stats
<1>2. tasks \in Seq({"start", "stop"} \X BandwidthClients) /\ persisted \in Seq(Traffic!Totals)
  BY DEF Traffic!Init
<1>3. /\ counter \in Traffic!Totals /\ received \in Traffic!Totals \union {-1}
      /\ total \in Traffic!Totals /\ tx \in Nat /\ reports \in 0 .. MaxReports
      /\ unseen \subseteq {"total", "dirty"} /\ bandwidthListeners \subseteq BandwidthClients
      /\ main \in {"idle", "clear"}
  BY <1>0 DEF Traffic!Init
<1>4. dirty \in BOOLEAN /\ looper \in BOOLEAN /\ ended \in BOOLEAN /\ lost \in BOOLEAN
  BY DEF Traffic!Init
<1>5. Traffic!TypeOK
  BY <1>1, <1>2, <1>3, <1>4, Zenon DEF Traffic!TypeOK
<1>6. Traffic!LooperIffListeners /\ Told /\ Holds
  BY DEF Traffic!Init, Traffic!LooperIffListeners, Told, Holds
<1>7. Copied
  BY DEF Traffic!Init, Traffic!Nothing, Copied
<1> QED
  BY <1>5, <1>6, <1>7 DEF MonitorInv

\* Every step of ss-local, the thread, the looper and the Binder keeps it.
LEMMA MonitorStep ==
    ASSUME MonitorInv, Traffic!Next
    PROVE  MonitorInv'
<1> USE DEF MonitorInv, Traffic!TypeOK, Traffic!Stats, Holds, Traffic!LooperIffListeners,
            Told, Copied, Traffic!binderVars, Traffic!profileVars
<1>0. /\ MaxCounter \in Nat /\ MaxReports \in Nat /\ 0 \in Traffic!Totals
      /\ \A n \in Traffic!Totals : n \in Nat /\ (n < MaxCounter => n + 1 \in Traffic!Totals)
  BY PartsAssumption DEF Traffic!Totals
<1>1. CASE Traffic!Traffic
  BY <1>0, <1>1 DEF Traffic!Traffic
<1>2. CASE Traffic!Restarted
  BY <1>0, <1>2 DEF Traffic!Restarted
<1>3. CASE Traffic!AcceptInternal
  <2>0. reports' \in 0 .. MaxReports
    BY <1>0, <1>3 DEF Traffic!AcceptInternal
  <2>1. CASE counter # total
    BY <1>3, <2>0, <2>1 DEF Traffic!AcceptInternal
  <2>2. CASE counter = total
    BY <1>3, <2>0, <2>2 DEF Traffic!AcceptInternal
  <2> QED
    BY <2>1, <2>2
<1>4. ASSUME NEW w \in {"total", "dirty"}, Traffic!Visible(w) PROVE MonitorInv'
  <2>1. /\ received \in Traffic!Totals /\ received' \in Traffic!Totals \union {-1} /\ Holds'
    BY <1>4 DEF Traffic!Visible
  <2>2. CASE w = "total"
    <3>1. total' = received /\ dirty' = dirty /\ unseen' = unseen \ {"total"}
      BY <1>4, <2>2 DEF Traffic!Visible
    <3>2. Traffic!TypeOK' /\ Traffic!LooperIffListeners' /\ Told'
      BY <1>4, <2>1, <3>1 DEF Traffic!Visible
    <3>3. Copied'
      BY <1>4, <2>2, <3>1 DEF Traffic!Visible
    <3> QED
      BY <2>1, <3>2, <3>3
  <2>3. CASE w = "dirty"
    <3>1. total' = total /\ dirty' = TRUE /\ unseen' = unseen \ {"dirty"}
      BY <1>4, <2>3 DEF Traffic!Visible
    <3>2. Traffic!TypeOK' /\ Traffic!LooperIffListeners' /\ Told'
      BY <1>4, <2>1, <3>1 DEF Traffic!Visible
    <3>3. Copied'
      BY <3>1
    <3> QED
      BY <2>1, <3>2, <3>3
  <2> QED
    BY <1>4, <2>2, <2>3
<1>5. CASE Traffic!Copy
  BY <1>5 DEF Traffic!Copy
<1>6. CASE Traffic!Clear
  BY <1>6 DEF Traffic!Clear, Traffic!Tell
<1>7. CASE Traffic!Settle
  BY <1>7 DEF Traffic!Settle, Traffic!Tell
<1>8. ASSUME NEW k \in {"start", "stop"}, NEW c \in BandwidthClients, Traffic!Post(k, c)
      PROVE  MonitorInv'
  BY <1>8 DEF Traffic!Post
<1>9. CASE Traffic!StartListening
  <2>1. PICK client \in BandwidthClients : client = Head(tasks)[2]
    BY <1>9, TailFacts DEF Traffic!StartListening
  <2>2. tasks' \in Seq({"start", "stop"} \X BandwidthClients)
    BY <1>9 DEF Traffic!StartListening
  <2>3. /\ shown' \in [BandwidthClients -> Traffic!Stats]
        /\ ~ended => shown' = [shown EXCEPT ![client] = stats]
    BY <1>9, <2>1 DEF Traffic!StartListening
  <2>4. bandwidthListeners' = bandwidthListeners \union {client} /\ looper' = TRUE
    BY <1>9, <2>1 DEF Traffic!StartListening
  <2>5. Traffic!TypeOK' /\ Holds'
    BY <1>9, <2>1, <2>2, <2>3, <2>4 DEF Traffic!StartListening
  <2>6. Traffic!LooperIffListeners' /\ Copied'
    BY <1>9, <2>1, <2>4 DEF Traffic!StartListening
  <2>7. Told'
    BY <1>9, <2>1, <2>3, <2>4 DEF Traffic!StartListening
  <2> QED
    BY <2>5, <2>6, <2>7
<1>10. CASE Traffic!StopListening
  <2>1. PICK client \in BandwidthClients : client = Head(tasks)[2]
    BY <1>10, TailFacts DEF Traffic!StopListening
  <2>2. tasks' \in Seq({"start", "stop"} \X BandwidthClients)
    BY <1>10 DEF Traffic!StopListening
  <2>3. /\ shown' \in [BandwidthClients -> Traffic!Stats]
        /\ \A c \in BandwidthClients \ {client} : shown'[c] = shown[c]
    BY <1>0, <1>10, <2>1 DEF Traffic!StopListening, Traffic!Nothing
  <2>4. bandwidthListeners' = bandwidthListeners \ {client}
        /\ (looper' <=> bandwidthListeners' # {})
    BY <1>10, <2>1 DEF Traffic!StopListening
  <2>5. Traffic!TypeOK' /\ Holds'
    BY <1>10, <2>1, <2>2, <2>3, <2>4 DEF Traffic!StopListening
  <2>6. Traffic!LooperIffListeners' /\ Copied'
    BY <1>10, <2>1, <2>4 DEF Traffic!StopListening
  <2>7. Told'
    BY <1>10, <2>1, <2>3, <2>4 DEF Traffic!StopListening
  <2> QED
    BY <2>5, <2>6, <2>7
<1>11. CASE Traffic!ActionShutdown \/ Traffic!Shutdown
  <2>1. /\ persisted' = Append(persisted, total) /\ tx' = tx + total
        /\ UNCHANGED <<counter, received, unseen, total, dirty, stats, main,
                       bandwidthListeners, looper, tasks, shown, lost, reports>>
    BY <1>11 DEF Traffic!ActionShutdown, Traffic!Shutdown, Traffic!PersistStats
  <2>2. ended' \in BOOLEAN /\ (~ended' => ~ended)
    BY <1>11 DEF Traffic!ActionShutdown, Traffic!Shutdown
  <2>3. persisted' \in Seq(Traffic!Totals) /\ tx' \in Nat
    <3>1. persisted \in Seq(Traffic!Totals) /\ total \in Traffic!Totals /\ tx \in Nat
      OBVIOUS
    <3>2. persisted' \in Seq(Traffic!Totals)
      BY <2>1, <3>1, AppendFacts
    <3>3. tx' \in Nat
      <4>1. total \in Nat /\ tx \in Nat /\ tx' = tx + total
        BY <1>0, <2>1, <3>1
      <4>2. \A a, b \in Nat : a + b \in Nat
        OBVIOUS
      <4> QED
        BY <4>1, <4>2, Zenon
    <3> QED
      BY <3>2, <3>3
  <2>4. Traffic!TypeOK' /\ Holds' /\ Traffic!LooperIffListeners'
    BY <2>1, <2>2, <2>3
  <2>5. Told' /\ Copied'
    BY <2>1, <2>2
  <2> QED
    BY <2>4, <2>5
<1> QED
  BY <1>1, <1>2, <1>3, <1>4, <1>5, <1>6, <1>7, <1>8, <1>9, <1>10, <1>11 DEF Traffic!Next

\* No listener misses a report but in the window of the data race.
LEMMA MonitorPromise == MonitorInv => Traffic!NothingMissed
BY DEF MonitorInv, Traffic!TypeOK, Told, Copied, Traffic!NothingMissed

-----------------------------------------------------------------------------
(* BSocksClient: the proofs of its own module, on this instance *)

Handshake == INSTANCE BSocksClientProofs

SocksInv ==
    Handshake!TypeOK /\ Handshake!OwnedInv /\ Handshake!FitsInv /\ Handshake!TalkInv

\* The instance is the same there and here.
LEMMA SocksSame ==
    /\ Socks!Init => Handshake!Init
    /\ Socks!Next => Handshake!Next
    /\ Handshake!TypeOK => Socks!TypeOK
    /\ Handshake!FreedIsFree => Socks!FreedIsFree
    /\ Handshake!WithinBuffer => Socks!WithinBuffer
    /\ Handshake!UpAtData => Socks!UpAtData
<1>0. \A S : Socks!Cardinality(S) = Handshake!Cardinality(S)
  BY Zenon DEF Socks!Cardinality, Handshake!Cardinality
<1>1. Socks!Init => Handshake!Init
  BY DEF Socks!Init, Handshake!Init, Socks!Nobody, Handshake!Nobody
<1>2. Socks!Next => Handshake!Next
  <2>0. Socks!HelloLen = Handshake!HelloLen
    BY <1>0, Zenon DEF Socks!HelloLen, Handshake!HelloLen
  <2> USE DEF Socks!PasswordLen, Socks!RequestLen, Socks!AnswerLen,
              Socks!HeaderLen, Socks!MaxLen, Socks!ioVars, Socks!srvVars, Socks!Set,
              Socks!StartReceive, Socks!SendPacket, Socks!ReceiveInto, Socks!Free,
              Socks!ReportError, Socks!AuthFinished,
              Handshake!PasswordLen, Handshake!RequestLen,
              Handshake!AnswerLen, Handshake!HeaderLen, Handshake!MaxLen,
              Handshake!ioVars, Handshake!srvVars, Handshake!Set,
              Handshake!StartReceive, Handshake!SendPacket, Handshake!ReceiveInto,
              Handshake!Free, Handshake!ReportError, Handshake!AuthFinished
  <2>1. ASSUME NEW c \in Clients
        PROVE  /\ Socks!Accept(c) = Handshake!Accept(c)
               /\ Socks!Abandon(c) = Handshake!Abandon(c)
               /\ Socks!ConnectorHandler(c) = Handshake!ConnectorHandler(c)
               /\ Socks!ConnectionHandler(c) = Handshake!ConnectionHandler(c)
               /\ Socks!SendHandlerDone(c) = Handshake!SendHandlerDone(c)
               /\ Socks!Answer(c) = Handshake!Answer(c)
               /\ Socks!ServerData(c) = Handshake!ServerData(c)
    BY <2>0, Zenon DEF Socks!Accept, Handshake!Accept, Socks!Abandon, Handshake!Abandon,
           Socks!ConnectorHandler, Handshake!ConnectorHandler,
           Socks!ConnectionHandler, Handshake!ConnectionHandler,
           Socks!SendHandlerDone, Handshake!SendHandlerDone,
           Socks!Answer, Handshake!Answer, Socks!ServerData, Handshake!ServerData
  <2>2. ASSUME NEW c \in Clients, NEW n
        PROVE  /\ Socks!SendSome(c, n) = Handshake!SendSome(c, n)
               /\ Socks!ReceiveSome(c, n) = Handshake!ReceiveSome(c, n)
               /\ Socks!RecvHandlerDone(c, n) = Handshake!RecvHandlerDone(c, n)
    BY Zenon DEF Socks!SendSome, Handshake!SendSome, Socks!ReceiveSome, Handshake!ReceiveSome,
           Socks!RecvHandlerDone, Handshake!RecvHandlerDone
  <2> QED
    BY <2>1, <2>2, Zenon DEF Socks!Next, Handshake!Next
<1>3. Handshake!TypeOK => Socks!TypeOK
  BY DEF Handshake!TypeOK, Handshake!MaxLen, Handshake!Nobody, Handshake!Sending,
         Handshake!Receiving, Socks!TypeOK, Socks!MaxLen, Socks!Nobody, Socks!Sending,
         Socks!Receiving
<1>4. /\ Handshake!FreedIsFree => Socks!FreedIsFree
      /\ Handshake!WithinBuffer => Socks!WithinBuffer
  BY DEF Handshake!FreedIsFree, Handshake!WithinBuffer, Socks!FreedIsFree, Socks!WithinBuffer
<1>5. Handshake!UpAtData => Socks!UpAtData
  BY <1>0, Zenon DEF Handshake!UpAtData, Socks!UpAtData
<1> QED
  BY <1>1, <1>2, <1>3, <1>4, <1>5

\* Before any client of this instance connects.
LEMMA SocksInit == Socks!Init => SocksInv
BY SocksSame, Handshake!TypeInit, Handshake!OwnedInit, Handshake!FitsInit,
   Handshake!TalkInit DEF SocksInv

\* Every step of the clients and of the server keeps it, and so does none.
LEMMA SocksStep ==
    ASSUME SocksInv, Socks!Next \/ UNCHANGED socksVars
    PROVE  SocksInv'
<1>1. [Handshake!Next]_(Handshake!vars)
  BY SocksSame DEF socksVars, Handshake!vars
<1>2. Handshake!IsFiniteSet(Methods) /\ DestLen \in Nat
  <2>1. IsFiniteSet(Methods) /\ DestLen \in Nat
    BY PartsAssumption
  <2> QED
    BY <2>1, Zenon DEF IsFiniteSet, Handshake!IsFiniteSet
<1>3. Handshake!HelloLen \in 1 .. Handshake!MaxLen
  <2>1. Handshake!HelloLen \in Nat \ {0}
    BY <1>2, Handshake!Lengths
  <2>2. Handshake!HelloLen <= Handshake!MaxLen
    <3>1. Socks!HelloLen <= Socks!MaxLen
      BY PartsAssumption
    <3>2. Socks!Cardinality(Methods) = Handshake!Cardinality(Methods)
      BY Zenon DEF Socks!Cardinality, Handshake!Cardinality
    <3>3. Socks!HelloLen = Handshake!HelloLen /\ Socks!MaxLen = Handshake!MaxLen
      BY <3>2, Zenon DEF Socks!HelloLen, Handshake!HelloLen, Socks!MaxLen, Handshake!MaxLen
    <3> QED
      BY <3>1, <3>3
  <2> QED
    BY <2>1, <2>2 DEF Handshake!MaxLen
<1>4. Handshake!RequestLen \in 1 .. Handshake!MaxLen
  BY PartsAssumption DEF Handshake!RequestLen, Handshake!MaxLen
<1>5. Handshake!TypeOK'
  BY <1>1, <1>3, <1>4, Handshake!TypeStep DEF SocksInv
<1>6. Handshake!OwnedInv'
  BY <1>1, Handshake!OwnedStep DEF SocksInv
<1>7. Handshake!FitsInv'
  BY <1>1, <1>2, Handshake!FitsStep DEF SocksInv
<1>8. Handshake!TalkInv'
  BY <1>1, Handshake!TalkStep DEF SocksInv
<1> QED
  BY <1>5, <1>6, <1>7, <1>8 DEF SocksInv

\* What is freed is free, the buffer suffices, and a client that is up has the reply.
LEMMA SocksPromise ==
    SocksInv => /\ Socks!TypeOK /\ Socks!FreedIsFree
                /\ Socks!WithinBuffer /\ Socks!UpAtData
BY SocksSame, Handshake!OwnedPromise, Handshake!FitsPromise, Handshake!TalkPromise
DEF SocksInv

-----------------------------------------------------------------------------
(* Acl: reading a file *)

\* A line read when f has read those before it.
ReadOn(f, lines, begin, i) == IF i = 0 THEN begin ELSE Custom!ParseLine(f[i - 1], lines[i])

\* A recursive function is a solution of its equation.
LEMMA ReadingForm ==
    ASSUME NEW lines, NEW begin
    PROVE  Custom!Reading(lines, begin)
               = CHOOSE f : f = [i \in 0 .. Len(lines) |-> ReadOn(f, lines, begin, i)]
BY DEF Custom!Reading, ReadOn

\* The equation has a solution, built up line by line.
LEMMA ReadingLemma ==
    ASSUME NEW lines, NEW begin, Len(lines) \in Nat
    PROVE  /\ Custom!Reading(lines, begin)[0] = begin
           /\ \A i \in 1 .. Len(lines) :
                 Custom!Reading(lines, begin)[i]
                     = Custom!ParseLine(Custom!Reading(lines, begin)[i - 1], lines[i])
<1> DEFINE Solves(f, n) == f = [i \in 0 .. n |-> ReadOn(f, lines, begin, i)]
           T == {n \in Nat : \E f : Solves(f, n)}
<1>1. 0 \in T
  <2> DEFINE f == [i \in 0 .. 0 |-> begin]
  <2>1. f = [i \in 0 .. 0 |-> ReadOn(f, lines, begin, i)]
    <3>1. \A i \in 0 .. 0 : ReadOn(f, lines, begin, i) = begin
      BY DEF ReadOn
    <3> QED
      BY <3>1
  <2>2. Solves(f, 0)
    BY <2>1
  <2> HIDE DEF f
  <2> QED
    BY <2>2
<1>2. ASSUME NEW n \in T PROVE n + 1 \in T
  <2>1. PICK f : Solves(f, n)
    OBVIOUS
  <2>2. n \in Nat /\ n + 1 \in Nat
    OBVIOUS
  <2>3. f = [i \in 0 .. n |-> ReadOn(f, lines, begin, i)]
    BY <2>1
  <2> DEFINE g == [i \in 0 .. n + 1 |-> IF i <= n THEN f[i] ELSE ReadOn(f, lines, begin, i)]
  <2>4. ASSUME NEW i \in 0 .. n + 1 PROVE g[i] = ReadOn(g, lines, begin, i)
    <3>1. i # 0 => i - 1 \in 0 .. n + 1 /\ i - 1 <= n
      BY <2>2
    <3>2. i # 0 => g[i - 1] = f[i - 1]
      BY <3>1
    <3>3. ReadOn(f, lines, begin, i) = ReadOn(g, lines, begin, i)
      BY <3>2 DEF ReadOn
    <3>4. i <= n => i \in 0 .. n
      BY <2>2
    <3>5. i \in 0 .. n => f[i] = ReadOn(f, lines, begin, i)
      BY <2>3
    <3> QED
      BY <3>3, <3>4, <3>5
  <2>5. g = [i \in 0 .. n + 1 |-> ReadOn(g, lines, begin, i)]
    BY <2>4
  <2>6. Solves(g, n + 1)
    BY <2>5
  <2> HIDE DEF g
  <2> QED
    BY <2>2, <2>6
<1> HIDE DEF T
<1>3. Len(lines) \in T
  <2>1. 0 .. Len(lines) \subseteq T
    BY <1>1, <1>2, Induction
  <2> QED
    BY <2>1
<1> USE DEF T
<1>4. \E f : f = [i \in 0 .. Len(lines) |-> ReadOn(f, lines, begin, i)]
  BY <1>3
<1> DEFINE r == Custom!Reading(lines, begin)
<1>5. r = [i \in 0 .. Len(lines) |-> ReadOn(r, lines, begin, i)]
  BY <1>4, ReadingForm
<1> HIDE DEF r
<1>6. r[0] = begin
  BY <1>5 DEF ReadOn
<1>7. ASSUME NEW i \in 1 .. Len(lines)
      PROVE  r[i] = Custom!ParseLine(r[i - 1], lines[i])
  <2>1. i \in 0 .. Len(lines) /\ i # 0
    OBVIOUS
  <2>2. r[i] = ReadOn(r, lines, begin, i)
    BY <1>5, <2>1
  <2> QED
    BY <2>1, <2>2 DEF ReadOn
<1> QED
  BY <1>6, <1>7 DEF r

Headings == {"bypass_list", "proxy_list", "outbound_block_list"}

\* What has been read of a file, in terms of its lines up to i.
Parsed == [bypass : BOOLEAN, list : {"bypass", "proxy", "none"}, failed : BOOLEAN,
           bypassHostnames : SUBSET Hosts, proxyHostnames : SUBSET Hosts,
           bypassSubnets : SUBSET Subnets, proxySubnets : SUBSET Subnets, urls : SUBSET Urls]

Entries(lines, mode, i, S, b) ==
    {x \in S : \E k \in 1 .. i : lines[k].text = x /\ Custom!Under(lines, mode, k, b)}

ModeAt(lines, mode, i) ==
    \/ \E k \in 1 .. i : /\ lines[k].text = "bypass_all"
                         /\ \A j \in k + 1 .. i : lines[j].text # "proxy_all"
    \/ mode /\ \A j \in 1 .. i : lines[j].text # "proxy_all"

UrlsTo(lines, i) == {u \in Urls : \E k \in 1 .. i : lines[k].url = u}

FailedAt(lines, i) == \E k \in 1 .. i : lines[k].text = "unrecognized"

ReadSo(p, lines, mode, i) ==
    /\ p \in Parsed
    /\ p.failed <=> FailedAt(lines, i)
    /\ ~p.failed =>
          /\ p.list = "bypass" <=> Custom!Under(lines, mode, i + 1, "bypass_list")
          /\ p.list = "proxy" <=> Custom!Under(lines, mode, i + 1, "proxy_list")
          /\ p.bypass <=> ModeAt(lines, mode, i)
          /\ p.urls = UrlsTo(lines, i)
          /\ p.bypassHostnames = Entries(lines, mode, i, Hosts, "bypass_list")
          /\ p.proxyHostnames = Entries(lines, mode, i, Hosts, "proxy_list")
          /\ p.bypassSubnets = Entries(lines, mode, i, Subnets, "bypass_list")
          /\ p.proxySubnets = Entries(lines, mode, i, Subnets, "proxy_list")

\* A heading is followed by its entries, any other line changes nothing.
LEMMA UnderStep ==
    ASSUME NEW lines, NEW mode, NEW i \in Nat \ {0}, NEW b
    PROVE  /\ lines[i].text \in Headings /\ b \in Headings =>
                  (Custom!Under(lines, mode, i + 1, b) <=> lines[i].text = b)
           /\ lines[i].text \notin Headings /\ b \in Headings =>
                  (Custom!Under(lines, mode, i + 1, b) <=> Custom!Under(lines, mode, i, b))
<1> DEFINE H(j) == lines[j].text \in Headings
<1>0. /\ (i + 1) - 1 = i
      /\ \A j \in 1 .. i : \A k : k \in j + 1 .. i <=> (k \in j + 1 .. i - 1 \/ (k = i /\ j # i))
      /\ \A k : k \in 1 .. i <=> (k \in 1 .. i - 1 \/ k = i)
      /\ i \notin 1 .. i - 1
      /\ \A k : k \notin i + 1 .. i
  OBVIOUS
<1>1. \A c : Custom!Under(lines, mode, i + 1, c) <=>
          \/ \E j \in 1 .. i : lines[j].text = c /\ \A k \in j + 1 .. i : ~H(k)
          \/ c = (IF mode THEN "proxy_list" ELSE "bypass_list") /\ \A k \in 1 .. i : ~H(k)
  BY <1>0 DEF Custom!Under, Headings
<1>2. \A c : Custom!Under(lines, mode, i, c) <=>
          \/ \E j \in 1 .. i - 1 : lines[j].text = c /\ \A k \in j + 1 .. i - 1 : ~H(k)
          \/ c = (IF mode THEN "proxy_list" ELSE "bypass_list") /\ \A k \in 1 .. i - 1 : ~H(k)
  BY DEF Custom!Under, Headings
<1>3. lines[i].text \in Headings <=> H(i)
  OBVIOUS
<1>4. \A j : lines[j].text \in Headings => H(j)
  OBVIOUS
<1> HIDE DEF H
<1>5. CASE H(i)
  <2>1. ASSUME NEW j \in 1 .. i, \A k \in j + 1 .. i : ~H(k) PROVE j = i
    BY <1>0, <1>5, <2>1
  <2>2. ~\A k \in 1 .. i : ~H(k)
    BY <1>0, <1>5
  <2>3. Custom!Under(lines, mode, i + 1, b) <=> lines[i].text = b
    BY <1>0, <1>1, <2>1, <2>2
  <2> QED
    BY <2>3, <1>3, <1>5
<1>6. CASE ~H(i)
  <2>1. ASSUME b \in Headings PROVE lines[i].text # b
    BY <1>3, <1>6, <2>1
  <2>2. ASSUME b \in Headings
        PROVE (Custom!Under(lines, mode, i + 1, b) <=> Custom!Under(lines, mode, i, b))
    <3>1. ASSUME NEW j \in 1 .. i, j # i
          PROVE  (\A k \in j + 1 .. i : ~H(k)) <=> (\A k \in j + 1 .. i - 1 : ~H(k))
      BY <1>0, <1>6, <3>1
    <3>2. (\A k \in 1 .. i : ~H(k)) <=> (\A k \in 1 .. i - 1 : ~H(k))
      BY <1>0, <1>6
    <3> QED
      BY <1>0, <1>1, <1>2, <2>1, <2>2, <3>1, <3>2
  <2> QED
    BY <2>2, <1>3, <1>6
<1> QED
  BY <1>5, <1>6

\* One more line adds the entry on it, if it is one.
LEMMA EntriesStep ==
    ASSUME NEW lines, NEW mode, NEW i \in Nat \ {0}, NEW S, NEW b
    PROVE  Entries(lines, mode, i, S, b)
               = Entries(lines, mode, i - 1, S, b)
                     \union {x \in S : lines[i].text = x /\ Custom!Under(lines, mode, i, b)}
<1>1. \A k : k \in 1 .. i <=> (k \in 1 .. i - 1 \/ k = i)
  OBVIOUS
<1> QED
  BY <1>1 DEF Entries

\* The other parts of what is read.
LEMMA OthersStep ==
    ASSUME NEW lines, NEW mode, NEW i \in Nat \ {0}
    PROVE  /\ lines[i].text = "bypass_all" => ModeAt(lines, mode, i)
           /\ lines[i].text = "proxy_all" => ~ModeAt(lines, mode, i)
           /\ lines[i].text \notin {"bypass_all", "proxy_all"} =>
                 (ModeAt(lines, mode, i) <=> ModeAt(lines, mode, i - 1))
           /\ FailedAt(lines, i) <=> FailedAt(lines, i - 1) \/ lines[i].text = "unrecognized"
           /\ UrlsTo(lines, i) = UrlsTo(lines, i - 1) \union {u \in Urls : lines[i].url = u}
<1>1. /\ \A k : k \in 1 .. i <=> (k \in 1 .. i - 1 \/ k = i)
      /\ \A k : k \notin i + 1 .. i
      /\ i \notin 1 .. i - 1
      /\ \A j \in 1 .. i : \A k : k \in j + 1 .. i <=> (k \in j + 1 .. i - 1 \/ (k = i /\ j # i))
  OBVIOUS
<1>2. lines[i].text = "bypass_all" => ModeAt(lines, mode, i)
  BY <1>1 DEF ModeAt
<1>3. lines[i].text = "proxy_all" => ~ModeAt(lines, mode, i)
  BY <1>1 DEF ModeAt
<1>4. ASSUME lines[i].text \notin {"bypass_all", "proxy_all"}
      PROVE  ModeAt(lines, mode, i) <=> ModeAt(lines, mode, i - 1)
  BY <1>1, <1>4 DEF ModeAt
<1>5. FailedAt(lines, i) <=> FailedAt(lines, i - 1) \/ lines[i].text = "unrecognized"
  BY <1>1 DEF FailedAt
<1>6. UrlsTo(lines, i) = UrlsTo(lines, i - 1) \union {u \in Urls : lines[i].url = u}
  BY <1>1 DEF UrlsTo
<1> QED
  BY <1>2, <1>3, <1>4, <1>5, <1>6

\* Host names, subnets and the words of a file are different.
LEMMA Words ==
    /\ \A x \in Hosts : x \notin Subnets /\ x \notin Headings
                           /\ x \notin {"empty", "bypass_all", "proxy_all", "unrecognized"}
    /\ \A x \in Subnets : x \notin Hosts /\ x \notin Headings
                           /\ x \notin {"empty", "bypass_all", "proxy_all", "unrecognized"}
    /\ Custom!NoUrl \notin Urls
BY PartsAssumption DEF Custom!Blocks, Custom!Empty, Headings

\* The URL is taken first.
Taking(q, line) ==
    IF line.url = Custom!NoUrl THEN q ELSE [q EXCEPT !.urls = @ \union {line.url}]

\* It changes nothing else that was read.
LEMMA TakingLemma ==
    ASSUME NEW lines, NEW i \in Nat \ {0}, lines[i] \in Custom!Line,
           NEW q \in Parsed, q.urls = UrlsTo(lines, i - 1)
    PROVE  LET p == Taking(q, lines[i])
           IN  /\ p \in Parsed /\ p.urls = UrlsTo(lines, i)
               /\ p.bypass = q.bypass /\ p.list = q.list /\ p.failed = q.failed
               /\ p.bypassHostnames = q.bypassHostnames /\ p.proxyHostnames = q.proxyHostnames
               /\ p.bypassSubnets = q.bypassSubnets /\ p.proxySubnets = q.proxySubnets
<1>1. lines[i].url \in Urls \union {Custom!NoUrl}
  BY DEF Custom!Line
<1>2. UrlsTo(lines, i) = UrlsTo(lines, i - 1) \union {u \in Urls : lines[i].url = u}
  BY OthersStep
<1>3. CASE lines[i].url = Custom!NoUrl
  BY <1>2, <1>3, Words DEF Taking
<1>4. CASE lines[i].url \in Urls
  <2>1. UrlsTo(lines, i) = q.urls \union {lines[i].url}
    BY <1>2, <1>4
  <2>2. lines[i].url # Custom!NoUrl
    BY <1>4, Words
  <2> QED
    BY <1>4, <2>1, <2>2 DEF Taking, Parsed
<1> QED
  BY <1>1, <1>3, <1>4

\* What ParseLine makes of each kind of line.
LEMMA ParseLineLemma ==
    ASSUME NEW q \in Parsed, NEW line \in Custom!Line
    PROVE  LET p == Taking(q, line) t == line.text r == Custom!ParseLine(q, line)
           IN  /\ q.failed => r = q
               /\ ~q.failed =>
                  /\ t = "empty" => r = p
                  /\ t = "outbound_block_list" => r = [p EXCEPT !.list = "none"]
                  /\ t = "bypass_list" => r = [p EXCEPT !.list = "bypass"]
                  /\ t = "proxy_list" => r = [p EXCEPT !.list = "proxy"]
                  /\ t = "bypass_all" => r = [p EXCEPT !.bypass = TRUE]
                  /\ t = "proxy_all" => r = [p EXCEPT !.bypass = FALSE]
                  /\ t = "unrecognized" => r = [p EXCEPT !.failed = TRUE]
                  /\ t \in Hosts \union Subnets => r = Custom!AddEntry(p, t)
<1> DEFINE p == Taking(q, line)
<1>1. Custom!ParseLine(q, line) =
          IF q.failed THEN q
          ELSE CASE line.text = "empty"               -> p
            [] line.text = "outbound_block_list"      -> [p EXCEPT !.list = "none"]
            [] line.text = "bypass_list"              -> [p EXCEPT !.list = "bypass"]
            [] line.text = "proxy_list"               -> [p EXCEPT !.list = "proxy"]
            [] line.text = "bypass_all"               -> [p EXCEPT !.bypass = TRUE]
            [] line.text = "proxy_all"                -> [p EXCEPT !.bypass = FALSE]
            [] line.text = "unrecognized"             -> [p EXCEPT !.failed = TRUE]
            [] line.text \in Hosts \union Subnets     -> Custom!AddEntry(p, line.text)
  BY DEF Custom!ParseLine, Taking, Custom!Empty
<1> HIDE DEF p
<1>2. q.failed => Custom!ParseLine(q, line) = q
  BY <1>1
<1>3. ASSUME ~q.failed
      PROVE  /\ line.text = "empty" => Custom!ParseLine(q, line) = p
             /\ line.text = "outbound_block_list" => Custom!ParseLine(q, line) = [p EXCEPT !.list = "none"]
             /\ line.text = "bypass_list" => Custom!ParseLine(q, line) = [p EXCEPT !.list = "bypass"]
             /\ line.text = "proxy_list" => Custom!ParseLine(q, line) = [p EXCEPT !.list = "proxy"]
             /\ line.text = "bypass_all" => Custom!ParseLine(q, line) = [p EXCEPT !.bypass = TRUE]
             /\ line.text = "proxy_all" => Custom!ParseLine(q, line) = [p EXCEPT !.bypass = FALSE]
             /\ line.text = "unrecognized" => Custom!ParseLine(q, line) = [p EXCEPT !.failed = TRUE]
             /\ line.text \in Hosts \union Subnets
                    => Custom!ParseLine(q, line) = Custom!AddEntry(p, line.text)
  BY <1>1, <1>3, Words DEF Headings
<1> QED
  BY <1>2, <1>3 DEF p

\* Every line is read as it should be.
LEMMA ReadSoStep ==
    ASSUME NEW lines, NEW mode, NEW i \in Nat \ {0}, lines[i] \in Custom!Line,
           NEW q, ReadSo(q, lines, mode, i - 1)
    PROVE  ReadSo(Custom!ParseLine(q, lines[i]), lines, mode, i)
<1> DEFINE t == lines[i].text
           p == Taking(q, lines[i])
           r == Custom!ParseLine(q, lines[i])
<1>1. /\ q \in Parsed /\ (q.failed <=> FailedAt(lines, i - 1))
      /\ FailedAt(lines, i) <=> FailedAt(lines, i - 1) \/ t = "unrecognized"
  BY OthersStep DEF ReadSo
<1>2. CASE q.failed
  <2>1. r = q
    BY <1>1, <1>2, ParseLineLemma
  <2>2. r \in Parsed /\ r.failed /\ FailedAt(lines, i)
    BY <1>1, <1>2, <2>1
  <2> QED
    BY <2>2 DEF ReadSo
<1>3. CASE ~q.failed
  <2>0. (i - 1) + 1 = i
    OBVIOUS
  <2>1. /\ q.list = "bypass" <=> Custom!Under(lines, mode, i, "bypass_list")
        /\ q.list = "proxy" <=> Custom!Under(lines, mode, i, "proxy_list")
        /\ q.bypass <=> ModeAt(lines, mode, i - 1)
        /\ q.urls = UrlsTo(lines, i - 1)
        /\ q.bypassHostnames = Entries(lines, mode, i - 1, Hosts, "bypass_list")
        /\ q.proxyHostnames = Entries(lines, mode, i - 1, Hosts, "proxy_list")
        /\ q.bypassSubnets = Entries(lines, mode, i - 1, Subnets, "bypass_list")
        /\ q.proxySubnets = Entries(lines, mode, i - 1, Subnets, "proxy_list")
    BY <1>3, <2>0 DEF ReadSo
  <2>2. /\ p \in Parsed /\ p.urls = UrlsTo(lines, i)
        /\ p.bypass = q.bypass /\ p.list = q.list /\ p.failed = q.failed
        /\ p.bypassHostnames = q.bypassHostnames /\ p.proxyHostnames = q.proxyHostnames
        /\ p.bypassSubnets = q.bypassSubnets /\ p.proxySubnets = q.proxySubnets
    BY <1>1, <2>1, TakingLemma
  <2> DEFINE U(b, n) == Custom!Under(lines, mode, n, b)
             E(S, b, n) == Entries(lines, mode, n, S, b)
             M(n) == ModeAt(lines, mode, n)
  <2>3. \A S, b : E(S, b, i) = E(S, b, i - 1) \union {x \in S : t = x /\ U(b, i)}
    BY EntriesStep
  <2>4. \A b \in Headings : /\ t \in Headings => (U(b, i + 1) <=> t = b)
                            /\ t \notin Headings => (U(b, i + 1) <=> U(b, i))
    BY UnderStep
  <2>5. /\ t = "bypass_all" => M(i)
        /\ t = "proxy_all" => ~M(i)
        /\ t \notin {"bypass_all", "proxy_all"} => (M(i) <=> M(i - 1))
    BY OthersStep
  <2>6. /\ t = "empty" => r = p
        /\ t = "outbound_block_list" => r = [p EXCEPT !.list = "none"]
        /\ t = "bypass_list" => r = [p EXCEPT !.list = "bypass"]
        /\ t = "proxy_list" => r = [p EXCEPT !.list = "proxy"]
        /\ t = "bypass_all" => r = [p EXCEPT !.bypass = TRUE]
        /\ t = "proxy_all" => r = [p EXCEPT !.bypass = FALSE]
        /\ t = "unrecognized" => r = [p EXCEPT !.failed = TRUE]
        /\ t \in Hosts \union Subnets => r = Custom!AddEntry(p, t)
    BY <1>1, <1>3, ParseLineLemma
  <2>7. t \in Hosts \union Subnets \union Headings
              \union {"empty", "bypass_all", "proxy_all", "unrecognized"}
    BY DEF Custom!Line, Custom!Blocks, Custom!Empty, Headings
  <2>8. SUFFICES /\ r \in Parsed
                 /\ r.failed <=> t = "unrecognized"
                 /\ ~r.failed =>
                       /\ r.list = "bypass" <=> U("bypass_list", i + 1)
                       /\ r.list = "proxy" <=> U("proxy_list", i + 1)
                       /\ r.bypass <=> M(i)
                       /\ r.urls = UrlsTo(lines, i)
                       /\ r.bypassHostnames = E(Hosts, "bypass_list", i)
                       /\ r.proxyHostnames = E(Hosts, "proxy_list", i)
                       /\ r.bypassSubnets = E(Subnets, "bypass_list", i)
                       /\ r.proxySubnets = E(Subnets, "proxy_list", i)
    BY <1>1, <1>3 DEF ReadSo
  <2>9. /\ p.bypassHostnames = E(Hosts, "bypass_list", i - 1)
        /\ p.proxyHostnames = E(Hosts, "proxy_list", i - 1)
        /\ p.bypassSubnets = E(Subnets, "bypass_list", i - 1)
        /\ p.proxySubnets = E(Subnets, "proxy_list", i - 1)
        /\ (p.list = "bypass" <=> U("bypass_list", i))
        /\ (p.list = "proxy" <=> U("proxy_list", i))
        /\ (p.bypass <=> M(i - 1)) /\ ~p.failed
    BY <1>3, <2>1, <2>2
  <2> HIDE DEF t, p, r, U, E, M
  <2>0a. ASSUME NEW S, NEW b
         PROVE  /\ t \notin S \/ ~U(b, i) => E(S, b, i) = E(S, b, i - 1)
                /\ t \in S /\ U(b, i) => E(S, b, i) = E(S, b, i - 1) \union {t}
    <3>1. E(S, b, i) = E(S, b, i - 1) \union {x \in S : t = x /\ U(b, i)}
      BY <2>3
    <3>2. t \notin S \/ ~U(b, i) => {x \in S : t = x /\ U(b, i)} = {}
      OBVIOUS
    <3>3. t \in S /\ U(b, i) => {x \in S : t = x /\ U(b, i)} = {t}
      OBVIOUS
    <3>4. E(S, b, i - 1) \union {} = E(S, b, i - 1)
      OBVIOUS
    <3> QED
      BY <3>1, <3>2, <3>3, <3>4, Zenon
  <2>10. t \notin Hosts \union Subnets =>
             \A b : E(Hosts, b, i) = E(Hosts, b, i - 1) /\ E(Subnets, b, i) = E(Subnets, b, i - 1)
    BY <2>0a
  <2>11. CASE t \in Headings
    <3>1. t \notin Hosts \union Subnets /\ t \notin {"bypass_all", "proxy_all", "unrecognized"}
      BY <2>11, Words DEF Headings
    <3>2. r = [p EXCEPT !.list = IF t = "bypass_list" THEN "bypass"
                                 ELSE IF t = "proxy_list" THEN "proxy" ELSE "none"]
      BY <2>6, <2>11 DEF Headings
    <3>3. /\ U("bypass_list", i + 1) <=> t = "bypass_list"
          /\ U("proxy_list", i + 1) <=> t = "proxy_list"
      BY <2>4, <2>11 DEF Headings
    <3> QED
      BY <2>2, <2>5, <2>9, <2>10, <3>1, <3>2, <3>3 DEF Parsed
  <2>12. t \notin Headings => /\ U("bypass_list", i + 1) <=> U("bypass_list", i)
                              /\ U("proxy_list", i + 1) <=> U("proxy_list", i)
    BY <2>4 DEF Headings
  <2>13. CASE t \in {"empty", "bypass_all", "proxy_all", "unrecognized"}
    <3>1. t \notin Hosts \union Subnets /\ t \notin Headings
      BY <2>13, Words DEF Headings
    <3>2. CASE t = "empty"
      <4>1. r = p
        BY <2>6, <3>2
      <4>2. /\ r \in Parsed /\ r.list = p.list /\ r.urls = p.urls
            /\ r.bypassHostnames = p.bypassHostnames /\ r.proxyHostnames = p.proxyHostnames
            /\ r.bypassSubnets = p.bypassSubnets /\ r.proxySubnets = p.proxySubnets
            /\ r.bypass = p.bypass /\ r.failed = p.failed
        BY <2>2, <4>1 DEF Parsed
      <4> QED
        BY <2>2, <2>5, <2>9, <2>10, <2>12, <3>1, <3>2, <4>2
    <3>3. CASE t = "bypass_all"
      <4>1. r = [p EXCEPT !.bypass = TRUE]
        BY <2>6, <3>3
      <4>2. /\ r \in Parsed /\ r.list = p.list /\ r.urls = p.urls
            /\ r.bypassHostnames = p.bypassHostnames /\ r.proxyHostnames = p.proxyHostnames
            /\ r.bypassSubnets = p.bypassSubnets /\ r.proxySubnets = p.proxySubnets
            /\ r.bypass = TRUE /\ r.failed = p.failed
        BY <2>2, <4>1 DEF Parsed
      <4> QED
        BY <2>2, <2>5, <2>9, <2>10, <2>12, <3>1, <3>3, <4>2
    <3>4. CASE t = "proxy_all"
      <4>1. r = [p EXCEPT !.bypass = FALSE]
        BY <2>6, <3>4
      <4>2. /\ r \in Parsed /\ r.list = p.list /\ r.urls = p.urls
            /\ r.bypassHostnames = p.bypassHostnames /\ r.proxyHostnames = p.proxyHostnames
            /\ r.bypassSubnets = p.bypassSubnets /\ r.proxySubnets = p.proxySubnets
            /\ r.bypass = FALSE /\ r.failed = p.failed
        BY <2>2, <4>1 DEF Parsed
      <4> QED
        BY <2>2, <2>5, <2>9, <2>10, <2>12, <3>1, <3>4, <4>2
    <3>5. CASE t = "unrecognized"
      <4>1. r = [p EXCEPT !.failed = TRUE]
        BY <2>6, <3>5
      <4>2. /\ r \in Parsed /\ r.list = p.list /\ r.urls = p.urls
            /\ r.bypassHostnames = p.bypassHostnames /\ r.proxyHostnames = p.proxyHostnames
            /\ r.bypassSubnets = p.bypassSubnets /\ r.proxySubnets = p.proxySubnets
            /\ r.bypass = p.bypass /\ r.failed = TRUE
        BY <2>2, <4>1 DEF Parsed
      <4> QED
        BY <2>2, <2>5, <2>9, <2>10, <2>12, <3>1, <3>5, <4>2
    <3> QED
      BY <2>13, <3>2, <3>3, <3>4, <3>5
  <2>14. CASE t \in Hosts
    <3>1. t \notin Subnets /\ t \notin Headings
          /\ t \notin {"bypass_all", "proxy_all", "unrecognized"}
      BY <2>14, Words DEF Headings
    <3>2. /\ \A b : E(Subnets, b, i) = E(Subnets, b, i - 1)
          /\ \A b : U(b, i) => E(Hosts, b, i) = E(Hosts, b, i - 1) \union {t}
          /\ \A b : ~U(b, i) => E(Hosts, b, i) = E(Hosts, b, i - 1)
      BY <2>0a, <2>14, <3>1
    <3>3. /\ p.list = "bypass" => r = [p EXCEPT !.bypassHostnames = @ \union {t}]
          /\ p.list = "proxy" => r = [p EXCEPT !.proxyHostnames = @ \union {t}]
          /\ p.list = "none" => r = p
      BY <2>6, <2>14, <3>1 DEF Custom!AddEntry
    <3>4. p.list \in {"bypass", "proxy", "none"}
      BY <2>2 DEF Parsed
    <3>5. /\ M(i) <=> M(i - 1)
          /\ U("bypass_list", i + 1) <=> p.list = "bypass"
          /\ U("proxy_list", i + 1) <=> p.list = "proxy"
      BY <2>5, <2>9, <2>12, <3>1
    <3>6. CASE p.list = "bypass"
      <4>1. U("bypass_list", i) /\ ~U("proxy_list", i)
        BY <2>9, <3>6
      <4>2. E(Hosts, "bypass_list", i) = p.bypassHostnames \union {t}
            /\ E(Hosts, "proxy_list", i) = p.proxyHostnames
        BY <2>9, <3>2, <4>1
      <4>3. r = [p EXCEPT !.bypassHostnames = @ \union {t}]
        BY <3>3, <3>6
      <4>4. /\ r \in Parsed /\ r.bypassHostnames = p.bypassHostnames \union {t}
            /\ r.bypass = p.bypass /\ r.list = p.list /\ r.failed = p.failed /\ r.urls = p.urls
            /\ r.proxyHostnames = p.proxyHostnames /\ r.bypassSubnets = p.bypassSubnets
            /\ r.proxySubnets = p.proxySubnets
        BY <2>2, <2>14, <4>3 DEF Parsed
      <4> QED
        BY <2>2, <2>9, <3>1, <3>2, <3>5, <4>2, <4>4
    <3>7. CASE p.list = "proxy"
      <4>1. ~U("bypass_list", i) /\ U("proxy_list", i)
        BY <2>9, <3>7
      <4>2. E(Hosts, "proxy_list", i) = p.proxyHostnames \union {t}
            /\ E(Hosts, "bypass_list", i) = p.bypassHostnames
        BY <2>9, <3>2, <4>1
      <4>3. r = [p EXCEPT !.proxyHostnames = @ \union {t}]
        BY <3>3, <3>7
      <4>4. /\ r \in Parsed /\ r.proxyHostnames = p.proxyHostnames \union {t}
            /\ r.bypass = p.bypass /\ r.list = p.list /\ r.failed = p.failed /\ r.urls = p.urls
            /\ r.bypassHostnames = p.bypassHostnames /\ r.bypassSubnets = p.bypassSubnets
            /\ r.proxySubnets = p.proxySubnets
        BY <2>2, <2>14, <4>3 DEF Parsed
      <4> QED
        BY <2>2, <2>9, <3>1, <3>2, <3>5, <4>2, <4>4
    <3>8. CASE p.list = "none"
      <4>1. ~U("bypass_list", i) /\ ~U("proxy_list", i)
        BY <2>9, <3>8
      <4>2. E(Hosts, "proxy_list", i) = p.proxyHostnames
            /\ E(Hosts, "bypass_list", i) = p.bypassHostnames
        BY <2>9, <3>2, <4>1
      <4> QED
        BY <2>2, <2>9, <2>14, <3>1, <3>2, <3>3, <3>5, <3>8, <4>2 DEF Parsed
    <3> QED
      BY <3>4, <3>6, <3>7, <3>8
  <2>15. CASE t \in Subnets
    <3>1. t \notin Hosts /\ t \notin Headings
          /\ t \notin {"bypass_all", "proxy_all", "unrecognized"}
      BY <2>15, Words DEF Headings
    <3>2. /\ \A b : E(Hosts, b, i) = E(Hosts, b, i - 1)
          /\ \A b : U(b, i) => E(Subnets, b, i) = E(Subnets, b, i - 1) \union {t}
          /\ \A b : ~U(b, i) => E(Subnets, b, i) = E(Subnets, b, i - 1)
      BY <2>0a, <2>15, <3>1
    <3>3. /\ p.list = "bypass" => r = [p EXCEPT !.bypassSubnets = @ \union {t}]
          /\ p.list = "proxy" => r = [p EXCEPT !.proxySubnets = @ \union {t}]
          /\ p.list = "none" => r = p
      BY <2>6, <2>15, <3>1 DEF Custom!AddEntry
    <3>4. p.list \in {"bypass", "proxy", "none"}
      BY <2>2 DEF Parsed
    <3>5. /\ M(i) <=> M(i - 1)
          /\ U("bypass_list", i + 1) <=> p.list = "bypass"
          /\ U("proxy_list", i + 1) <=> p.list = "proxy"
      BY <2>5, <2>9, <2>12, <3>1
    <3>6. CASE p.list = "bypass"
      <4>1. U("bypass_list", i) /\ ~U("proxy_list", i)
        BY <2>9, <3>6
      <4>2. E(Subnets, "bypass_list", i) = p.bypassSubnets \union {t}
            /\ E(Subnets, "proxy_list", i) = p.proxySubnets
        BY <2>9, <3>2, <4>1
      <4>3. r = [p EXCEPT !.bypassSubnets = @ \union {t}]
        BY <3>3, <3>6
      <4>4. /\ r \in Parsed /\ r.bypassSubnets = p.bypassSubnets \union {t}
            /\ r.bypass = p.bypass /\ r.list = p.list /\ r.failed = p.failed /\ r.urls = p.urls
            /\ r.bypassHostnames = p.bypassHostnames /\ r.proxyHostnames = p.proxyHostnames
            /\ r.proxySubnets = p.proxySubnets
        BY <2>2, <2>15, <4>3 DEF Parsed
      <4> QED
        BY <2>2, <2>9, <3>1, <3>2, <3>5, <4>2, <4>4
    <3>7. CASE p.list = "proxy"
      <4>1. ~U("bypass_list", i) /\ U("proxy_list", i)
        BY <2>9, <3>7
      <4>2. E(Subnets, "proxy_list", i) = p.proxySubnets \union {t}
            /\ E(Subnets, "bypass_list", i) = p.bypassSubnets
        BY <2>9, <3>2, <4>1
      <4>3. r = [p EXCEPT !.proxySubnets = @ \union {t}]
        BY <3>3, <3>7
      <4>4. /\ r \in Parsed /\ r.proxySubnets = p.proxySubnets \union {t}
            /\ r.bypass = p.bypass /\ r.list = p.list /\ r.failed = p.failed /\ r.urls = p.urls
            /\ r.bypassHostnames = p.bypassHostnames /\ r.proxyHostnames = p.proxyHostnames
            /\ r.bypassSubnets = p.bypassSubnets
        BY <2>2, <2>15, <4>3 DEF Parsed
      <4> QED
        BY <2>2, <2>9, <3>1, <3>2, <3>5, <4>2, <4>4
    <3>8. CASE p.list = "none"
      <4>1. ~U("bypass_list", i) /\ ~U("proxy_list", i)
        BY <2>9, <3>8
      <4>2. E(Subnets, "proxy_list", i) = p.proxySubnets
            /\ E(Subnets, "bypass_list", i) = p.bypassSubnets
        BY <2>9, <3>2, <4>1
      <4> QED
        BY <2>2, <2>9, <2>15, <3>1, <3>2, <3>3, <3>5, <3>8, <4>2 DEF Parsed
    <3> QED
      BY <3>4, <3>6, <3>7, <3>8
  <2> QED
    BY <2>7, <2>11, <2>13, <2>14, <2>15
<1> QED
  BY <1>2, <1>3

\* Parse reads the whole file as it should be read.
LEMMA ParseLemma ==
    ASSUME NEW lines \in Seq(Custom!Line), NEW mode \in BOOLEAN
    PROVE  ReadSo(Custom!Parse(lines, mode), lines, mode, Len(lines))
<1> DEFINE begin == Custom!Begin(mode, IF mode THEN "proxy" ELSE "bypass")
           A == Custom!Reading(lines, begin)
           T == {i \in 0 .. Len(lines) : ReadSo(A[i], lines, mode, i)}
<1>1. Len(lines) \in Nat /\ \A i \in 1 .. Len(lines) : lines[i] \in Custom!Line
  OBVIOUS
<1>2. /\ A[0] = begin
      /\ \A i \in 1 .. Len(lines) : A[i] = Custom!ParseLine(A[i - 1], lines[i])
  BY <1>1, ReadingLemma
<1>3. ReadSo(begin, lines, mode, 0)
  <2>1. begin \in Parsed /\ ~begin.failed
    BY DEF Custom!Begin, Parsed
  <2>2. \A k : k \notin 1 .. 0
    OBVIOUS
  <2>3. \A b : Custom!Under(lines, mode, 0 + 1, b) <=> b = (IF mode THEN "proxy_list" ELSE "bypass_list")
    <3>1. (0 + 1) - 1 = 0
      OBVIOUS
    <3> QED
      BY <2>2, <3>1 DEF Custom!Under
  <2>4. /\ begin.list = "bypass" <=> Custom!Under(lines, mode, 0 + 1, "bypass_list")
        /\ begin.list = "proxy" <=> Custom!Under(lines, mode, 0 + 1, "proxy_list")
    BY <2>3 DEF Custom!Begin
  <2>5. /\ ~FailedAt(lines, 0) /\ UrlsTo(lines, 0) = {} /\ (ModeAt(lines, mode, 0) <=> mode)
        /\ \A S, b : Entries(lines, mode, 0, S, b) = {}
    BY <2>2 DEF FailedAt, UrlsTo, ModeAt, Entries
  <2> QED
    BY <2>1, <2>4, <2>5 DEF ReadSo, Custom!Begin
<1> HIDE DEF begin, A
<1>4. 0 \in T
  BY <1>1, <1>2, <1>3
<1>5. ASSUME NEW n \in 0 .. Len(lines), n < Len(lines), n \in T PROVE n + 1 \in T
  <2>1. n + 1 \in 1 .. Len(lines) /\ n + 1 \in Nat \ {0} /\ (n + 1) - 1 = n
    BY <1>1, <1>5
  <2>2. A[n + 1] = Custom!ParseLine(A[n], lines[n + 1]) /\ lines[n + 1] \in Custom!Line
    BY <1>1, <1>2, <2>1
  <2>3. ReadSo(A[n], lines, mode, (n + 1) - 1)
    BY <1>5, <2>1
  <2>4. ReadSo(A[n + 1], lines, mode, n + 1)
    BY <2>1, <2>2, <2>3, ReadSoStep
  <2> QED
    BY <2>1, <2>4
<1> HIDE DEF T
<1>6. 0 .. Len(lines) \subseteq T
  BY <1>1, <1>4, <1>5, Induction
<1>7. Len(lines) \in T
  BY <1>1, <1>6
<1>8. ReadSo(A[Len(lines)], lines, mode, Len(lines))
  BY <1>7 DEF T
<1> QED
  BY <1>8 DEF A, begin, Custom!Parse

\* What the reader returns, in terms of the file.
Lists(lines, mode, S, b) == {x \in S : b \in Custom!ListedUnder(lines, mode, x)}

\* The reader fails exactly when a line is not recognized; otherwise host names
\* are in the list they are under, and the subnets are those of the list that the
\* mode at the end calls for.
LEMMA FromReaderLemma ==
    ASSUME NEW lines \in Seq(Custom!Line), NEW mode \in BOOLEAN
    PROVE  LET r == Custom!FromReader(lines, mode)
           IN  /\ r = Failed <=> FailedAt(lines, Len(lines))
               /\ r # Failed =>
                    /\ r \in Custom!Rules
                    /\ r.bypass <=> ModeAt(lines, mode, Len(lines))
                    /\ r.urls = UrlsTo(lines, Len(lines))
                    /\ r.bypassHostnames = Lists(lines, mode, Hosts, "bypass_list")
                    /\ r.proxyHostnames = Lists(lines, mode, Hosts, "proxy_list")
                    /\ r.subnets = Lists(lines, mode, Subnets,
                                         IF r.bypass THEN "proxy_list" ELSE "bypass_list")
<1> DEFINE p == Custom!Parse(lines, mode)
           n == Len(lines)
           r == Custom!FromReader(lines, mode)
           rec == [bypassHostnames |-> p.bypassHostnames, proxyHostnames |-> p.proxyHostnames,
                   subnets |-> IF p.bypass THEN p.proxySubnets ELSE p.bypassSubnets,
                   urls |-> p.urls, bypass |-> p.bypass]
<1>1. ReadSo(p, lines, mode, n)
  BY ParseLemma
<1>2. r = IF p.failed THEN Failed ELSE rec
  BY DEF Custom!FromReader
<1>3. \A S : \A b \in {"bypass_list", "proxy_list"} : Lists(lines, mode, S, b) = Entries(lines, mode, n, S, b)
  <2>1. DOMAIN lines = 1 .. n
    OBVIOUS
  <2> QED
    BY <2>1 DEF Lists, Entries, Custom!ListedUnder
<1>4. /\ p \in Parsed
      /\ p.failed <=> FailedAt(lines, n)
      /\ ~p.failed =>
            /\ p.bypass <=> ModeAt(lines, mode, n)
            /\ p.urls = UrlsTo(lines, n)
            /\ p.bypassHostnames = Lists(lines, mode, Hosts, "bypass_list")
            /\ p.proxyHostnames = Lists(lines, mode, Hosts, "proxy_list")
            /\ p.bypassSubnets = Lists(lines, mode, Subnets, "bypass_list")
            /\ p.proxySubnets = Lists(lines, mode, Subnets, "proxy_list")
  BY <1>1, <1>3 DEF ReadSo
<1> HIDE DEF p
<1>5. rec \in Custom!Rules
  BY <1>4 DEF Parsed, Custom!Rules
<1>6. rec # Failed
  BY <1>5, PartsAssumption
<1>7. r = Failed <=> p.failed
  BY <1>2, <1>6
<1>8. ASSUME ~p.failed
      PROVE  /\ r \in Custom!Rules
             /\ r.bypass <=> ModeAt(lines, mode, n)
             /\ r.urls = UrlsTo(lines, n)
             /\ r.bypassHostnames = Lists(lines, mode, Hosts, "bypass_list")
             /\ r.proxyHostnames = Lists(lines, mode, Hosts, "proxy_list")
             /\ r.subnets = Lists(lines, mode, Subnets,
                                  IF r.bypass THEN "proxy_list" ELSE "bypass_list")
  <2>1. r = rec
    BY <1>2, <1>8
  <2> QED
    BY <1>4, <1>5, <1>8, <2>1
<1> QED
  BY <1>4, <1>7, <1>8

\* customRules of the user's file.
LEMMA CustomRulesLemma ==
    ASSUME NEW lines \in Seq(Custom!Line)
    PROVE  LET a == Custom!CustomRules(lines)
           IN  a # Failed =>
                    /\ a \in Custom!Rules /\ a.bypass
                    /\ a.bypassHostnames = Lists(lines, TRUE, Hosts, "bypass_list")
                    /\ a.proxyHostnames = Lists(lines, TRUE, Hosts, "proxy_list")
                    /\ a.subnets \subseteq Lists(lines, TRUE, Subnets, "proxy_list")
<1> DEFINE f == Custom!FromReader(lines, TRUE)
           a == Custom!CustomRules(lines)
<1>1. a = IF f = Failed \/ f.bypass THEN f ELSE [f EXCEPT !.bypass = TRUE, !.subnets = {}]
  BY DEF Custom!CustomRules
<1>2. f # Failed =>
        /\ f \in Custom!Rules
        /\ f.bypassHostnames = Lists(lines, TRUE, Hosts, "bypass_list")
        /\ f.proxyHostnames = Lists(lines, TRUE, Hosts, "proxy_list")
        /\ f.subnets = Lists(lines, TRUE, Subnets, IF f.bypass THEN "proxy_list" ELSE "bypass_list")
  BY FromReaderLemma
<1> HIDE DEF f, a
<1> SUFFICES ASSUME a # Failed
             PROVE  /\ a \in Custom!Rules /\ a.bypass
                    /\ a.bypassHostnames = Lists(lines, TRUE, Hosts, "bypass_list")
                    /\ a.proxyHostnames = Lists(lines, TRUE, Hosts, "proxy_list")
                    /\ a.subnets \subseteq Lists(lines, TRUE, Subnets, "proxy_list")
  BY DEF a
<1>3. f # Failed
  BY <1>1
<1>4. CASE f.bypass
  BY <1>1, <1>2, <1>3, <1>4
<1>5. CASE ~f.bypass
  BY <1>1, <1>2, <1>3, <1>5 DEF Custom!Rules
<1> QED
  BY <1>4, <1>5

-----------------------------------------------------------------------------
(* Acl: the files reached *)

\* One import more than those of f.
ReachOn(f, r, d) == IF d = 1 THEN r ELSE f[d - 1] \union Custom!Imports(f[d - 1])

\* A recursive function is a solution of its equation.
LEMMA WithinForm ==
    ASSUME NEW r
    PROVE  Custom!Within(r) = CHOOSE f : f = [d \in 1 .. MaxDepth |-> ReachOn(f, r, d)]
BY DEF Custom!Within, ReachOn

\* The equation has a solution, built up import by import.
LEMMA WithinLemma ==
    ASSUME NEW r
    PROVE  /\ Custom!Within(r)[1] = r
           /\ \A d \in 1 .. MaxDepth - 1 :
                 Custom!Within(r)[d + 1]
                     = Custom!Within(r)[d] \union Custom!Imports(Custom!Within(r)[d])
<1> DEFINE Solves(f, n) == f = [d \in 1 .. n |-> ReachOn(f, r, d)]
           T == {n \in Nat : \E f : Solves(f, n)}
<1>0. MaxDepth \in Nat \ {0}
  BY PartsAssumption
<1>1. 0 \in T
  <2> DEFINE f == [d \in 1 .. 0 |-> r]
  <2>1. f = [d \in 1 .. 0 |-> ReachOn(f, r, d)]
    <3>1. \A d : d \notin 1 .. 0
      OBVIOUS
    <3> QED
      BY <3>1
  <2>2. Solves(f, 0)
    BY <2>1
  <2> HIDE DEF f
  <2> QED
    BY <2>2
<1>2. ASSUME NEW n \in T PROVE n + 1 \in T
  <2>1. PICK f : Solves(f, n)
    OBVIOUS
  <2>2. n \in Nat /\ n + 1 \in Nat
    OBVIOUS
  <2>3. f = [d \in 1 .. n |-> ReachOn(f, r, d)]
    BY <2>1
  <2> DEFINE g == [d \in 1 .. n + 1 |-> IF d <= n THEN f[d] ELSE ReachOn(f, r, d)]
  <2>4. ASSUME NEW d \in 1 .. n + 1 PROVE g[d] = ReachOn(g, r, d)
    <3>1. d # 1 => d - 1 \in 1 .. n + 1 /\ d - 1 <= n
      BY <2>2
    <3>2. d # 1 => g[d - 1] = f[d - 1]
      BY <3>1
    <3>3. ReachOn(f, r, d) = ReachOn(g, r, d)
      BY <3>2 DEF ReachOn
    <3>4. d <= n => d \in 1 .. n
      BY <2>2
    <3>5. d \in 1 .. n => f[d] = ReachOn(f, r, d)
      BY <2>3
    <3> QED
      BY <3>3, <3>4, <3>5
  <2>5. g = [d \in 1 .. n + 1 |-> ReachOn(g, r, d)]
    BY <2>4
  <2>6. Solves(g, n + 1)
    BY <2>5
  <2> HIDE DEF g
  <2> QED
    BY <2>2, <2>6
<1> HIDE DEF T
<1>3. MaxDepth \in T
  <2>1. 0 .. MaxDepth \subseteq T
    BY <1>0, <1>1, <1>2, Induction
  <2> QED
    BY <1>0, <2>1
<1> USE DEF T
<1>4. \E f : f = [d \in 1 .. MaxDepth |-> ReachOn(f, r, d)]
  BY <1>3
<1> DEFINE w == Custom!Within(r)
<1>5. w = [d \in 1 .. MaxDepth |-> ReachOn(w, r, d)]
  BY <1>4, WithinForm
<1> HIDE DEF w
<1>6. w[1] = r
  <2>1. 1 \in 1 .. MaxDepth
    BY <1>0
  <2>2. w[1] = ReachOn(w, r, 1)
    BY <1>5, <2>1
  <2> QED
    BY <2>2 DEF ReachOn
<1>7. ASSUME NEW d \in 1 .. MaxDepth - 1
      PROVE  w[d + 1] = w[d] \union Custom!Imports(w[d])
  <2>1. d + 1 \in 1 .. MaxDepth /\ d + 1 # 1 /\ (d + 1) - 1 = d
    BY <1>0
  <2>2. w[d + 1] = ReachOn(w, r, d + 1)
    BY <1>5, <2>1
  <2> QED
    BY <2>1, <2>2 DEF ReachOn
<1> QED
  BY <1>6, <1>7 DEF w

\* A file as its reader finds it.
FileAt(x) == Custom!FromReader(content[x[1]], x[2])

\* What the files of r import.
LEMMA ImportsLemma ==
    ASSUME NEW r
    PROVE  \A y : y \in Custom!Imports(r) <=>
               \E x \in r : \E v \in FileAt(x).urls : y = <<v, FileAt(x).bypass>>
BY DEF Custom!Imports, FileAt

\* Imports of the files together are those of each.
LEMMA ImportsAdd ==
    /\ \A r, s : Custom!Imports(r \union s) = Custom!Imports(r) \union Custom!Imports(s)
    /\ \A r, y : y \in Custom!Imports(r) <=> \E x \in r : y \in Custom!Imports({x})
<1>1. ASSUME NEW r, NEW s
      PROVE  Custom!Imports(r \union s) = Custom!Imports(r) \union Custom!Imports(s)
  <2>1. ASSUME NEW y
        PROVE  y \in Custom!Imports(r \union s) <=> y \in Custom!Imports(r) \/ y \in Custom!Imports(s)
    BY ImportsLemma
  <2> QED
    BY <2>1
<1>2. ASSUME NEW r, NEW y
      PROVE  y \in Custom!Imports(r) <=> \E x \in r : y \in Custom!Imports({x})
  <2>1. y \in Custom!Imports(r) <=>
            \E x \in r : \E v \in FileAt(x).urls : y = <<v, FileAt(x).bypass>>
    BY ImportsLemma
  <2>2. ASSUME NEW x
        PROVE  y \in Custom!Imports({x}) <=> \E v \in FileAt(x).urls : y = <<v, FileAt(x).bypass>>
    <3>1. y \in Custom!Imports({x}) <=>
              \E z \in {x} : \E v \in FileAt(z).urls : y = <<v, FileAt(z).bypass>>
      BY ImportsLemma
    <3> QED
      BY <3>1
  <2> QED
    BY <2>1, <2>2
<1> QED
  BY <1>1, <1>2

\* Files reached from r are reached from what r imports, with one import fewer.
LEMMA WithinSplit ==
    ASSUME NEW r, NEW d \in 1 .. MaxDepth - 1
    PROVE  /\ Custom!Within(r)[d + 1] = r \union Custom!Within(Custom!Imports(r))[d]
           /\ Custom!Imports(r) \subseteq Custom!Within(Custom!Imports(r))[d]
<1> DEFINE w == Custom!Within(r)
           I == Custom!Imports(r)
           v == Custom!Within(I)
           T == {n \in 0 .. MaxDepth - 2 : w[n + 2] = r \union v[n + 1] /\ I \subseteq v[n + 1]}
<1>0. MaxDepth \in Nat \ {0} /\ MaxDepth - 2 \in Nat /\ d - 1 \in 0 .. MaxDepth - 2
  BY PartsAssumption
<1>1. /\ w[1] = r /\ v[1] = I
      /\ \A n \in 1 .. MaxDepth - 1 : w[n + 1] = w[n] \union Custom!Imports(w[n])
      /\ \A n \in 1 .. MaxDepth - 1 : v[n + 1] = v[n] \union Custom!Imports(v[n])
  BY WithinLemma
<1>2. I = Custom!Imports(r)
  OBVIOUS
<1> HIDE DEF w, v, I
<1>3. 0 \in T
  <2>1. 1 \in 1 .. MaxDepth - 1 /\ 1 + 1 = 2 /\ 0 + 2 = 2 /\ 0 + 1 = 1 /\ 0 \in 0 .. MaxDepth - 2
    BY <1>0
  <2>2. w[2] = r \union I
    BY <1>1, <1>2, <2>1
  <2> QED
    BY <1>1, <2>1, <2>2
<1>4. ASSUME NEW n \in 0 .. MaxDepth - 2, n < MaxDepth - 2, n \in T PROVE n + 1 \in T
  <2>1. /\ n + 1 \in 0 .. MaxDepth - 2 /\ n + 1 \in 1 .. MaxDepth - 1 /\ n + 2 \in 1 .. MaxDepth - 1
        /\ (n + 1) + 1 = n + 2 /\ (n + 1) + 2 = (n + 2) + 1
    BY <1>0, <1>4
  <2>2. w[n + 2] = r \union v[n + 1] /\ I \subseteq v[n + 1]
    BY <1>4
  <2>3. w[(n + 2) + 1] = w[n + 2] \union Custom!Imports(w[n + 2])
    BY <1>1, <2>1
  <2>4. v[(n + 1) + 1] = v[n + 1] \union Custom!Imports(v[n + 1])
    BY <1>1, <2>1
  <2>5. Custom!Imports(w[n + 2]) = I \union Custom!Imports(v[n + 1])
    BY <2>2, <1>2, ImportsAdd
  <2>6. w[(n + 2) + 1] = r \union v[(n + 1) + 1] /\ I \subseteq v[(n + 1) + 1]
    BY <2>2, <2>3, <2>4, <2>5
  <2> QED
    BY <2>1, <2>6
<1> HIDE DEF T
<1>5. 0 .. MaxDepth - 2 \subseteq T
  BY <1>0, <1>3, <1>4, Induction
<1>6. d - 1 \in T
  BY <1>0, <1>5
<1>7. (d - 1) + 2 = d + 1 /\ (d - 1) + 1 = d
  OBVIOUS
<1> QED
  BY <1>6, <1>7 DEF T, w, v, I

\* What is reached from some files is what is reached from each of them.
LEMMA WithinAdd ==
    ASSUME NEW r, NEW d \in 1 .. MaxDepth
    PROVE  \A y : y \in Custom!Within(r)[d] <=> \E x \in r : y \in Custom!Within({x})[d]
<1> DEFINE W(s) == Custom!Within(s)
           T == {n \in 0 .. MaxDepth - 1 :
                    \A y : y \in W(r)[n + 1] <=> \E x \in r : y \in W({x})[n + 1]}
<1>0. MaxDepth \in Nat \ {0} /\ MaxDepth - 1 \in Nat /\ d - 1 \in 0 .. MaxDepth - 1 /\ (d - 1) + 1 = d
  BY PartsAssumption
<1>1. \A s : /\ W(s)[1] = s
             /\ \A n \in 1 .. MaxDepth - 1 : W(s)[n + 1] = W(s)[n] \union Custom!Imports(W(s)[n])
  BY WithinLemma
<1> HIDE DEF W
<1>2. 0 \in T
  <2>1. 0 \in 0 .. MaxDepth - 1 /\ 0 + 1 = 1
    BY <1>0
  <2>2. W(r)[0 + 1] = r /\ \A x : W({x})[0 + 1] = {x}
    BY <1>1, <2>1
  <2>3. ASSUME NEW y PROVE y \in W(r)[0 + 1] <=> \E x \in r : y \in W({x})[0 + 1]
    <3>1. y \in r <=> \E x \in r : y \in {x}
      OBVIOUS
    <3> QED
      BY <2>2, <3>1, Zenon
  <2> QED
    BY <2>1, <2>3
<1>3. ASSUME NEW n \in 0 .. MaxDepth - 1, n < MaxDepth - 1, n \in T PROVE n + 1 \in T
  <2>1. n + 1 \in 0 .. MaxDepth - 1 /\ n + 1 \in 1 .. MaxDepth - 1
    BY <1>0, <1>3
  <2>2. \A s : W(s)[(n + 1) + 1] = W(s)[n + 1] \union Custom!Imports(W(s)[n + 1])
    BY <1>1, <2>1
  <2>3. \A y : y \in W(r)[n + 1] <=> \E x \in r : y \in W({x})[n + 1]
    BY <1>3
  <2>4. ASSUME NEW y
        PROVE  y \in W(r)[(n + 1) + 1] <=> \E x \in r : y \in W({x})[(n + 1) + 1]
    <3>0. \A A : y \in A \union Custom!Imports(A) <=>
                     y \in A \/ \E z \in A : y \in Custom!Imports({z})
      BY ImportsAdd
    <3>1. y \in W(r)[(n + 1) + 1] <=>
              \/ y \in W(r)[n + 1]
              \/ \E z \in W(r)[n + 1] : y \in Custom!Imports({z})
      BY <2>2, <3>0
    <3>2. \A x : y \in W({x})[(n + 1) + 1] <=>
              \/ y \in W({x})[n + 1]
              \/ \E z \in W({x})[n + 1] : y \in Custom!Imports({z})
      BY <2>2, <3>0
    <3> QED
      BY <2>3, <3>1, <3>2
  <2> QED
    BY <2>1, <2>4
<1> HIDE DEF T
<1>4. 0 .. MaxDepth - 1 \subseteq T
  BY <1>0, <1>2, <1>3, Induction
<1>5. d - 1 \in T
  BY <1>0, <1>4
<1> QED
  BY <1>0, <1>5 DEF T, W

-----------------------------------------------------------------------------
(* Acl: importing *)

\* The children flattened, when f has those with less depth.
Below(f, d, u, mode) ==
    LET c == Custom!FromReader(content[u], mode)
    IN  IF c = Failed THEN Failed
        ELSE Custom!Merge(c, IF d = 0 THEN {} ELSE {f[d - 1][v][c.bypass] : v \in c.urls})

Children(f, d) == [u \in Urls |-> [mode \in BOOLEAN |-> Below(f, d, u, mode)]]

\* A recursive function is a solution of its equation.
LEMMA ChildForm ==
    ASSUME NEW depth
    PROVE  Custom!Child(depth) = CHOOSE f : f = [d \in 0 .. depth |-> Children(f, d)]
BY DEF Custom!Child, Children, Below

\* Only the children with less depth matter.
LEMMA ChildrenLocal ==
    ASSUME NEW f, NEW g, NEW d, d # 0 => f[d - 1] = g[d - 1]
    PROVE  Children(f, d) = Children(g, d)
<1>1. ASSUME NEW u \in Urls, NEW mode \in BOOLEAN
      PROVE  Below(f, d, u, mode) = Below(g, d, u, mode)
  BY DEF Below
<1> QED
  BY <1>1 DEF Children

\* The equation has a solution, built up depth by depth.
LEMMA ChildLemma ==
    ASSUME NEW depth \in Nat
    PROVE  \A d \in 0 .. depth : \A u \in Urls, mode \in BOOLEAN :
               Custom!Child(depth)[d][u][mode] = Below(Custom!Child(depth), d, u, mode)
<1> DEFINE Solves(f, n) == f = [d \in 0 .. n |-> Children(f, d)]
           T == {n \in Nat : \E f : Solves(f, n)}
<1>1. 0 \in T
  <2> DEFINE f == [d \in 0 .. 0 |-> Children(<<>>, 0)]
  <2>1. f = [d \in 0 .. 0 |-> Children(f, d)]
    <3>1. \A d \in 0 .. 0 : d = 0
      OBVIOUS
    <3>2. Children(f, 0) = Children(<<>>, 0)
      BY ChildrenLocal
    <3> QED
      BY <3>1, <3>2
  <2>2. Solves(f, 0)
    BY <2>1
  <2> HIDE DEF f
  <2> QED
    BY <2>2
<1>2. ASSUME NEW n \in T PROVE n + 1 \in T
  <2>1. PICK f : Solves(f, n)
    OBVIOUS
  <2>2. n \in Nat /\ n + 1 \in Nat
    OBVIOUS
  <2>3. f = [d \in 0 .. n |-> Children(f, d)]
    BY <2>1
  <2> DEFINE g == [d \in 0 .. n + 1 |-> IF d <= n THEN f[d] ELSE Children(f, d)]
  <2>4. ASSUME NEW d \in 0 .. n + 1 PROVE g[d] = Children(g, d)
    <3>1. d # 0 => d - 1 \in 0 .. n + 1 /\ d - 1 <= n
      BY <2>2
    <3>2. d # 0 => g[d - 1] = f[d - 1]
      BY <3>1
    <3>3. Children(f, d) = Children(g, d)
      BY <3>2, ChildrenLocal
    <3>4. d <= n => d \in 0 .. n
      BY <2>2
    <3>5. d \in 0 .. n => f[d] = Children(f, d)
      BY <2>3
    <3> QED
      BY <3>3, <3>4, <3>5
  <2>5. g = [d \in 0 .. n + 1 |-> Children(g, d)]
    BY <2>4
  <2>6. Solves(g, n + 1)
    BY <2>5
  <2> HIDE DEF g
  <2> QED
    BY <2>2, <2>6
<1> HIDE DEF T
<1>3. depth \in T
  <2>1. 0 .. depth \subseteq T
    BY <1>1, <1>2, Induction
  <2> QED
    BY <2>1
<1> USE DEF T
<1>4. \E f : f = [d \in 0 .. depth |-> Children(f, d)]
  BY <1>3
<1> DEFINE c == Custom!Child(depth)
<1>5. c = [d \in 0 .. depth |-> Children(c, d)]
  BY <1>4, ChildForm
<1> HIDE DEF c
<1>6. ASSUME NEW d \in 0 .. depth, NEW u \in Urls, NEW mode \in BOOLEAN
      PROVE  c[d][u][mode] = Below(c, d, u, mode)
  <2>1. c[d] = Children(c, d)
    BY <1>5
  <2> QED
    BY <2>1 DEF Children
<1> QED
  BY <1>6 DEF c

\* Merging rules into rules.
LEMMA MergeLemma ==
    ASSUME NEW a \in Custom!Rules, NEW C, Custom!Merge(a, C) # Failed,
           \A c \in C : c # Failed => c \in Custom!Rules
    PROVE  LET m == Custom!Merge(a, C)
           IN  /\ Failed \notin C /\ m \in Custom!Rules /\ m.bypass = a.bypass /\ m.urls = {}
               /\ \A h : h \in m.bypassHostnames <=>
                             h \in a.bypassHostnames \/ \E c \in C : h \in c.bypassHostnames
               /\ \A h : h \in m.proxyHostnames <=>
                             h \in a.proxyHostnames \/ \E c \in C : h \in c.proxyHostnames
               /\ \A n \in m.subnets :
                     n \in a.subnets \/ \E c \in C : c.bypass = a.bypass /\ n \in c.subnets
<1> DEFINE m == Custom!Merge(a, C)
           B == a.bypassHostnames \union UNION {c.bypassHostnames : c \in C}
           P == a.proxyHostnames \union UNION {c.proxyHostnames : c \in C}
           N == a.subnets \union UNION {c.subnets : c \in {x \in C : x.bypass = a.bypass}}
<1>1. Failed \notin C
  BY DEF Custom!Merge
<1>2. m = [a EXCEPT !.bypassHostnames = B, !.proxyHostnames = P, !.subnets = N, !.urls = {}]
  BY <1>1 DEF Custom!Merge
<1>3. \A c \in C : c \in Custom!Rules
  BY <1>1
<1>4. B \in SUBSET Hosts /\ P \in SUBSET Hosts /\ N \in SUBSET Subnets
  <2>1. a.bypassHostnames \in SUBSET Hosts /\ a.proxyHostnames \in SUBSET Hosts
        /\ a.subnets \in SUBSET Subnets
    BY DEF Custom!Rules
  <2>2. \A c \in C : c.bypassHostnames \in SUBSET Hosts /\ c.proxyHostnames \in SUBSET Hosts
                     /\ c.subnets \in SUBSET Subnets
    BY <1>3 DEF Custom!Rules
  <2> QED
    BY <2>1, <2>2
<1>5. /\ \A h : h \in B <=> h \in a.bypassHostnames \/ \E c \in C : h \in c.bypassHostnames
      /\ \A h : h \in P <=> h \in a.proxyHostnames \/ \E c \in C : h \in c.proxyHostnames
      /\ \A n \in N : n \in a.subnets \/ \E c \in C : c.bypass = a.bypass /\ n \in c.subnets
  OBVIOUS
<1> HIDE DEF B, P, N, m
<1>6. m \in Custom!Rules /\ m.bypass = a.bypass /\ m.urls = {}
      /\ m.bypassHostnames = B /\ m.proxyHostnames = P /\ m.subnets = N
  BY <1>2, <1>4 DEF Custom!Rules
<1> QED
  BY <1>1, <1>5, <1>6 DEF m

\* Rules k have what the files of W list, and of subnets only those of the files
\* that end in the mode of k.
Gathers(k, mode, W) ==
    /\ k \in Custom!Rules /\ k.bypass = mode /\ k.urls = {}
    /\ \A x \in W : x \in Urls \X BOOLEAN /\ FileAt(x) # Failed
    /\ \A h : h \in k.bypassHostnames <=> \E x \in W : h \in FileAt(x).bypassHostnames
    /\ \A h : h \in k.proxyHostnames <=> \E x \in W : h \in FileAt(x).proxyHostnames
    /\ \A n \in k.subnets : \E x \in W : FileAt(x).bypass = mode /\ n \in FileAt(x).subnets

\* Rules k have what the rules a and the files of W list.
Adds(k, a, W) ==
    /\ k \in Custom!Rules /\ k.bypass = a.bypass /\ k.urls = {}
    /\ \A x \in W : x \in Urls \X BOOLEAN /\ FileAt(x) # Failed
    /\ \A h : h \in k.bypassHostnames <=>
                  h \in a.bypassHostnames \/ \E x \in W : h \in FileAt(x).bypassHostnames
    /\ \A h : h \in k.proxyHostnames <=>
                  h \in a.proxyHostnames \/ \E x \in W : h \in FileAt(x).proxyHostnames
    /\ \A n \in k.subnets :
          n \in a.subnets \/ \E x \in W : FileAt(x).bypass = a.bypass /\ n \in FileAt(x).subnets

\* Every child with depth d left has what is reached from it in that many imports.
ChildrenGather(depth, d) ==
    \A u \in Urls, mode \in BOOLEAN :
        Custom!Child(depth)[d][u][mode] # Failed =>
            Gathers(Custom!Child(depth)[d][u][mode], FileAt(<<u, mode>>).bypass,
                    Custom!Within({<<u, mode>>})[d + 1])

Start(a) == {<<v, a.bypass>> : v \in a.urls}

\* Merging such children.
LEMMA AddsLemma ==
    ASSUME NEW depth \in Nat, NEW d \in Nat, d + 1 \in 1 .. MaxDepth, ChildrenGather(depth, d),
           NEW a \in Custom!Rules,
           Custom!Merge(a, {Custom!Child(depth)[d][v][a.bypass] : v \in a.urls}) # Failed
    PROVE  Adds(Custom!Merge(a, {Custom!Child(depth)[d][v][a.bypass] : v \in a.urls}), a,
                Custom!Within(Start(a))[d + 1])
<1> DEFINE kid(v) == Custom!Child(depth)[d][v][a.bypass]
           C == {kid(v) : v \in a.urls}
           m == Custom!Merge(a, C)
           V(v) == Custom!Within({<<v, a.bypass>>})[d + 1]
           W == Custom!Within(Start(a))[d + 1]
           B(v) == FileAt(<<v, a.bypass>>).bypass
<1>1. a.urls \in SUBSET Urls /\ a.bypass \in BOOLEAN
  BY DEF Custom!Rules
<1>2. \A v \in a.urls : kid(v) # Failed => Gathers(kid(v), B(v), V(v))
  BY <1>1 DEF ChildrenGather
<1>3. \A y : y \in W <=> \E v \in a.urls : y \in V(v)
  <2>1. \A y : y \in W <=> \E x \in Start(a) : y \in Custom!Within({x})[d + 1]
    BY WithinAdd
  <2> QED
    BY <2>1 DEF Start
<1>4. m # Failed
  OBVIOUS
<1>5. \A c \in C : \E v \in a.urls : c = kid(v)
  OBVIOUS
<1>6. \A v \in a.urls : kid(v) \in C
  OBVIOUS
<1> HIDE DEF kid, V, W, B, C
<1>7. \A c \in C : c # Failed => c \in Custom!Rules
  BY <1>2, <1>5 DEF Gathers
<1>8. /\ Failed \notin C /\ m \in Custom!Rules /\ m.bypass = a.bypass /\ m.urls = {}
      /\ \A h : h \in m.bypassHostnames <=>
                    h \in a.bypassHostnames \/ \E c \in C : h \in c.bypassHostnames
      /\ \A h : h \in m.proxyHostnames <=>
                    h \in a.proxyHostnames \/ \E c \in C : h \in c.proxyHostnames
      /\ \A n \in m.subnets :
            n \in a.subnets \/ \E c \in C : c.bypass = a.bypass /\ n \in c.subnets
  BY <1>4, <1>7, MergeLemma
<1> HIDE DEF m
<1>9. \A v \in a.urls : Gathers(kid(v), B(v), V(v))
  BY <1>2, <1>6, <1>8
<1>10. \A x \in W : x \in Urls \X BOOLEAN /\ FileAt(x) # Failed
  BY <1>3, <1>9 DEF Gathers
<1>11. ASSUME NEW h
       PROVE  h \in m.bypassHostnames <=>
                  h \in a.bypassHostnames \/ \E x \in W : h \in FileAt(x).bypassHostnames
  <2>1. (\E c \in C : h \in c.bypassHostnames) <=> \E v \in a.urls : h \in kid(v).bypassHostnames
    BY <1>5, <1>6
  <2>2. \A v \in a.urls : h \in kid(v).bypassHostnames <=> \E x \in V(v) : h \in FileAt(x).bypassHostnames
    BY <1>9 DEF Gathers
  <2>3. (\E x \in W : h \in FileAt(x).bypassHostnames)
            <=> \E v \in a.urls : \E x \in V(v) : h \in FileAt(x).bypassHostnames
    BY <1>3
  <2> QED
    BY <1>8, <2>1, <2>2, <2>3
<1>12. ASSUME NEW h
       PROVE  h \in m.proxyHostnames <=>
                  h \in a.proxyHostnames \/ \E x \in W : h \in FileAt(x).proxyHostnames
  <2>1. (\E c \in C : h \in c.proxyHostnames) <=> \E v \in a.urls : h \in kid(v).proxyHostnames
    BY <1>5, <1>6
  <2>2. \A v \in a.urls : h \in kid(v).proxyHostnames <=> \E x \in V(v) : h \in FileAt(x).proxyHostnames
    BY <1>9 DEF Gathers
  <2>3. (\E x \in W : h \in FileAt(x).proxyHostnames)
            <=> \E v \in a.urls : \E x \in V(v) : h \in FileAt(x).proxyHostnames
    BY <1>3
  <2> QED
    BY <1>8, <2>1, <2>2, <2>3
<1>13. ASSUME NEW n \in m.subnets, n \notin a.subnets
       PROVE  \E x \in W : FileAt(x).bypass = a.bypass /\ n \in FileAt(x).subnets
  <2>1. PICK v \in a.urls : kid(v).bypass = a.bypass /\ n \in kid(v).subnets
    BY <1>5, <1>8, <1>13
  <2>2. Gathers(kid(v), B(v), V(v))
    BY <1>9
  <2>3. PICK x \in V(v) : FileAt(x).bypass = B(v) /\ n \in FileAt(x).subnets
    BY <2>1, <2>2 DEF Gathers
  <2>4. B(v) = a.bypass
    BY <2>1, <2>2 DEF Gathers
  <2> QED
    BY <1>3, <2>3, <2>4
<1>14. Adds(m, a, W)
  BY <1>8, <1>10, <1>11, <1>12, <1>13 DEF Adds
<1> QED
  BY <1>14 DEF m, C, kid, W

Contents == content \in [Urls \union {User} -> Seq(Custom!Line)]

\* A file that is read has rules.
LEMMA FileLemma ==
    ASSUME Contents, NEW x \in Urls \X BOOLEAN, FileAt(x) # Failed
    PROVE  /\ FileAt(x) \in Custom!Rules
           /\ FileAt(x).bypassHostnames = Lists(content[x[1]], x[2], Hosts, "bypass_list")
           /\ FileAt(x).proxyHostnames = Lists(content[x[1]], x[2], Hosts, "proxy_list")
           /\ FileAt(x).subnets = Lists(content[x[1]], x[2], Subnets,
                                        IF FileAt(x).bypass THEN "proxy_list" ELSE "bypass_list")
<1>1. content[x[1]] \in Seq(Custom!Line) /\ x[2] \in BOOLEAN
  BY DEF Contents
<1> QED
  BY <1>1, FromReaderLemma DEF FileAt

\* The rules of a file with those reached from it.
LEMMA AddsGathers ==
    ASSUME NEW x \in Urls \X BOOLEAN, FileAt(x) # Failed, NEW V, NEW k, Adds(k, FileAt(x), V)
    PROVE  Gathers(k, FileAt(x).bypass, {x} \union V)
BY DEF Adds, Gathers

\* By induction on the depth left.
LEMMA ChildrenGatherLemma ==
    ASSUME Contents, NEW d \in 0 .. MaxDepth - 1
    PROVE  ChildrenGather(MaxDepth, d)
<1> DEFINE T == {n \in 0 .. MaxDepth - 1 : ChildrenGather(MaxDepth, n)}
           K == Custom!Child(MaxDepth)
<1>0. MaxDepth \in Nat \ {0} /\ MaxDepth - 1 \in Nat
  BY PartsAssumption
<1>1. \A n \in 0 .. MaxDepth : \A u \in Urls, mode \in BOOLEAN : K[n][u][mode] = Below(K, n, u, mode)
  BY <1>0, ChildLemma
<1>1a. \A u, mode : FileAt(<<u, mode>>) = Custom!FromReader(content[u], mode)
  BY DEF FileAt
<1>2. 0 \in T
  <2>1. SUFFICES ASSUME NEW u \in Urls, NEW mode \in BOOLEAN, K[0][u][mode] # Failed
                 PROVE  Gathers(K[0][u][mode], FileAt(<<u, mode>>).bypass,
                                Custom!Within({<<u, mode>>})[0 + 1])
    BY <1>0 DEF ChildrenGather
  <2> DEFINE x == <<u, mode>>
  <2>2. K[0][u][mode] = IF FileAt(x) = Failed THEN Failed ELSE Custom!Merge(FileAt(x), {})
    <3>1. K[0][u][mode] = Below(K, 0, u, mode)
      BY <1>0, <1>1
    <3>2. Below(K, 0, u, mode) = IF FileAt(x) = Failed THEN Failed ELSE Custom!Merge(FileAt(x), {})
      BY <1>1a, Zenon DEF Below
    <3> QED
      BY <3>1, <3>2, Zenon
  <2>3. FileAt(x) # Failed /\ K[0][u][mode] = Custom!Merge(FileAt(x), {})
    BY <2>1, <2>2
  <2>4. x \in Urls \X BOOLEAN
    OBVIOUS
  <2>5. FileAt(x) \in Custom!Rules
    BY <2>3, <2>4, FileLemma
  <2>6. Adds(K[0][u][mode], FileAt(x), {})
    BY <2>1, <2>3, <2>5, MergeLemma DEF Adds
  <2>7. Custom!Within({x})[0 + 1] = {x} \union {}
    <3>1. 0 + 1 = 1 /\ {x} \union {} = {x}
      OBVIOUS
    <3> QED
      BY <3>1, WithinLemma
  <2>8. Gathers(K[0][u][mode], FileAt(x).bypass, {x} \union {})
    BY <2>3, <2>4, <2>6, AddsGathers
  <2> QED
    BY <2>7, <2>8, Zenon
<1>3. ASSUME NEW n \in 0 .. MaxDepth - 1, n < MaxDepth - 1, n \in T PROVE n + 1 \in T
  <2>0. /\ n + 1 \in 0 .. MaxDepth - 1 /\ n + 1 \in 0 .. MaxDepth /\ n + 1 \in 1 .. MaxDepth - 1
        /\ n + 1 \in 1 .. MaxDepth /\ n \in Nat /\ n + 1 # 0 /\ (n + 1) - 1 = n
    BY <1>0, <1>3
  <2>1. SUFFICES ASSUME NEW u \in Urls, NEW mode \in BOOLEAN, K[n + 1][u][mode] # Failed
                 PROVE  Gathers(K[n + 1][u][mode], FileAt(<<u, mode>>).bypass,
                                Custom!Within({<<u, mode>>})[(n + 1) + 1])
    BY <2>0 DEF ChildrenGather
  <2> DEFINE x == <<u, mode>>
             a == FileAt(x)
             m == Custom!Merge(a, {K[n][v][a.bypass] : v \in a.urls})
  <2>2. K[n + 1][u][mode] = IF a = Failed THEN Failed ELSE m
    <3>1. K[n + 1][u][mode] = Below(K, n + 1, u, mode)
      BY <1>1, <2>0
    <3>2. Below(K, n + 1, u, mode) = IF a = Failed THEN Failed ELSE m
      BY <1>1a, <2>0, Zenon DEF Below
    <3> QED
      BY <3>1, <3>2, Zenon
  <2>3. a # Failed /\ K[n + 1][u][mode] = m
    BY <2>1, <2>2
  <2>4. x \in Urls \X BOOLEAN
    OBVIOUS
  <2>5. a \in Custom!Rules
    BY <2>3, <2>4, FileLemma
  <2>6. Adds(m, a, Custom!Within(Start(a))[n + 1])
    <3>1. ChildrenGather(MaxDepth, n)
      BY <1>3
    <3> HIDE DEF a
    <3> QED
      BY <1>0, <2>0, <2>1, <2>3, <2>5, <3>1, AddsLemma
  <2>7. Custom!Imports({x}) = Start(a)
    <3>1. \A y : y \in Custom!Imports({x}) <=> \E z \in {x} : \E v \in FileAt(z).urls : y = <<v, FileAt(z).bypass>>
      BY ImportsLemma
    <3>2. \A y : y \in Start(a) <=> \E v \in a.urls : y = <<v, a.bypass>>
      BY DEF Start
    <3>3. \A y : y \in Custom!Imports({x}) <=> y \in Start(a)
      BY <3>1, <3>2
    <3> QED
      BY <3>3
  <2>8. Custom!Within({x})[(n + 1) + 1] = {x} \union Custom!Within(Start(a))[n + 1]
    BY <2>0, <2>7, WithinSplit
  <2>9. Gathers(m, a.bypass, {x} \union Custom!Within(Start(a))[n + 1])
    BY <2>3, <2>4, <2>6, AddsGathers
  <2> QED
    BY <2>3, <2>8, <2>9
<1> HIDE DEF T
<1>4. 0 .. MaxDepth - 1 \subseteq T
  BY <1>0, <1>2, <1>3, Induction
<1> QED
  BY <1>4 DEF T

\* flatten adds exactly the files reached.
LEMMA FlattenLemma ==
    ASSUME Contents, NEW a \in Custom!Rules, Custom!Flatten(a, MaxDepth) # Failed
    PROVE  Adds(Custom!Flatten(a, MaxDepth), a, Custom!Within(Start(a))[MaxDepth])
<1>0. /\ MaxDepth \in Nat \ {0} /\ MaxDepth - 1 \in Nat /\ MaxDepth - 1 \in 0 .. MaxDepth - 1
      /\ (MaxDepth - 1) + 1 = MaxDepth /\ MaxDepth \in 1 .. MaxDepth /\ MaxDepth # 0
  BY PartsAssumption
<1>1. Custom!Flatten(a, MaxDepth)
          = Custom!Merge(a, {Custom!Child(MaxDepth)[MaxDepth - 1][v][a.bypass] : v \in a.urls})
  BY <1>0 DEF Custom!Flatten
<1>2. ChildrenGather(MaxDepth, MaxDepth - 1)
  BY <1>0, ChildrenGatherLemma
<1>3. Adds(Custom!Flatten(a, MaxDepth), a, Custom!Within(Start(a))[(MaxDepth - 1) + 1])
  BY <1>0, <1>1, <1>2, AddsLemma
<1> QED
  BY <1>0, <1>3

\* What is saved has the host names of the files reached, and of their subnets only
\* ones listed to be proxied.
LEMMA FlattenedAreReached ==
    ASSUME Contents, Custom!CustomRules(content[User]) # Failed,
           acl = Custom!Flatten(Custom!CustomRules(content[User]), MaxDepth), acl # Failed
    PROVE  /\ acl \in Custom!Rules /\ acl.bypass /\ acl.urls = {}
           /\ acl.bypassHostnames = Custom!Listed("bypass_list") \intersect Hosts
           /\ acl.proxyHostnames = Custom!Listed("proxy_list") \intersect Hosts
           /\ acl.subnets \subseteq Custom!Listed("proxy_list")
<1> DEFINE a == Custom!CustomRules(content[User])
           R == Custom!Reached
           L(b) == Custom!Listed(b)
<1>1. content[User] \in Seq(Custom!Line)
  BY DEF Contents
<1>2. /\ a \in Custom!Rules /\ a.bypass
      /\ a.bypassHostnames = Lists(content[User], TRUE, Hosts, "bypass_list")
      /\ a.proxyHostnames = Lists(content[User], TRUE, Hosts, "proxy_list")
      /\ a.subnets \subseteq Lists(content[User], TRUE, Subnets, "proxy_list")
  BY <1>1, CustomRulesLemma
<1>3. a.bypass = TRUE
  BY <1>2 DEF Custom!Rules
<1>4. R = Custom!Within(Start(a))[MaxDepth]
  BY <1>3 DEF Custom!Reached, Start
<1>5. Adds(acl, a, R)
  BY <1>2, <1>4, FlattenLemma
<1>6. \A x \in R : x \in Urls \X BOOLEAN /\ FileAt(x) # Failed
  BY <1>5 DEF Adds
<1>7. \A x, b : x \in L(b) <=>
          /\ x \in Hosts \union Subnets
          /\ \/ b \in Custom!ListedUnder(content[User], TRUE, x)
             \/ \E r \in R : b \in Custom!ListedUnder(content[r[1]], r[2], x)
  BY DEF Custom!Listed
<1> HIDE DEF a, R, L
<1>8. ASSUME NEW h
      PROVE  h \in acl.bypassHostnames <=> h \in L("bypass_list") /\ h \in Hosts
  <2>1. h \in acl.bypassHostnames <=>
            h \in a.bypassHostnames \/ \E x \in R : h \in FileAt(x).bypassHostnames
    BY <1>5 DEF Adds
  <2>2. h \in a.bypassHostnames <=>
            h \in Hosts /\ "bypass_list" \in Custom!ListedUnder(content[User], TRUE, h)
    BY <1>2 DEF Lists
  <2>3. \A x \in R : h \in FileAt(x).bypassHostnames <=>
            h \in Hosts /\ "bypass_list" \in Custom!ListedUnder(content[x[1]], x[2], h)
    BY <1>6, FileLemma DEF Lists
  <2> QED
    BY <1>7, <2>1, <2>2, <2>3
<1>9. ASSUME NEW h
      PROVE  h \in acl.proxyHostnames <=> h \in L("proxy_list") /\ h \in Hosts
  <2>1. h \in acl.proxyHostnames <=>
            h \in a.proxyHostnames \/ \E x \in R : h \in FileAt(x).proxyHostnames
    BY <1>5 DEF Adds
  <2>2. h \in a.proxyHostnames <=>
            h \in Hosts /\ "proxy_list" \in Custom!ListedUnder(content[User], TRUE, h)
    BY <1>2 DEF Lists
  <2>3. \A x \in R : h \in FileAt(x).proxyHostnames <=>
            h \in Hosts /\ "proxy_list" \in Custom!ListedUnder(content[x[1]], x[2], h)
    BY <1>6, FileLemma DEF Lists
  <2> QED
    BY <1>7, <2>1, <2>2, <2>3
<1>10. ASSUME NEW n \in acl.subnets PROVE n \in L("proxy_list")
  <2>1. CASE n \in a.subnets
    BY <1>2, <1>7, <2>1 DEF Lists
  <2>2. CASE n \notin a.subnets
    <3>1. PICK x \in R : FileAt(x).bypass = TRUE /\ n \in FileAt(x).subnets
      BY <1>3, <1>5, <2>2 DEF Adds
    <3>2. FileAt(x).subnets = Lists(content[x[1]], x[2], Subnets, "proxy_list")
      BY <1>6, <3>1, FileLemma
    <3>3. n \in Subnets /\ "proxy_list" \in Custom!ListedUnder(content[x[1]], x[2], n)
      BY <3>1, <3>2 DEF Lists
    <3> QED
      BY <1>7, <3>3
  <2> QED
    BY <2>1, <2>2
<1>11. acl \in Custom!Rules /\ acl.bypass = TRUE /\ acl.urls = {}
  BY <1>3, <1>5 DEF Adds
<1>12. /\ acl.bypassHostnames = L("bypass_list") \intersect Hosts
       /\ acl.proxyHostnames = L("proxy_list") \intersect Hosts
       /\ acl.subnets \subseteq L("proxy_list")
  BY <1>8, <1>9, <1>10
<1> QED
  BY <1>11, <1>12 DEF L

-----------------------------------------------------------------------------
(* Acl: writing *)

\* A finite set in some order.
LEMMA OrderLemma ==
    ASSUME NEW S, IsFiniteSet(S)
    PROVE  LET q == Custom!SetToSeq(S)
           IN  /\ q \in Seq(S) /\ Len(q) \in Nat /\ DOMAIN q = 1 .. Len(q)
               /\ \A i \in 1 .. Len(q) : q[i] \in S
               /\ \A x \in S : \E i \in 1 .. Len(q) : q[i] = x
               /\ S = {} => Len(q) = 0
<1> DEFINE n == Cardinality(S)
           q == Custom!SetToSeq(S)
<1>0. Custom!Cardinality(S) = n
  BY Zenon DEF Cardinality, Custom!Cardinality
<1>1. n \in Nat /\ ExistsBijection(1 .. n, S)
  BY FS_CardinalityType
<1>2. \E f \in [1 .. n -> S] : \A i, j \in DOMAIN f : f[i] = f[j] => i = j
  BY <1>1 DEF ExistsBijection, Bijection, Injection, IsInjective
<1>3. q = CHOOSE f \in [1 .. n -> S] : \A i, j \in DOMAIN f : f[i] = f[j] => i = j
  BY <1>0, Zenon DEF Custom!SetToSeq, Custom!IsInjective
<1> HIDE DEF q, n
<1>4. q \in [1 .. n -> S] /\ \A i, j \in DOMAIN q : q[i] = q[j] => i = j
  BY <1>2, <1>3
<1>5. q \in Injection(1 .. n, S)
  BY <1>4 DEF Injection, IsInjective
<1>6. IsFiniteSet(1 .. n) /\ Cardinality(1 .. n) = n
  <2>1. 1 \in Int /\ n \in Int
    BY <1>1
  <2>2. IsFiniteSet(1 .. n) /\ Cardinality(1 .. n) = IF 1 > n THEN 0 ELSE n - 1 + 1
    BY <2>1, FS_Interval
  <2> QED
    BY <1>1, <2>2
<1>7. q \in Surjection(1 .. n, S)
  <2>1. Cardinality(1 .. n) = Cardinality(S)
    BY <1>6 DEF n
  <2> QED
    BY <1>5, <2>1, FS_Injection
<1>8. \A x \in S : \E i \in 1 .. n : q[i] = x
  BY <1>7 DEF Surjection
<1>9. q \in Seq(S) /\ Len(q) = n
  BY <1>1, <1>4
<1>10. S = {} => n = 0
  BY FS_EmptySet DEF n
<1> QED
  BY <1>1, <1>4, <1>8, <1>9, <1>10 DEF q

\* One sequence after another.
LEMMA ConcatFacts ==
    ASSUME NEW S, NEW s \in Seq(S), NEW t \in Seq(S)
    PROVE  /\ s \o t \in Seq(S) /\ Len(s \o t) = Len(s) + Len(t)
           /\ Len(s) \in Nat /\ Len(t) \in Nat
           /\ \A i \in 1 .. Len(s) : (s \o t)[i] = s[i]
           /\ \A i \in 1 .. Len(t) : (s \o t)[Len(s) + i] = t[i]
OBVIOUS

\* A heading with the entries below it.
LEMMA ListLemma ==
    ASSUME NEW b \in Custom!Blocks, NEW S \in SUBSET (Hosts \union Subnets)
    PROVE  LET l == Custom!List(b, S)
           IN  /\ l \in Seq(Custom!Line) /\ Len(l) \in Nat
               /\ \A i \in 1 .. Len(l) : l[i].url = Custom!NoUrl
               /\ S = {} => Len(l) = 0
               /\ S # {} => Len(l) >= 1
               /\ Len(l) >= 1 => l[1].text = b
               /\ \A i \in 2 .. Len(l) : l[i].text \in S
               /\ \A x \in S : \E i \in 2 .. Len(l) : l[i].text = x
<1> DEFINE q == Custom!SetToSeq(S)
           n == Len(q)
           t == Custom!Texts(S)
           h == Custom!Block(b)
           l == Custom!List(b, S)
<1>1. IsFiniteSet(S)
  <2>1. IsFiniteSet(Hosts \union Subnets)
    BY PartsAssumption, FS_Union
  <2> QED
    BY <2>1, FS_Subset
<1>2. /\ n \in Nat /\ \A i \in 1 .. n : q[i] \in S
      /\ \A x \in S : \E i \in 1 .. n : q[i] = x
  BY <1>1, OrderLemma
<1>3. t = [i \in 1 .. n |-> [text |-> q[i], url |-> Custom!NoUrl]]
  BY DEF Custom!Texts
<1>4. h = <<[text |-> b, url |-> Custom!NoUrl]>>
  BY DEF Custom!Block
<1>5. l = IF S = {} THEN <<>> ELSE h \o t
  BY DEF Custom!List
<1> HIDE DEF q, n, t, h, l
<1>6. /\ t \in Seq(Custom!Line) /\ Len(t) = n
      /\ \A i \in 1 .. n : t[i].text = q[i] /\ t[i].url = Custom!NoUrl
  <2>1. \A i \in 1 .. n : [text |-> q[i], url |-> Custom!NoUrl] \in Custom!Line
    BY <1>2 DEF Custom!Line
  <2> QED
    BY <1>2, <1>3, <2>1
<1>7. h \in Seq(Custom!Line) /\ Len(h) = 1 /\ h[1].text = b /\ h[1].url = Custom!NoUrl
  <2>1. [text |-> b, url |-> Custom!NoUrl] \in Custom!Line
    BY DEF Custom!Line
  <2> QED
    BY <1>4, <2>1
<1>8. CASE S = {}
  BY <1>5, <1>8 DEF l
<1>9. CASE S # {}
  <2>1. /\ l \in Seq(Custom!Line) /\ Len(l) = 1 + n /\ l[1] = h[1]
        /\ \A i \in 2 .. Len(l) : l[i] = t[i - 1]
    <3>1. /\ l \in Seq(Custom!Line) /\ Len(l) = 1 + n
          /\ \A i \in 1 .. 1 : l[i] = h[i]
          /\ \A i \in 1 .. n : l[1 + i] = t[i]
      <4>1. l = h \o t
        BY <1>5, <1>9
      <4>2. /\ l \in Seq(Custom!Line) /\ Len(l) = Len(h) + Len(t)
            /\ \A i \in 1 .. Len(h) : l[i] = h[i]
            /\ \A i \in 1 .. Len(t) : l[Len(h) + i] = t[i]
        <5>1. h \in Seq(Custom!Line) /\ t \in Seq(Custom!Line)
          BY <1>6, <1>7
        <5> QED
          BY <4>1, <5>1, ConcatFacts
      <4> QED
        BY <1>6, <1>7, <4>2
    <3>2. \A i \in 2 .. Len(l) : i - 1 \in 1 .. n /\ 1 + (i - 1) = i
      BY <1>2, <3>1
    <3> QED
      BY <3>1, <3>2
  <2>2. \A i \in 2 .. Len(l) : l[i].text = q[i - 1] /\ l[i].url = Custom!NoUrl /\ i - 1 \in 1 .. n
    BY <1>2, <1>6, <2>1
  <2>3. \A i \in 1 .. n : i + 1 \in 2 .. Len(l) /\ l[i + 1].text = q[i]
    <3>1. \A i \in 1 .. n : i + 1 \in 2 .. Len(l) /\ (i + 1) - 1 = i
      BY <1>2, <2>1
    <3> QED
      BY <2>2, <3>1
  <2>4. \A i \in 1 .. Len(l) : i = 1 \/ i \in 2 .. Len(l)
    BY <1>2, <2>1
  <2>5. Len(l) \in Nat /\ Len(l) >= 1
    BY <1>2, <2>1
  <2>6. \A i \in 1 .. Len(l) : l[i].url = Custom!NoUrl
    BY <1>7, <2>1, <2>2, <2>4
  <2>7. \A i \in 2 .. Len(l) : l[i].text \in S
    BY <1>2, <2>2
  <2>8. \A x \in S : \E i \in 2 .. Len(l) : l[i].text = x
    BY <1>2, <2>3
  <2> QED
    BY <1>7, <1>9, <2>1, <2>5, <2>6, <2>7, <2>8 DEF l
<1> QED
  BY <1>8, <1>9

\* The lines that are saved: the mode, the heading bypass_list and X below it, and
\* from line m on the heading proxy_list and Y below it.
Shape(s, X, Y, m) ==
    /\ s \in Seq(Custom!Line) /\ m \in 2 .. Len(s) + 1
    /\ \A k \in 1 .. Len(s) : s[k].url = Custom!NoUrl
    /\ s[1].text = "bypass_all"
    /\ m > 2 => s[2].text = "bypass_list"
    /\ \A k \in 3 .. m - 1 : s[k].text \in X
    /\ m <= Len(s) => s[m].text = "proxy_list"
    /\ \A k \in m + 1 .. Len(s) : s[k].text \in Y
    /\ \A x \in X : \E k \in 3 .. m - 1 : s[k].text = x
    /\ \A y \in Y : \E k \in m + 1 .. Len(s) : s[k].text = y

\* toString writes such lines.
LEMMA ShapeLemma ==
    ASSUME NEW a \in Custom!Rules, a.bypass, a.urls = {}
    PROVE  \E m : Shape(Custom!AclToString(a), a.bypassHostnames,
                        a.subnets \union a.proxyHostnames, m)
<1> DEFINE X == a.bypassHostnames
           Y == a.subnets \union a.proxyHostnames
           h == Custom!Block("bypass_all")
           l == Custom!List("bypass_list", X)
           r == Custom!List("proxy_list", Y)
           s == Custom!AclToString(a)
           m == Len(l) + 2
<1>1. X \in SUBSET (Hosts \union Subnets) /\ Y \in SUBSET (Hosts \union Subnets)
  BY DEF Custom!Rules
<1> HIDE DEF X, Y
<1>2. /\ l \in Seq(Custom!Line) /\ Len(l) \in Nat
      /\ \A i \in 1 .. Len(l) : l[i].url = Custom!NoUrl
      /\ Len(l) >= 1 => l[1].text = "bypass_list"
      /\ \A i \in 2 .. Len(l) : l[i].text \in X
      /\ \A x \in X : \E i \in 2 .. Len(l) : l[i].text = x
  <2>1. "bypass_list" \in Custom!Blocks
    BY DEF Custom!Blocks
  <2> QED
    BY <1>1, <2>1, ListLemma
<1>3. /\ r \in Seq(Custom!Line) /\ Len(r) \in Nat
      /\ \A i \in 1 .. Len(r) : r[i].url = Custom!NoUrl
      /\ Len(r) >= 1 => r[1].text = "proxy_list"
      /\ \A i \in 2 .. Len(r) : r[i].text \in Y
      /\ \A y \in Y : \E i \in 2 .. Len(r) : r[i].text = y
  <2>1. "proxy_list" \in Custom!Blocks
    BY DEF Custom!Blocks
  <2> QED
    BY <1>1, <2>1, ListLemma
<1>4. /\ h \in Seq(Custom!Line) /\ Len(h) = 1
      /\ h[1].text = "bypass_all" /\ h[1].url = Custom!NoUrl
  <2>1. [text |-> "bypass_all", url |-> Custom!NoUrl] \in Custom!Line
    BY DEF Custom!Line, Custom!Blocks
  <2> QED
    BY <2>1 DEF Custom!Block
<1>5. s = h \o l \o r
  <2>1. Len(Custom!SetToSeq({})) = 0
    BY FS_EmptySet, OrderLemma
  <2> DEFINE e == [i \in 1 .. Len(Custom!SetToSeq(a.urls)) |->
                      [text |-> Custom!Empty, url |-> Custom!SetToSeq(a.urls)[i]]]
  <2>2. e = <<>>
    BY <2>1
  <2>3. s = h \o Custom!List("bypass_list", {} \union X) \o r \o e
    BY DEF Custom!AclToString, X, Y
  <2>4. {} \union X = X
    OBVIOUS
  <2>5. s = h \o l \o r \o <<>>
    BY <2>2, <2>3, <2>4, Zenon
  <2> HIDE DEF s, h, l, r
  <2>6. h \o l \o r \in Seq(Custom!Line)
    BY <1>2, <1>3, <1>4
  <2> QED
    BY <2>5, <2>6
<1> HIDE DEF s, h, l, r
<1>6. /\ s \in Seq(Custom!Line) /\ Len(s) = 1 + Len(l) + Len(r)
      /\ s[1] = h[1]
      /\ \A i \in 1 .. Len(l) : s[i + 1] = l[i]
      /\ \A i \in 1 .. Len(r) : s[i + 1 + Len(l)] = r[i]
  <2>1. /\ h \o l \in Seq(Custom!Line) /\ Len(h \o l) = 1 + Len(l)
        /\ \A i \in 1 .. 1 : (h \o l)[i] = h[i]
        /\ \A i \in 1 .. Len(l) : (h \o l)[1 + i] = l[i]
    <3>1. /\ h \o l \in Seq(Custom!Line) /\ Len(h \o l) = Len(h) + Len(l)
          /\ \A i \in 1 .. Len(h) : (h \o l)[i] = h[i]
          /\ \A i \in 1 .. Len(l) : (h \o l)[Len(h) + i] = l[i]
      <4>1. h \in Seq(Custom!Line) /\ l \in Seq(Custom!Line)
        BY <1>2, <1>4
      <4> QED
        BY <4>1, ConcatFacts
    <3> QED
      BY <1>4, <3>1, Zenon
  <2>2. /\ s \in Seq(Custom!Line) /\ Len(s) = (1 + Len(l)) + Len(r)
        /\ \A i \in 1 .. 1 + Len(l) : s[i] = (h \o l)[i]
        /\ \A i \in 1 .. Len(r) : s[(1 + Len(l)) + i] = r[i]
    <3>1. /\ s \in Seq(Custom!Line) /\ Len(s) = Len(h \o l) + Len(r)
          /\ \A i \in 1 .. Len(h \o l) : s[i] = (h \o l)[i]
          /\ \A i \in 1 .. Len(r) : s[Len(h \o l) + i] = r[i]
      <4>1. h \o l \in Seq(Custom!Line) /\ r \in Seq(Custom!Line)
        BY <1>3, <2>1
      <4> DEFINE hl == h \o l
      <4>2. s = hl \o r /\ hl \in Seq(Custom!Line)
        BY <1>5, <4>1
      <4> HIDE DEF hl
      <4>3. /\ s \in Seq(Custom!Line) /\ Len(s) = Len(hl) + Len(r)
            /\ \A i \in 1 .. Len(hl) : s[i] = hl[i]
            /\ \A i \in 1 .. Len(r) : s[Len(hl) + i] = r[i]
        BY <4>1, <4>2, ConcatFacts
      <4> QED
        BY <4>3 DEF hl
    <3> QED
      BY <2>1, <3>1, Zenon
  <2>3. /\ 1 \in 1 .. 1 + Len(l)
        /\ \A i \in 1 .. Len(l) : 1 + i \in 1 .. 1 + Len(l) /\ 1 + i = i + 1
        /\ \A i \in 1 .. Len(r) : (1 + Len(l)) + i = i + 1 + Len(l)
    BY <1>2, <1>3
  <2>4. s[1] = h[1]
    BY <2>1, <2>2, <2>3
  <2>5. ASSUME NEW i \in 1 .. Len(l) PROVE s[i + 1] = l[i]
    BY <2>1, <2>2, <2>3
  <2>6. ASSUME NEW i \in 1 .. Len(r) PROVE s[i + 1 + Len(l)] = r[i]
    BY <2>2, <2>3
  <2> QED
    BY <2>2, <2>4, <2>5, <2>6
<1>7. /\ \A k \in 2 .. m - 1 : k - 1 \in 1 .. Len(l) /\ (k - 1) + 1 = k
      /\ \A k \in m .. Len(s) : k - 1 - Len(l) \in 1 .. Len(r) /\ (k - 1 - Len(l)) + 1 + Len(l) = k
  BY <1>2, <1>3, <1>6
<1>8. /\ \A k \in 2 .. m - 1 : s[k] = l[k - 1]
      /\ \A k \in m .. Len(s) : s[k] = r[k - 1 - Len(l)]
  <2>1. ASSUME NEW k \in 2 .. m - 1 PROVE s[k] = l[k - 1]
    BY <1>6, <1>7
  <2>2. ASSUME NEW k \in m .. Len(s) PROVE s[k] = r[k - 1 - Len(l)]
    BY <1>6, <1>7
  <2> QED
    BY <2>1, <2>2
<1>9. m \in 2 .. Len(s) + 1
  BY <1>2, <1>3, <1>6
<1>10. ASSUME NEW k \in 1 .. Len(s) PROVE s[k].url = Custom!NoUrl
  <2>1. k = 1 \/ k \in 2 .. m - 1 \/ k \in m .. Len(s)
    BY <1>2, <1>3, <1>6
  <2>2. CASE k = 1
    BY <1>4, <1>6, <2>2
  <2>3. CASE k \in 2 .. m - 1
    BY <1>2, <1>7, <1>8, <2>3
  <2>4. CASE k \in m .. Len(s)
    BY <1>3, <1>7, <1>8, <2>4
  <2> QED
    BY <2>1, <2>2, <2>3, <2>4
<1>11. m > 2 => s[2].text = "bypass_list"
  <2>1. m > 2 => 2 \in 2 .. m - 1 /\ 2 - 1 = 1 /\ Len(l) >= 1
    BY <1>2
  <2> QED
    BY <1>2, <1>8, <2>1
<1>12. ASSUME NEW k \in 3 .. m - 1 PROVE s[k].text \in X
  <2>1. k \in 2 .. m - 1 /\ k - 1 \in 2 .. Len(l)
    BY <1>2
  <2> QED
    BY <1>2, <1>8, <2>1
<1>13. m <= Len(s) => s[m].text = "proxy_list"
  <2>1. m <= Len(s) => m \in m .. Len(s) /\ m - 1 - Len(l) = 1 /\ Len(r) >= 1
    BY <1>2, <1>3, <1>6
  <2> QED
    BY <1>3, <1>8, <2>1
<1>14. ASSUME NEW k \in m + 1 .. Len(s) PROVE s[k].text \in Y
  <2>1. k \in m .. Len(s) /\ k - 1 - Len(l) \in 2 .. Len(r)
    BY <1>2, <1>3, <1>6
  <2> QED
    BY <1>3, <1>8, <2>1
<1>15. ASSUME NEW x \in X PROVE \E k \in 3 .. m - 1 : s[k].text = x
  <2>1. PICK i \in 2 .. Len(l) : l[i].text = x
    BY <1>2
  <2>2. i + 1 \in 3 .. m - 1 /\ i \in 1 .. Len(l)
    BY <1>2
  <2> QED
    BY <1>6, <2>1, <2>2
<1>16. ASSUME NEW y \in Y PROVE \E k \in m + 1 .. Len(s) : s[k].text = y
  <2>1. PICK i \in 2 .. Len(r) : r[i].text = y
    BY <1>3
  <2>2. i + 1 + Len(l) \in m + 1 .. Len(s) /\ i \in 1 .. Len(r)
    BY <1>2, <1>3, <1>6
  <2> QED
    BY <1>6, <2>1, <2>2
<1>17. Shape(s, X, Y, m)
  <2> HIDE DEF m
  <2> QED
    BY <1>4, <1>6, <1>9, <1>10, <1>11, <1>12, <1>13, <1>14, <1>15, <1>16 DEF Shape
<1> QED
  BY <1>17 DEF s, X, Y

\* Which lines of such a file are under which heading.
LEMMA ShapeUnder ==
    ASSUME NEW s, NEW X \in SUBSET (Hosts \union Subnets), NEW Y \in SUBSET (Hosts \union Subnets),
           NEW m, Shape(s, X, Y, m)
    PROVE  /\ \A k \in 3 .. m - 1 : /\ Custom!Under(s, FALSE, k, "bypass_list")
                                    /\ ~Custom!Under(s, FALSE, k, "proxy_list")
           /\ \A k \in m + 1 .. Len(s) : /\ Custom!Under(s, FALSE, k, "proxy_list")
                                         /\ ~Custom!Under(s, FALSE, k, "bypass_list")
<1> DEFINE H(j) == s[j].text \in {"bypass_list", "proxy_list", "outbound_block_list"}
           n == Len(s)
<1>1. /\ n \in Nat /\ m \in 2 .. n + 1 /\ s[1].text = "bypass_all"
      /\ m > 2 => s[2].text = "bypass_list"
      /\ \A k \in 3 .. m - 1 : s[k].text \in X
      /\ m <= n => s[m].text = "proxy_list"
      /\ \A k \in m + 1 .. n : s[k].text \in Y
  BY DEF Shape
<1>2. \A x \in Hosts \union Subnets : x \notin {"bypass_list", "proxy_list", "outbound_block_list"}
  BY Words DEF Headings
<1>3. /\ \A k \in 3 .. m - 1 : ~H(k)
      /\ \A k \in m + 1 .. n : ~H(k)
  BY <1>1, <1>2
<1>4. \A k, b : Custom!Under(s, FALSE, k, b) <=>
          \/ \E j \in 1 .. k - 1 : s[j].text = b /\ \A i \in j + 1 .. k - 1 : ~H(i)
          \/ b = "bypass_list" /\ \A i \in 1 .. k - 1 : ~H(i)
  BY DEF Custom!Under
<1>5. \A j : s[j].text = "bypass_list" \/ s[j].text = "proxy_list" => H(j)
  OBVIOUS
<1>5a. ~H(1)
  BY <1>1
<1> HIDE DEF n, H
<1>6. ASSUME NEW k \in 3 .. m - 1
      PROVE  Custom!Under(s, FALSE, k, "bypass_list") /\ ~Custom!Under(s, FALSE, k, "proxy_list")
  <2>1. /\ 2 \in 1 .. k - 1 /\ m > 2 /\ \A i \in 2 + 1 .. k - 1 : i \in 3 .. m - 1
        /\ \A j \in 1 .. k - 1 : j = 1 \/ j = 2 \/ j \in 3 .. m - 1
    BY <1>1
  <2>2. s[2].text = "bypass_list" /\ \A i \in 2 + 1 .. k - 1 : ~H(i)
    BY <1>1, <1>3, <2>1
  <2>3. Custom!Under(s, FALSE, k, "bypass_list")
    BY <1>4, <2>1, <2>2
  <2>4. ASSUME NEW j \in 1 .. k - 1 PROVE s[j].text # "proxy_list"
    BY <1>1, <1>3, <1>5, <2>1, <2>2
  <2>5. ~Custom!Under(s, FALSE, k, "proxy_list")
    <3>1. Custom!Under(s, FALSE, k, "proxy_list") =>
              \E j \in 1 .. k - 1 : s[j].text = "proxy_list"
      <4>1. "proxy_list" # "bypass_list"
        OBVIOUS
      <4> QED
        BY <1>4, <4>1, Zenon
    <3> QED
      BY <2>4, <3>1
  <2> QED
    BY <2>3, <2>5
<1>7. ASSUME NEW k \in m + 1 .. n
      PROVE  Custom!Under(s, FALSE, k, "proxy_list") /\ ~Custom!Under(s, FALSE, k, "bypass_list")
  <2>1. /\ m \in 1 .. k - 1 /\ m <= n /\ \A i \in m + 1 .. k - 1 : i \in m + 1 .. n
        /\ \A j \in 1 .. k - 1 : j = m \/ m \in j + 1 .. k - 1 \/ j \in m + 1 .. n
    BY <1>1
  <2>2. s[m].text = "proxy_list" /\ H(m) /\ \A i \in m + 1 .. k - 1 : ~H(i)
    BY <1>1, <1>3, <1>5, <2>1
  <2>3. Custom!Under(s, FALSE, k, "proxy_list")
    BY <1>4, <2>1, <2>2
  <2>4. ASSUME NEW j \in 1 .. k - 1, s[j].text = "bypass_list", \A i \in j + 1 .. k - 1 : ~H(i)
        PROVE  FALSE
    BY <1>3, <1>5, <2>1, <2>2, <2>4
  <2>5. ~\A i \in 1 .. k - 1 : ~H(i)
    BY <2>1, <2>2
  <2>6. ~Custom!Under(s, FALSE, k, "bypass_list")
    BY <1>4, <2>4, <2>5
  <2> QED
    BY <2>3, <2>6
<1> QED
  BY <1>6, <1>7 DEF n

\* What was saved is read back as it was.
LEMMA ReadBack ==
    ASSUME NEW a \in Custom!Rules, a.bypass, a.urls = {}
    PROVE  /\ Custom!AclToString(a) \in Seq(Custom!Line)
           /\ Custom!FromReader(Custom!AclToString(a), FALSE) = a
<1> DEFINE s == Custom!AclToString(a)
           n == Len(s)
           X == a.bypassHostnames
           Y == a.subnets \union a.proxyHostnames
           r == Custom!FromReader(s, FALSE)
<1>1. PICK m : Shape(s, X, Y, m)
  BY ShapeLemma
<1>2. /\ X \in SUBSET Hosts /\ X \in SUBSET (Hosts \union Subnets)
      /\ Y \in SUBSET (Hosts \union Subnets)
      /\ \A x : x \in Y /\ x \in Hosts <=> x \in a.proxyHostnames
      /\ \A x : x \in Y /\ x \in Subnets <=> x \in a.subnets
      /\ a.bypass = TRUE
  BY Words DEF Custom!Rules
<1>3. r = Custom!FromReader(s, FALSE) /\ n = Len(s)
  OBVIOUS
<1>4. s = Custom!AclToString(a)
  OBVIOUS
<1> HIDE DEF s, X, Y, r, n
<1>5. /\ s \in Seq(Custom!Line) /\ n \in Nat /\ DOMAIN s = 1 .. n /\ m \in 2 .. n + 1
      /\ \A k \in 1 .. n : s[k].url = Custom!NoUrl
      /\ s[1].text = "bypass_all"
      /\ m > 2 => s[2].text = "bypass_list"
      /\ \A k \in 3 .. m - 1 : s[k].text \in X
      /\ m <= n => s[m].text = "proxy_list"
      /\ \A k \in m + 1 .. n : s[k].text \in Y
      /\ \A x \in X : \E k \in 3 .. m - 1 : s[k].text = x
      /\ \A y \in Y : \E k \in m + 1 .. n : s[k].text = y
  BY <1>1, <1>3 DEF Shape
<1>6. \A k \in 1 .. n : \/ k = 1 \/ (k = 2 /\ m > 2) \/ k \in 3 .. m - 1
                        \/ (k = m /\ m <= n) \/ k \in m + 1 .. n
  BY <1>5
<1>7. \A k : k \in 3 .. m - 1 \/ k \in m + 1 .. n => k \in 1 .. n
  BY <1>5
<1>8. \A k \in 1 .. n : \/ s[k].text \in {"bypass_all", "bypass_list", "proxy_list"}
                        \/ k \in 3 .. m - 1 /\ s[k].text \in X
                        \/ k \in m + 1 .. n /\ s[k].text \in Y
  BY <1>5, <1>6
<1>9. ~FailedAt(s, n)
  BY <1>2, <1>8, Words DEF FailedAt
<1>10. ModeAt(s, FALSE, n)
  <2>1. \A k \in 1 .. n : s[k].text # "proxy_all"
    BY <1>2, <1>8, Words
  <2>2. 1 \in 1 .. n /\ \A k \in 1 + 1 .. n : k \in 1 .. n
    BY <1>5
  <2> QED
    BY <1>5, <2>1, <2>2 DEF ModeAt
<1>11. UrlsTo(s, n) = {}
  BY <1>5, Words DEF UrlsTo
<1>12. /\ \A k \in 3 .. m - 1 : /\ Custom!Under(s, FALSE, k, "bypass_list")
                                /\ ~Custom!Under(s, FALSE, k, "proxy_list")
       /\ \A k \in m + 1 .. n : /\ Custom!Under(s, FALSE, k, "proxy_list")
                                /\ ~Custom!Under(s, FALSE, k, "bypass_list")
  BY <1>1, <1>2, <1>3, ShapeUnder
<1>13. ASSUME NEW S, S \in {Hosts, Subnets}, NEW x
       PROVE  /\ x \in Lists(s, FALSE, S, "bypass_list") <=> x \in S /\ x \in X
              /\ x \in Lists(s, FALSE, S, "proxy_list") <=> x \in S /\ x \in Y
  <2>1. \A b \in {"bypass_list", "proxy_list"} : x \in Lists(s, FALSE, S, b) <=>
            x \in S /\ \E k \in 1 .. n : s[k].text = x /\ Custom!Under(s, FALSE, k, b)
    BY <1>5 DEF Lists, Custom!ListedUnder
  <2>2. x \in S => x \notin {"bypass_all", "bypass_list", "proxy_list"}
    BY <1>13, Words DEF Headings
  <2>3. ASSUME x \in S
        PROVE  (\E k \in 1 .. n : s[k].text = x /\ Custom!Under(s, FALSE, k, "bypass_list")) <=> x \in X
    <3>1. ASSUME NEW k \in 1 .. n, s[k].text = x, Custom!Under(s, FALSE, k, "bypass_list")
          PROVE  x \in X
      BY <1>8, <1>12, <2>2, <2>3, <3>1
    <3>2. ASSUME x \in X
          PROVE  \E k \in 1 .. n : s[k].text = x /\ Custom!Under(s, FALSE, k, "bypass_list")
      BY <1>5, <1>7, <1>12, <3>2
    <3> QED
      BY <3>1, <3>2
  <2>4. ASSUME x \in S
        PROVE  (\E k \in 1 .. n : s[k].text = x /\ Custom!Under(s, FALSE, k, "proxy_list")) <=> x \in Y
    <3>1. ASSUME NEW k \in 1 .. n, s[k].text = x, Custom!Under(s, FALSE, k, "proxy_list")
          PROVE  x \in Y
      BY <1>8, <1>12, <2>2, <2>4, <3>1
    <3>2. ASSUME x \in Y
          PROVE  \E k \in 1 .. n : s[k].text = x /\ Custom!Under(s, FALSE, k, "proxy_list")
      BY <1>5, <1>7, <1>12, <3>2
    <3> QED
      BY <3>1, <3>2
  <2> QED
    BY <2>1, <2>3, <2>4
<1>14. /\ Lists(s, FALSE, Hosts, "bypass_list") = a.bypassHostnames
       /\ Lists(s, FALSE, Hosts, "proxy_list") = a.proxyHostnames
       /\ Lists(s, FALSE, Subnets, "proxy_list") = a.subnets
  <2>1. \A x : x \in Lists(s, FALSE, Hosts, "bypass_list") <=> x \in a.bypassHostnames
    BY <1>2, <1>13 DEF X
  <2>2. \A x : x \in Lists(s, FALSE, Hosts, "proxy_list") <=> x \in a.proxyHostnames
    BY <1>2, <1>13
  <2>3. \A x : x \in Lists(s, FALSE, Subnets, "proxy_list") <=> x \in a.subnets
    BY <1>2, <1>13
  <2> QED
    BY <2>1, <2>2, <2>3
<1>15. /\ r \in Custom!Rules /\ r.bypass /\ r.urls = {}
       /\ r.bypassHostnames = a.bypassHostnames /\ r.proxyHostnames = a.proxyHostnames
       /\ r.subnets = a.subnets
  <2>1. /\ r = Failed <=> FailedAt(s, n)
        /\ r # Failed =>
             /\ r \in Custom!Rules
             /\ r.bypass <=> ModeAt(s, FALSE, n)
             /\ r.urls = UrlsTo(s, n)
             /\ r.bypassHostnames = Lists(s, FALSE, Hosts, "bypass_list")
             /\ r.proxyHostnames = Lists(s, FALSE, Hosts, "proxy_list")
             /\ r.subnets = Lists(s, FALSE, Subnets, IF r.bypass THEN "proxy_list" ELSE "bypass_list")
    BY <1>3, <1>5, FromReaderLemma
  <2> QED
    BY <1>9, <1>10, <1>11, <1>14, <2>1
<1>16. r = a
  BY <1>2, <1>15 DEF Custom!Rules
<1> QED
  BY <1>3, <1>4, <1>5, <1>16

-----------------------------------------------------------------------------
(* Acl: the connecting job *)

\* What has been read is the user's file, and what has been saved are its rules with
\* those of the files it imports.
AclInv ==
    /\ Contents
    /\ job \in {"read", "flatten", "saved", "failed"} /\ acl \in Custom!Rules
    /\ job # "saved" => saved = <<>>
    /\ job = "flatten" => acl = Custom!CustomRules(content[User])
    /\ job = "saved" =>
          /\ Custom!CustomRules(content[User]) # Failed
          /\ acl = Custom!Flatten(Custom!CustomRules(content[User]), MaxDepth) /\ acl # Failed
          /\ saved = Custom!AclToString(acl)

\* The job begins with nothing.
LEMMA AclInit == Custom!Init => AclInv
<1> SUFFICES ASSUME Custom!Init PROVE AclInv
  OBVIOUS
<1>1. Contents
  BY PartsAssumption DEF Custom!Init, Contents
<1>2. Custom!NoRules \in Custom!Rules
  BY DEF Custom!NoRules, Custom!Rules
<1> QED
  BY <1>1, <1>2 DEF Custom!Init, AclInv

\* The children in terms of the files' contents.
Kids(files) ==
    CHOOSE f : f = [d \in 0 .. MaxDepth |-> [u \in Urls |-> [mode \in BOOLEAN |->
        LET c == Custom!FromReader(files[u], mode)
        IN  IF c = Failed THEN Failed
            ELSE Custom!Merge(c, IF d = 0 THEN {} ELSE {f[d - 1][v][c.bypass] : v \in c.urls})]]]

\* They depend on nothing else.
LEMMA KidsLemma ==
    /\ Custom!Child(MaxDepth) = Kids(content)
    /\ Custom!Child(MaxDepth)' = Kids(content')
<1>1. Custom!Child(MaxDepth) = Kids(content)
  BY DEF Custom!Child, Kids
<1>2. Custom!Child(MaxDepth)' = Kids(content')
  BY DEF Custom!Child, Kids
<1> QED
  BY <1>1, <1>2

\* While the files stay as they are, flatten gives the same.
LEMMA FlattenSame ==
    ASSUME content' = content, NEW a
    PROVE  Custom!Flatten(a, MaxDepth)' = Custom!Flatten(a, MaxDepth)
<1>1. Custom!Child(MaxDepth)' = Custom!Child(MaxDepth)
  BY KidsLemma
<1> QED
  BY <1>1 DEF Custom!Flatten

\* Every step of the job keeps it, and so does none.
LEMMA AclStep ==
    ASSUME AclInv, Custom!Next \/ UNCHANGED aclVars
    PROVE  AclInv'
<1>0. content' = content /\ Contents
  BY DEF AclInv, Custom!Next, Custom!Read, Custom!FlattenAndSave, aclVars
<1>1. Contents'
  BY <1>0 DEF Contents
<1>2. PICK a : a = Custom!CustomRules(content[User])
  OBVIOUS
<1>3. a = Custom!CustomRules(content[User])'
  BY <1>0, <1>2
<1>4. content[User] \in Seq(Custom!Line)
  BY <1>0 DEF Contents
<1>5. a # Failed => a \in Custom!Rules
  BY <1>2, <1>4, CustomRulesLemma
<1>6. PICK f : f = Custom!Flatten(a, MaxDepth)
  OBVIOUS
<1>7. f = Custom!Flatten(a, MaxDepth)'
  BY <1>0, <1>6, FlattenSame
<1>8. AclInv' = /\ Contents'
                /\ job' \in {"read", "flatten", "saved", "failed"} /\ acl' \in Custom!Rules
                /\ job' # "saved" => saved' = <<>>
                /\ job' = "flatten" => acl' = a
                /\ job' = "saved" =>
                      a # Failed /\ acl' = f /\ acl' # Failed /\ saved' = Custom!AclToString(acl')
  BY <1>3, <1>7 DEF AclInv
<1>9. /\ job \in {"read", "flatten", "saved", "failed"} /\ acl \in Custom!Rules
      /\ job # "saved" => saved = <<>>
      /\ job = "flatten" => acl = a
      /\ job = "saved" =>
            a # Failed /\ acl = f /\ acl # Failed /\ saved = Custom!AclToString(acl)
  BY <1>2, <1>6 DEF AclInv
<1>10. CASE Custom!Read
  <2>1. /\ job = "read" /\ saved' = saved
        /\ \/ a = Failed /\ job' = "failed" /\ acl' = acl
           \/ a # Failed /\ job' = "flatten" /\ acl' = a
    BY <1>2, <1>10 DEF Custom!Read
  <2> QED
    BY <1>1, <1>5, <1>8, <1>9, <2>1
<1>11. CASE Custom!FlattenAndSave
  <2>1. acl # Failed
    BY <1>9, PartsAssumption
  <2>2. /\ job = "flatten" /\ acl = a
        /\ \/ job' = "failed" /\ acl' = acl /\ saved' = saved
           \/ f # Failed /\ acl' = f /\ job' = "saved" /\ saved' = Custom!AclToString(acl')
    BY <1>6, <1>9, <1>11 DEF Custom!FlattenAndSave
  <2>3. f # Failed => f \in Custom!Rules
    BY <1>0, <1>6, <1>9, <2>2, FlattenLemma DEF Adds
  <2> QED
    BY <1>1, <1>8, <1>9, <2>1, <2>2, <2>3
<1>12. CASE UNCHANGED aclVars
  <2>1. job' = job /\ acl' = acl /\ saved' = saved
    BY <1>12 DEF aclVars
  <2> QED
    BY <1>1, <1>8, <1>9, <2>1
<1> QED
  BY <1>10, <1>11, <1>12 DEF Custom!Next

\* What is saved is what the files reached say, and is read back as it was.
LEMMA AclPromise ==
    AclInv => /\ Custom!TypeOK /\ Custom!HostsAreThoseReached
              /\ Custom!SubnetsKeepTheirSide /\ Custom!SavedIsReadBack
<1> SUFFICES ASSUME AclInv
             PROVE  /\ Custom!TypeOK /\ Custom!HostsAreThoseReached
                    /\ Custom!SubnetsKeepTheirSide /\ Custom!SavedIsReadBack
  OBVIOUS
<1>1. CASE job # "saved"
  <2>1. saved \in Seq(Custom!Line)
    <3>1. <<>> \in Seq(Custom!Line)
      OBVIOUS
    <3> QED
      BY <1>1, <3>1 DEF AclInv
  <2> QED
    BY <1>1, <2>1 DEF AclInv, Contents, Custom!TypeOK, Custom!HostsAreThoseReached,
                      Custom!SubnetsKeepTheirSide, Custom!SavedIsReadBack
<1>2. CASE job = "saved"
  <2>1. /\ acl \in Custom!Rules /\ acl.bypass /\ acl.urls = {}
        /\ acl.bypassHostnames = Custom!Listed("bypass_list") \intersect Hosts
        /\ acl.proxyHostnames = Custom!Listed("proxy_list") \intersect Hosts
        /\ acl.subnets \subseteq Custom!Listed("proxy_list")
    BY <1>2, FlattenedAreReached DEF AclInv
  <2>2. saved \in Seq(Custom!Line) /\ Custom!FromReader(saved, FALSE) = acl
    BY <1>2, <2>1, ReadBack DEF AclInv
  <2> QED
    BY <1>2, <2>1, <2>2 DEF AclInv, Contents, Custom!TypeOK, Custom!HostsAreThoseReached,
                            Custom!SubnetsKeepTheirSide, Custom!SavedIsReadBack
<1> QED
  BY <1>1, <1>2

-----------------------------------------------------------------------------
(* The parts, of which one runs *)

PartsInv ==
    /\ part = "handover" => HandoverInv
    /\ part = "network" => NetworkInv
    /\ part = "traffic" => MonitorInv
    /\ part = "concurrent" => Flags /\ HeldInv(TRUE)
    /\ part = "plain" => Flags /\ HeldInv(FALSE)
    /\ part = "socks" => SocksInv
    /\ part = "acl" => AclInv

\* Every part begins in its invariant.
LEMMA PartsInit == Init => PartsInv
BY HandoverInit, NetworkInit, MonitorInit, HeldInit, SocksInit, AclInit DEF Init, PartsInv

\* The part that runs keeps its own.
LEMMA PartsStep == PartsInv /\ [Next]_vars => PartsInv'
<1> SUFFICES ASSUME PartsInv, [Next]_vars PROVE PartsInv'
  OBVIOUS
<1>1. CASE part = "handover" /\ Handover!Next /\ part' = part
  BY <1>1, HandoverStep DEF PartsInv
<1>2. CASE part = "network" /\ Network!Next /\ part' = part
  BY <1>2, NetworkStep DEF PartsInv
<1>3. CASE part = "traffic" /\ Traffic!Next /\ part' = part
  BY <1>3, MonitorStep DEF PartsInv
<1>4. CASE part = "concurrent" /\ Workers!Next /\ part' = part
  BY <1>4, HeldStep, FlagsStep DEF PartsInv
<1>5. CASE part = "plain" /\ Plain!Next /\ part' = part
  BY <1>5, HeldStep, FlagsStep DEF PartsInv
<1>6. CASE part = "socks" /\ Socks!Next /\ part' = part
  BY <1>6, SocksStep DEF PartsInv
<1>7. CASE part = "acl" /\ Custom!Next /\ part' = part
  BY <1>7, AclStep DEF PartsInv
<1>8. CASE UNCHANGED vars
  <2>1. part' = part
    BY <1>8 DEF vars
  <2>2. part = "handover" => HandoverInv'
    BY <1>8 DEF vars, handoverVars, PartsInv, HandoverInv, Handover!TypeOK, Process,
                Connections, Open, Handover!Waiting, Handover!SentIsReceived
  <2>3. part = "network" => NetworkInv'
    BY <1>8 DEF vars, networkVars, PartsInv, NetworkInv, Network!TypeOK, Keys, Listening,
                Asking, Leads, Network!SessionListens
  <2>4. part = "traffic" => MonitorInv'
    BY <1>8 DEF vars, trafficVars, PartsInv, MonitorInv, Traffic!TypeOK, Holds,
                Traffic!LooperIffListeners, Told, Copied
  <2>5. (part = "concurrent" => Flags' /\ HeldInv(TRUE)')
        /\ (part = "plain" => Flags' /\ HeldInv(FALSE)')
    BY <1>8 DEF vars, listenerVars, PartsInv, Flags, HeldInv, Held
  <2>6. part = "socks" => SocksInv'
    BY <1>8, SocksStep DEF vars, PartsInv
  <2>7. part = "acl" => AclInv'
    BY <1>8, AclStep DEF vars, PartsInv
  <2> QED
    BY <2>1, <2>2, <2>3, <2>4, <2>5, <2>6, <2>7 DEF PartsInv
<1> QED
  BY <1>1, <1>2, <1>3, <1>4, <1>5, <1>6, <1>7, <1>8 DEF Next

\* However often tun2socks is restarted and sendFd retried, a descriptor that is
\* reported as sent is received or on the way, and one reported as failed is not.
THEOREM DescriptorsArrive == Spec => []HandoverRight
<1>1. PartsInv => HandoverRight
  BY HandoverPromise DEF PartsInv, HandoverInv, HandoverRight
<1> QED
  BY <1>1, PartsInit, PartsStep, PTL DEF Spec

\* Whatever networks come and go and however often the service is restarted, with
\* its old key still listening, the actor's check holds, the listening services
\* follow the default network and the running session listens.
THEOREM ServicesFollowTheNetwork == Spec => []NetworkRight
<1>1. PartsInv => NetworkRight
  BY NetworkPromise DEF PartsInv, NetworkInv, NetworkRight
<1> QED
  BY <1>1, PartsInit, PartsStep, PTL DEF Spec

\* check(looper == null) and looper!! of the Binder never fail, and the data race
\* between requestUpdate's copy and its dirty = false is the only way for a
\* listener to miss a report.
THEOREM OnlyTheRaceLoses == Spec => []TrafficRight
<1>1. PartsInv => TrafficRight
  BY MonitorPromise DEF PartsInv, MonitorInv, TrafficRight
<1> QED
  BY <1>1, PartsInit, PartsStep, PTL DEF Spec

\* When shutdown() has been waited for nothing of the listener is left, plain or
\* concurrent, whatever the thread and its coroutines were doing when it came, and
\* the plain one has closed every connection it accepted.
THEOREM ShutdownLeavesNothing == Spec => []ListenerRight
<1>1. PartsInv => ListenerRight
  BY HeldPromise DEF PartsInv, ListenerRight
<1> QED
  BY <1>1, PartsInit, PartsStep, PTL DEF Spec

\* Every handshake frees what it allocated, keeps within its buffer and is handed
\* over at the first byte behind the server's reply, for any clients and methods.
THEOREM HandshakesAreRight == Spec => []SocksRight
<1>1. PartsInv => SocksRight
  BY SocksPromise DEF PartsInv, SocksRight
<1> QED
  BY <1>1, PartsInit, PartsStep, PTL DEF Spec

\* Whatever the files say and however their imports branch, form cycles and change
\* the mode, the rules that are saved import nothing more, have the host names of
\* the files reached under the lists they were found in, proxy no subnet that was
\* only to be bypassed, and are read back as they were.
THEOREM RulesAreRight == Spec => []AclRight
<1>1. PartsInv => AclRight
  BY AclPromise DEF PartsInv, AclRight
<1> QED
  BY <1>1, PartsInit, PartsStep, PTL DEF Spec
=============================================================================

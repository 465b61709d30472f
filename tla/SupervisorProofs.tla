-------------------------- MODULE SupervisorProofs --------------------------
(* Proofs that the supervisor keeps its budget of workers, that its books     *)
(* name existing processes only, that a worker hears of one client and that a *)
(* route leads to a worker of its own listener, for every configuration.      *)
EXTENDS Supervisor, TLAPS

-----------------------------------------------------------------------------
(* What the lemmas use of finite sets: how the workers are counted, and the   *)
(* listeners. CountsHold derives it from the library.                         *)
Counts ==
    /\ Cardinality({}) = 0
    /\ \A S \in SUBSET Pids :
        /\ Cardinality(S) \in Nat
        /\ \A T \in SUBSET S : Cardinality(T) <= Cardinality(S)
        /\ \A p \in Pids : Cardinality(S \cup {p}) <= Cardinality(S) + 1
    /\ \A n \in Nat :
        /\ Cardinality(1 .. n) = n
        /\ \A S \in SUBSET (1 .. n) : Cardinality(S) \in 0 .. n

-----------------------------------------------------------------------------
(* Type correctness, one group of variables at a time.                        *)
LoopType ==
    /\ live \in Seq(Listeners) /\ Len(live) <= Len(Config)
    /\ spc \in {"bind", "reap", "poll", "udp", "channels", "accept", "prune", "exit"}
    /\ idx \in 1 .. Len(Config) + 1
    /\ ready \subseteq {"tcp", "udp", "channel"} \X (Listeners \cup Pids)
    /\ dead \subseteq Listeners

NetworkType ==
    /\ tcpq \in [Listeners -> Seq(Ips)] /\ udpq \in [Listeners -> Seq(Datagrams)]
    /\ broken \subseteq Listeners /\ faults \in 0 .. MaxFaults

WorkerType ==
    /\ proc \in [Pids -> {"none", "running", "zombie"}]
    /\ lsn \in [Pids -> Listeners]
    /\ tun \in [Pids -> {"off", "new", "idle", "accept", "tunnel", "closed"}]
    /\ served \in [Pids -> Addrs \cup {None}]
    /\ inbox \in [Pids -> Seq(Datagrams)]
    /\ outbox \in [Pids -> Hashes \cup {None}]
    /\ used \subseteq Hashes

BooksType ==
    /\ workers \in [Pids -> Ips \cup {None}]
    /\ channels \in [Pids -> Indices \cup {0}]
    /\ requests \subseteq [hash : Hashes, pid : Pids, listener : Indices]
    /\ clients \in [Indices \X Addrs -> Pids \cup {None}]

(* While the loop reads what poll reported, a worker's channel that had       *)
(* something to read still has it.                                            *)
Polled ==
    \A p \in Pids : spc \in {"udp", "channels"} /\ <<"channel", p>> \in ready
                    => channels[p] # 0 /\ outbox[p] # None

Types == LoopType /\ NetworkType /\ WorkerType /\ BooksType /\ Polled

TypedStep == Types /\ [Next]_vars

LEMMA ConfigFacts ==
    /\ Config \in Seq(Listeners) /\ Len(Config) \in Nat /\ Len(Config) >= 1
    /\ Config[1] \in Listeners /\ Listeners # {}
    /\ \A i \in 1 .. Len(Config) : Config[i] \in Listeners
BY ConfigAssumption DEF Listeners

(* A function on an interval from 1 is a sequence, and the other way round.   *)
LEMMA FunctionIsSeq ==
    ASSUME NEW n \in Nat, NEW S, NEW f \in [1 .. n -> S]
    PROVE  f \in Seq(S) /\ Len(f) = n
OBVIOUS

LEMMA SeqFacts ==
    ASSUME NEW S, NEW q \in Seq(S)
    PROVE  /\ Len(q) \in Nat /\ q \in [1 .. Len(q) -> S] /\ DOMAIN q = 1 .. Len(q)
           /\ q # <<>> => /\ Tail(q) \in Seq(S) /\ Head(q) \in S
                          /\ Len(q) > 0 /\ Len(Tail(q)) = Len(q) - 1
                          /\ Head(q) = q[1] /\ \A i \in 1 .. Len(Tail(q)) : Tail(q)[i] = q[i + 1]
           /\ \A x \in S : /\ Append(q, x) \in Seq(S) /\ Len(Append(q, x)) = Len(q) + 1
                             /\ \A i \in 1 .. Len(q) : Append(q, x)[i] = q[i]
                             /\ Append(q, x)[Len(q) + 1] = x
OBVIOUS

(* The listeners that are kept are listeners, and no more than before.        *)
LEMMA KeptFacts ==
    ASSUME LoopType, Counts
    PROVE  /\ Kept \subseteq 1 .. Len(live)
           /\ Cardinality(Kept) \in Nat /\ Cardinality(Kept) <= Len(live)
<1>1. Len(live) \in Nat
  BY DEF LoopType
<1>2. Kept \in SUBSET (1 .. Len(live))
  BY Zenon DEF Kept
<1>3. Cardinality(Kept) \in 0 .. Len(live)
  BY <1>1, <1>2, Zenon DEF Counts
<1> QED
  BY <1>1, <1>2, <1>3

LEMMA LoopStep ==
    ASSUME TypedStep, Counts
    PROVE  LoopType'
<1> SUFFICES ASSUME Types, [Next]_vars
             PROVE  LoopType'
  BY Zenon DEF TypedStep
<1>t. LoopType /\ NetworkType /\ WorkerType /\ BooksType /\ Polled
  BY Zenon DEF Types
<1> USE <1>t, ConfigFacts DEF LoopType
<1>1. CASE BindAll
  BY <1>1 DEF BindAll
<1>2. CASE Reap
  BY <1>2, Zenon DEF Reap
<1>3. CASE Poll
  BY <1>3, ConfigAssumption DEF Poll, NetworkType
<1>4. CASE ReadSocket
  BY <1>4 DEF ReadSocket
<1>5. CASE ReadChannel
  BY <1>5, Zenon DEF ReadChannel
<1>6. CASE AcceptOne
  BY <1>6, Zenon DEF AcceptOne, loop
<1>7. CASE AcceptNext
  BY <1>7 DEF AcceptNext
<1>8. CASE Prune
  <2>1. PICK pos \in [1 .. Cardinality(Kept) -> Kept] :
             live' = [i \in 1 .. Cardinality(Kept) |-> live[pos[i]]]
    BY <1>8, Zenon DEF Prune
  <2>2. \A i \in 1 .. Cardinality(Kept) : live[pos[i]] \in Listeners
    <3>1. live \in [1 .. Len(live) -> Listeners]
      BY DEF LoopType
    <3> QED
      BY <3>1, KeptFacts, Zenon
  <2>3. live' \in Seq(Listeners) /\ Len(live') = Cardinality(Kept)
    <3>1. Cardinality(Kept) \in Nat
      BY KeptFacts, Zenon
    <3>2. live' \in [1 .. Cardinality(Kept) -> Listeners]
      BY <2>1, <2>2, Zenon
    <3> QED
      BY ONLY <3>1, <3>2, FunctionIsSeq, Zenon
  <2> QED
    BY <1>8, <2>3, KeptFacts DEF Prune
<1>9. CASE (\E p \in Pids : Tunnel(p)) \/ UNCHANGED vars
  BY <1>9, Zenon DEF Tunnel, Register, Receive, Established, AcceptEnds, TunnelCloses,
              WorkerExits, vars, loop
<1>10. CASE \E l \in Listeners : (\E ip \in Ips : Connect(l, ip)) \/ (\E a \in Addrs : Send(l, a)) \/ Break(l)
  BY <1>10, Zenon DEF Connect, Send, Break, loop
<1> QED
  BY <1>1, <1>2, <1>3, <1>4, <1>5, <1>6, <1>7, <1>8, <1>9, <1>10, Zenon DEF Next, Loop

(* The listener the loop is at is one.                                        *)
LEMMA AtListener ==
    ASSUME LoopType, idx <= Len(live)
    PROVE  live[idx] \in Listeners
<1>1. live \in [1 .. Len(live) -> Listeners] /\ idx \in 1 .. Len(live)
  BY ConfigFacts DEF LoopType
<1> QED
  BY <1>1, Zenon

(* Queues stay queues.                                                        *)
LEMMA QueueFacts ==
    ASSUME NEW S, NEW q \in Seq(S)
    PROVE  /\ q # <<>> => Tail(q) \in Seq(S) /\ Head(q) \in S
           /\ \A x \in S : Append(q, x) \in Seq(S)
OBVIOUS

LEMMA NetworkStep ==
    ASSUME TypedStep
    PROVE  NetworkType'
<1> SUFFICES ASSUME Types, [Next]_vars
             PROVE  NetworkType'
  BY Zenon DEF TypedStep
<1>t. LoopType /\ NetworkType /\ WorkerType /\ BooksType /\ Polled
  BY Zenon DEF Types
<1> USE <1>t, ConfigFacts, BoundAssumption DEF NetworkType
<1>1. CASE BindAll
  <2>1. UNCHANGED <<tcpq, udpq, broken>> /\ (UNCHANGED faults \/ Fault)
    BY <1>1, Zenon DEF BindAll
  <2>2. faults' \in 0 .. MaxFaults
    BY <2>1 DEF Fault
  <2> QED
    BY <2>1, <2>2, Zenon
<1>2. CASE Reap \/ Poll \/ ReadChannel
  BY <1>2, Zenon DEF Reap, Poll, ReadChannel, network
<1>3. CASE ReadSocket
  <2>1. UNCHANGED <<tcpq, broken, faults>>
    BY <1>3, Zenon DEF ReadSocket
  <2>2. CASE UNCHANGED udpq
    BY <2>1, <2>2, Zenon
  <2>3. CASE ~UNCHANGED udpq
    <3>1. /\ idx <= Len(live) /\ udpq[live[idx]] # <<>>
          /\ udpq' = [udpq EXCEPT ![live[idx]] = Tail(@)]
      BY <1>3, <2>3, Zenon DEF ReadSocket
    <3>2. live[idx] \in Listeners /\ udpq[live[idx]] \in Seq(Datagrams)
      BY <3>1, AtListener, Zenon
    <3>3. Tail(udpq[live[idx]]) \in Seq(Datagrams)
      BY <3>1, <3>2, QueueFacts, Zenon
    <3> QED
      BY <2>1, <3>1, <3>2, <3>3, Zenon
  <2> QED
    BY <2>2, <2>3, Zenon
<1>4. CASE AcceptOne
  <2>1. /\ idx <= Len(live) /\ tcpq[live[idx]] # <<>>
        /\ tcpq' = [tcpq EXCEPT ![live[idx]] = Tail(@)]
        /\ UNCHANGED <<udpq, broken>>
    BY <1>4, Zenon DEF AcceptOne
  <2>f. UNCHANGED faults \/ Fault
    BY <1>4, Zenon DEF AcceptOne, Forked
  <2>2. live[idx] \in Listeners /\ tcpq[live[idx]] \in Seq(Ips)
    BY <2>1, AtListener, Zenon
  <2>3. Tail(tcpq[live[idx]]) \in Seq(Ips)
    BY <2>1, <2>2, QueueFacts, Zenon
  <2>4. faults' \in 0 .. MaxFaults
    BY <2>f DEF Fault
  <2> QED
    BY <2>1, <2>2, <2>3, <2>4, Zenon
<1>5. CASE AcceptNext
  <2>1. UNCHANGED <<tcpq, udpq, broken>> /\ (UNCHANGED faults \/ Fault)
    BY <1>5, Zenon DEF AcceptNext
  <2>2. faults' \in 0 .. MaxFaults
    BY <2>1 DEF Fault
  <2> QED
    BY <2>1, <2>2, Zenon
<1>6. CASE Prune
  BY <1>6 DEF Prune
<1>7. CASE (\E p \in Pids : Tunnel(p)) \/ UNCHANGED vars
  BY <1>7, Zenon DEF Tunnel, Register, Receive, Established, AcceptEnds, TunnelCloses,
              WorkerExits, vars, network
<1>8. ASSUME NEW l \in Listeners, NEW ip \in Ips, Connect(l, ip)
      PROVE  NetworkType'
  BY <1>8, QueueFacts, Zenon DEF Connect
<1>9. ASSUME NEW l \in Listeners, NEW a \in Addrs, Send(l, a)
      PROVE  NetworkType'
  <2>1. PICK m \in Data \cup {s \in Syn : s.hash \in used} :
             udpq' = [udpq EXCEPT ![l] = Append(@, [addr |-> a, pdu |-> m])]
    BY <1>9, Zenon DEF Send
  <2>2. [addr |-> a, pdu |-> m] \in Datagrams
    BY <2>1, Zenon DEF Datagrams
  <2>3. Append(udpq[l], [addr |-> a, pdu |-> m]) \in Seq(Datagrams)
    BY <2>2, QueueFacts, Zenon
  <2> QED
    BY <1>9, <2>1, <2>3, Zenon DEF Send
<1>10. ASSUME NEW l \in Listeners, Break(l)
       PROVE  NetworkType'
  BY <1>10, Zenon DEF Break
<1> QED
  BY <1>1, <1>2, <1>3, <1>4, <1>5, <1>6, <1>7, <1>8, <1>9, <1>10, Zenon DEF Next, Loop

(* What a reap leaves.                                                        *)
LEMMA ReapFacts ==
    ASSUME TypedStep
    PROVE  /\ reap.workers \in [Pids -> Ips \cup {None}]
           /\ reap.channels \in [Pids -> Indices \cup {0}]
           /\ reap.requests \subseteq requests
           /\ reap.clients \in [Indices \X Addrs -> Pids \cup {None}]
           /\ reap.proc \in [Pids -> {"none", "running", "zombie"}]
           /\ reap.lsn \in [Pids -> Listeners]
           /\ \A p \in Pids :
                IF proc[p] = "zombie"
                THEN reap.workers[p] = None /\ reap.channels[p] = 0 /\ reap.proc[p] = "none"
                ELSE /\ reap.workers[p] = workers[p] /\ reap.channels[p] = channels[p]
                     /\ reap.proc[p] = proc[p] /\ reap.lsn[p] = lsn[p]
           /\ \A r \in reap.requests : proc[r.pid] # "zombie"
           /\ \A k \in Indices \X Addrs :
                reap.clients[k] # None => reap.clients[k] = clients[k] /\ proc[clients[k]] # "zombie"
<1> Types
  BY Zenon DEF TypedStep
<1> QED
  BY ConfigFacts, NoneAssumption, Zenon DEF Types, BooksType, WorkerType, reap, Reaped, Zombies
  
  (* One accepted connection: the books are reaped first, and then either they  *)
  (* stay so or a free process number is forked.                                *)
  Refuses ==
      /\ workers' = reap.workers /\ channels' = reap.channels
      /\ proc' = reap.proc /\ lsn' = reap.lsn
      /\ UNCHANGED <<tun, outbox>>
  
  Forks(p, ip) ==
      /\ reap.proc[p] = "none" /\ admit(reap.workers, ip)
      /\ proc' = [reap.proc EXCEPT ![p] = "running"]
      /\ workers' = [reap.workers EXCEPT ![p] = ip]
      /\ lsn' = [reap.lsn EXCEPT ![p] = live[idx]]
      /\ outbox' = [outbox EXCEPT ![p] = None]
      /\ \/ channels' = [reap.channels EXCEPT ![p] = idx] /\ tun' = [tun EXCEPT ![p] = "new"]
         \/ channels' = reap.channels /\ tun' = [tun EXCEPT ![p] = "off"]

LEMMA AcceptFacts ==
    ASSUME TypedStep, AcceptOne
    PROVE  /\ idx <= Len(live) /\ idx \in 1 .. Len(live) /\ idx \in Indices
           /\ live[idx] \in Listeners
           /\ requests' = reap.requests /\ clients' = reap.clients
           /\ UNCHANGED <<loop, served, inbox, used, broken>>
           /\ Refuses \/ \E p \in Pids, ip \in Ips : Forks(p, ip)
<1> Types
  BY Zenon DEF TypedStep
<1>1. idx <= Len(live) /\ tcpq[live[idx]] # <<>>
  BY Zenon DEF AcceptOne
<1>2. live[idx] \in Listeners
  BY <1>1, AtListener, Zenon DEF Types
<1>3. Head(tcpq[live[idx]]) \in Ips
  BY <1>1, <1>2, QueueFacts, Zenon DEF Types, NetworkType
<1>4. idx \in 1 .. Len(live) /\ idx \in Indices
  BY <1>1, ConfigFacts DEF Types, LoopType, Indices
<1>5. Refuses \/ \E p \in Pids : Forks(p, Head(tcpq[live[idx]]))
  BY Zenon DEF AcceptOne, Forked, Refuses, Forks
<1> QED
  BY <1>1, <1>2, <1>3, <1>4, <1>5, Zenon DEF AcceptOne

(* A delivery adds one datagram to one inbox, or nothing.                     *)
LEMMA DeliverFacts ==
    ASSUME WorkerType, NEW p \in Pids, NEW d \in Datagrams, Deliver(p, d)
    PROVE  /\ inbox' \in [Pids -> Seq(Datagrams)]
           /\ UNCHANGED inbox \/ (/\ tun[p] \in {"new", "idle", "accept", "tunnel"}
                                  /\ inbox' = [inbox EXCEPT ![p] = Append(@, d)])
<1>1. inbox[p] \in Seq(Datagrams)
  BY Zenon DEF WorkerType
<1>2. Append(inbox[p], d) \in Seq(Datagrams)
  BY <1>1, QueueFacts, Zenon
<1> QED
  BY <1>2, Zenon DEF WorkerType, Deliver

(* One datagram read from a port: it goes to the worker of a known client, or *)
(* to one that asked for it, or nowhere.                                      *)
LEMMA ReadFacts ==
    ASSUME TypedStep, ReadSocket
    PROVE  \/ UNCHANGED <<requests, clients, inbox>>
           \/ /\ idx <= Len(live) /\ idx \in Indices
              /\ \E d \in Datagrams : \E p \in Pids :
                    /\ Deliver(p, d)
                    /\ \/ /\ clients[<<idx, d.addr>>] = p
                          /\ UNCHANGED <<requests, clients>>
                       \/ /\ ~Known(idx, d.addr)
                          /\ \E r \in Asked(idx, d) :
                               /\ p = r.pid
                               /\ requests' = Unanswered(d.pdu.hash)
                               /\ clients' = [clients EXCEPT ![<<idx, d.addr>>] = r.pid]
<1> Types
  BY Zenon DEF TypedStep
<1>1. CASE UNCHANGED udpq
  <2>1. UNCHANGED <<requests, clients, inbox>>
    <3> SUFFICES ASSUME ~UNCHANGED <<requests, clients, inbox>> PROVE FALSE
      BY Zenon
    <3>1. /\ idx <= Len(live) /\ udpq[live[idx]] # <<>>
          /\ udpq' = [udpq EXCEPT ![live[idx]] = Tail(@)]
      BY Zenon DEF ReadSocket
    <3>2. live[idx] \in Listeners /\ udpq[live[idx]] \in Seq(Datagrams)
      BY <3>1, AtListener, Zenon DEF Types, NetworkType
    <3>3. Len(Tail(udpq[live[idx]])) # Len(udpq[live[idx]])
      BY <3>1, <3>2
    <3> QED
      BY <1>1, <3>1, <3>2, <3>3, Zenon DEF Types, NetworkType
  <2> QED
    BY <2>1, Zenon
<1>2. CASE ~UNCHANGED udpq
  <2> DEFINE d == Head(udpq[live[idx]])
  <2>1. /\ idx <= Len(live) /\ udpq[live[idx]] # <<>>
        /\ \/ /\ Known(idx, d.addr)
              /\ Deliver(clients[<<idx, d.addr>>], d)
              /\ UNCHANGED <<requests, clients>>
           \/ /\ ~Known(idx, d.addr)
              /\ \E r \in Asked(idx, d) :
                   /\ requests' = Unanswered(d.pdu.hash)
                   /\ clients' = [clients EXCEPT ![<<idx, d.addr>>] = r.pid]
                   /\ Deliver(r.pid, d)
           \/ UNCHANGED <<requests, clients, inbox>>
    BY <1>2, Zenon DEF ReadSocket
  <2>2. live[idx] \in Listeners /\ udpq[live[idx]] \in Seq(Datagrams)
    BY <2>1, AtListener, Zenon DEF Types, NetworkType
  <2>3. d \in Datagrams
    BY <2>1, <2>2, QueueFacts, Zenon
  <2>4. idx \in Indices
    BY <2>1, ConfigFacts DEF Types, LoopType, Indices
  <2>5. d.addr \in Addrs /\ <<idx, d.addr>> \in Indices \X Addrs
    BY <2>3, <2>4, Zenon DEF Datagrams
  <2>6. clients[<<idx, d.addr>>] \in Pids \cup {None}
    BY <2>5, Zenon DEF Types, BooksType
  <2>7. \A r \in Asked(idx, d) : r.pid \in Pids
    BY Zenon DEF Asked, Types, BooksType
  <2> HIDE DEF d
  <2> QED
    BY <2>1, <2>3, <2>4, <2>6, <2>7, Zenon DEF Known
<1> QED
  BY <1>1, <1>2, Zenon

LEMMA WorkerStep ==
    ASSUME TypedStep
    PROVE  WorkerType'
<1> SUFFICES ASSUME Types, [Next]_vars
             PROVE  WorkerType'
  BY Zenon DEF TypedStep
<1>t. LoopType /\ NetworkType /\ WorkerType /\ BooksType /\ Polled
  BY Zenon DEF Types
<1> USE <1>t, ConfigFacts DEF WorkerType
<1>1. CASE BindAll \/ Poll \/ AcceptNext \/ Prune \/ UNCHANGED vars
  BY <1>1, Zenon DEF BindAll, Poll, AcceptNext, Prune, vars, worker
<1>2. CASE Reap
  BY <1>2, ReapFacts, Zenon DEF Reap
<1>3. CASE ReadSocket
  <2>1. UNCHANGED <<proc, lsn, tun, served, outbox, used>>
    BY <1>3, Zenon DEF ReadSocket
  <2>2. inbox' \in [Pids -> Seq(Datagrams)]
    BY <1>3, ReadFacts, DeliverFacts, Zenon
  <2> QED
    BY <2>1, <2>2, Zenon
<1>4. CASE ReadChannel
  BY <1>4, Zenon DEF ReadChannel
<1>5. CASE AcceptOne
  <2>1. CASE Refuses
    BY <1>5, <2>1, AcceptFacts, ReapFacts, Zenon DEF Refuses
  <2>2. ASSUME NEW p \in Pids, NEW ip \in Ips, Forks(p, ip)
        PROVE  WorkerType'
    <3>1. UNCHANGED <<served, inbox, used>> /\ live[idx] \in Listeners
      BY <1>5, AcceptFacts, Zenon
    <3>2. proc' \in [Pids -> {"none", "running", "zombie"}] /\ lsn' \in [Pids -> Listeners]
      BY <2>2, <3>1, ReapFacts, Zenon DEF Forks
    <3>3. /\ tun' \in [Pids -> {"off", "new", "idle", "accept", "tunnel", "closed"}]
          /\ outbox' \in [Pids -> Hashes \cup {None}]
      BY <2>2, Zenon DEF Forks
    <3> QED
      BY <3>1, <3>2, <3>3, Zenon
  <2>3. Refuses \/ \E p \in Pids, ip \in Ips : Forks(p, ip)
    BY <1>5, AcceptFacts, Zenon
  <2> QED
    BY <2>1, <2>2, <2>3, Zenon
<1>6. ASSUME NEW p \in Pids, Tunnel(p)
      PROVE  WorkerType'
  <2>1. CASE Register(p) \/ Established(p) \/ AcceptEnds(p)
    <3>1. CASE Register(p)
      BY <3>1, Zenon DEF Register
    <3>2. CASE Established(p)
      BY <3>2, Zenon DEF Established
    <3>3. CASE AcceptEnds(p)
      BY <3>3, Zenon DEF AcceptEnds
    <3> QED
      BY <2>1, <3>1, <3>2, <3>3, Zenon
  <2>2. CASE Receive(p)
    <3>1. inbox[p] \in Seq(Datagrams) /\ inbox[p] # <<>>
      BY <2>2, Zenon DEF Receive
    <3>2. Head(inbox[p]) \in Datagrams /\ Tail(inbox[p]) \in Seq(Datagrams)
      BY <3>1, QueueFacts, Zenon
    <3>3. Head(inbox[p]).addr \in Addrs
      BY <3>2, Zenon DEF Datagrams
    <3> QED
      BY <2>2, <3>2, <3>3, Zenon DEF Receive
  <2>3. <<>> \in Seq(Datagrams)
    OBVIOUS
  <2>4. CASE TunnelCloses(p)
    BY <2>3, <2>4, Zenon DEF TunnelCloses
  <2>5. CASE WorkerExits(p)
    BY <2>3, <2>5, Zenon DEF WorkerExits
  <2> QED
    BY <1>6, <2>1, <2>2, <2>4, <2>5, Zenon DEF Tunnel
<1>7. CASE \E l \in Listeners : (\E ip \in Ips : Connect(l, ip)) \/ (\E a \in Addrs : Send(l, a)) \/ Break(l)
  BY <1>7, Zenon DEF Connect, Send, Break, worker
<1> QED
  BY <1>1, <1>2, <1>3, <1>4, <1>5, <1>6, <1>7, Zenon DEF Next, Loop

(* A worker's own steps leave the supervisor and the network alone.           *)
LEMMA TunnelFacts ==
    ASSUME NEW p \in Pids, Tunnel(p)
    PROVE  /\ proc[p] = "running" /\ UNCHANGED <<loop, books, network, lsn>>
           /\ \/ UNCHANGED outbox
              \/ /\ tun[p] = "new" /\ tun' = [tun EXCEPT ![p] = "idle"]
                 /\ \E h \in Hashes : outbox' = [outbox EXCEPT ![p] = h]
           /\ \/ UNCHANGED tun
              \/ \E t \in {"off", "idle", "accept", "tunnel", "closed"} : tun' = [tun EXCEPT ![p] = t]
BY Zenon DEF Tunnel, Register, Receive, Established, AcceptEnds, TunnelCloses, WorkerExits

LEMMA BooksStep ==
    ASSUME TypedStep
    PROVE  BooksType' /\ Polled'
<1> SUFFICES ASSUME Types, [Next]_vars
             PROVE  BooksType' /\ Polled'
  BY Zenon DEF TypedStep
<1>t. LoopType /\ NetworkType /\ WorkerType /\ BooksType /\ Polled
  BY Zenon DEF Types
<1> USE <1>t, NoneAssumption DEF BooksType, Polled
<1>1. CASE BindAll \/ AcceptNext \/ Prune \/ UNCHANGED vars
  BY <1>1, Zenon DEF BindAll, AcceptNext, Prune, vars, books, worker, loop
<1>2. CASE Reap
  BY <1>2, ReapFacts, Zenon DEF Reap
<1>3. CASE Poll
  BY <1>3, Zenon DEF Poll, books, worker
<1>4. CASE ReadSocket
  <2>1. UNCHANGED <<workers, channels, outbox>> /\ ready' \subseteq ready
        /\ (spc' \in {"udp", "channels"} => spc \in {"udp", "channels"})
    BY <1>4, Zenon DEF ReadSocket
  <2>2. Polled'
    BY <2>1, Zenon
  <2>3. CASE UNCHANGED <<requests, clients>>
    BY <2>1, <2>2, <2>3, Zenon
  <2>4. ASSUME NEW d \in Datagrams, NEW r \in Asked(idx, d), idx \in Indices,
               requests' = Unanswered(d.pdu.hash),
               clients' = [clients EXCEPT ![<<idx, d.addr>>] = r.pid]
        PROVE  BooksType'
    <3>1. d.addr \in Addrs /\ r.pid \in Pids
      BY <2>4, Zenon DEF Datagrams, Asked
    <3>2. requests' \subseteq requests
      BY <2>4, Zenon DEF Unanswered
    <3> QED
      BY <2>1, <2>4, <3>1, <3>2, Zenon
  <2> QED
    BY <1>4, <2>2, <2>3, <2>4, ReadFacts, Zenon
<1>5. CASE ReadChannel
  <2>1. UNCHANGED <<workers, channels, clients>> /\ spc' = "accept"
    BY <1>5, Zenon DEF ReadChannel
  <2>2. \A p \in Pids : <<"channel", p>> \in ready =>
            outbox[p] \in Hashes /\ channels[p] \in Indices
    BY <1>5, Zenon DEF ReadChannel, WorkerType
  <2>3. requests' = requests \cup
             {[hash |-> outbox[p], pid |-> p, listener |-> channels[p]] :
                 p \in {q \in Pids : <<"channel", q>> \in ready}}
    BY <1>5, Zenon DEF ReadChannel
  <2>4. requests' \subseteq [hash : Hashes, pid : Pids, listener : Indices]
    <3> SUFFICES ASSUME NEW r \in requests', r \notin requests
                 PROVE  r \in [hash : Hashes, pid : Pids, listener : Indices]
      BY Zenon
    <3>1. PICK p \in Pids : /\ <<"channel", p>> \in ready
                            /\ r = [hash |-> outbox[p], pid |-> p, listener |-> channels[p]]
      BY <2>3, Zenon
    <3> QED
      BY <2>2, <3>1, Zenon
  <2> QED
    BY <2>1, <2>4, Zenon
<1>6. CASE AcceptOne
  <2>1. requests' \subseteq requests /\ clients' \in [Indices \X Addrs -> Pids \cup {None}]
    BY <1>6, AcceptFacts, ReapFacts, Zenon
  <2>2. spc' = "accept"
    BY <1>6, Zenon DEF AcceptOne, loop
  <2>3. CASE Refuses
    BY <2>1, <2>2, <2>3, ReapFacts, Zenon DEF Refuses
  <2>4. ASSUME NEW p \in Pids, NEW ip \in Ips, Forks(p, ip)
        PROVE  BooksType' /\ Polled'
    <3>1. idx \in Indices
      BY <1>6, AcceptFacts, Zenon
    <3>2. workers' \in [Pids -> Ips \cup {None}]
      BY <2>4, ReapFacts, Zenon DEF Forks
    <3>3. channels' \in [Pids -> Indices \cup {0}]
      BY <2>4, <3>1, ReapFacts, Zenon DEF Forks
    <3>4. BooksType'
      BY <2>1, <3>2, <3>3, Zenon
    <3>5. Polled'
      BY <2>2, Zenon
    <3> QED
      BY <3>4, <3>5, Zenon
  <2>5. Refuses \/ \E p \in Pids, ip \in Ips : Forks(p, ip)
    BY <1>6, AcceptFacts, Zenon
  <2> QED
    BY <2>3, <2>4, <2>5, Zenon
<1>7. ASSUME NEW p \in Pids, Tunnel(p)
      PROVE  BooksType' /\ Polled'
  <2>1. UNCHANGED <<workers, channels, requests, clients, spc, ready>>
    BY <1>7, TunnelFacts, Zenon DEF books, loop
  <2>2. ASSUME NEW q \in Pids, outbox[q] # None
        PROVE  outbox'[q] # None
    <3>1. CASE UNCHANGED outbox
      BY <2>2, <3>1, Zenon
    <3>2. CASE \E h \in Hashes : outbox' = [outbox EXCEPT ![p] = h]
      <4>1. PICK h \in Hashes : outbox' = [outbox EXCEPT ![p] = h]
        BY <3>2, Zenon
      <4>2. outbox \in [Pids -> Hashes \cup {None}]
        BY Zenon DEF WorkerType
      <4> QED
        BY <2>2, <4>1, <4>2, Zenon
    <3> QED
      BY <1>7, <3>1, <3>2, TunnelFacts, Zenon
  <2>3. BooksType'
    BY <2>1, Zenon
  <2>4. Polled'
    BY <2>1, <2>2, Zenon
  <2> QED
    BY <2>3, <2>4, Zenon
<1>8. CASE \E l \in Listeners : (\E ip \in Ips : Connect(l, ip)) \/ (\E a \in Addrs : Send(l, a)) \/ Break(l)
  BY <1>8, Zenon DEF Connect, Send, Break, worker, books, loop
<1> QED
  BY <1>1, <1>2, <1>3, <1>4, <1>5, <1>6, <1>7, <1>8, Zenon DEF Next, Loop

-----------------------------------------------------------------------------
(* The inductive invariant.                                                   *)

(* The budget, counted in the books: a process has its share of it.           *)
Counted ==
    /\ \A p \in Pids : proc[p] # "none" => workers[p] # None
    /\ Cardinality({p \in Pids : workers[p] # None}) <= MaxWorkers
    /\ \A ip \in Ips : Cardinality({p \in Pids : workers[p] = ip}) <= MaxPerClient

(* A process that is not running hears nothing.                               *)
Still ==
    \A p \in Pids : proc[p] # "running" => inbox[p] = <<>> /\ served[p] = None /\ tun[p] = "off"

(* Nobody is routed to a worker before its request has been read.             *)
Unread ==
    \A p \in Pids :
        /\ outbox[p] # None \/ tun[p] = "new" =>
             (\A r \in requests : r.pid # p) /\ (\A k \in Indices \X Addrs : clients[k] # p)
        /\ tun[p] = "new" => outbox[p] = None

(* A worker has one request or one client.                                    *)
Single ==
    /\ \A r \in requests : \A k \in Indices \X Addrs : clients[k] # r.pid
    /\ \A r, s \in requests : r.pid = s.pid => r = s
    /\ \A j, k \in Indices \X Addrs : clients[j] # None /\ clients[j] = clients[k] => j = k

(* What a worker hears comes from a client routed to it.                      *)
Routed(c, a, p) == a \in Addrs /\ \E n \in Indices : c[<<n, a>>] = p

Heard ==
    \A p \in Pids :
        /\ \A i \in 1 .. Len(inbox[p]) : Routed(clients, inbox[p][i].addr, p)
        /\ served[p] # None => Routed(clients, served[p], p)

(* As long as no listener broke, the vector of listeners is the configured    *)
(* one and the books' indices into it name the listener of the worker.        *)
Own ==
    broken = {} =>
    /\ dead = {} /\ live \in {<<>>, Config} /\ (live = <<>> => spc \in {"bind", "exit"})
    /\ \A p \in Pids : channels[p] # 0 => channels[p] <= Len(live) /\ live[channels[p]] = lsn[p]

IInv == Types /\ BooksLive /\ Counted /\ Still /\ Unread /\ Single /\ Heard /\ Own /\ RoutesOwn

(* A step from a state of the invariant, and from a well-typed one. The       *)
(* lemmas name them rather than spell them out.                               *)
Step == IInv /\ [Next]_vars

LEMMA Quiet ==
    ASSUME TypedStep
    PROVE  \/ Reap \/ ReadSocket \/ ReadChannel \/ AcceptOne
           \/ (\E p \in Pids : Tunnel(p))
           \/ UNCHANGED <<books, worker>>
BY Zenon DEF TypedStep, Next, Loop, BindAll, Poll, AcceptNext, Prune, Connect, Send, Break, vars

(* A request that is new is one a worker sent, whose channel poll reported.   *)
LEMMA RequestFacts ==
    ASSUME ReadChannel, NEW r \in requests', r \notin requests
    PROVE  \E p \in Pids : <<"channel", p>> \in ready /\
              r = [hash |-> outbox[p], pid |-> p, listener |-> channels[p]]
<1>1. requests' = requests \cup
         {[hash |-> outbox[p], pid |-> p, listener |-> channels[p]] :
             p \in {q \in Pids : <<"channel", q>> \in ready}}
  BY Zenon DEF ReadChannel
<1> QED
  BY <1>1, Zenon

(* A reap takes from the books only; a free number is in none of them.        *)
LEMMA ReapTakes ==
    ASSUME Step, requests' = reap.requests, clients' = reap.clients
    PROVE  /\ requests' \subseteq requests
           /\ \A k \in Indices \X Addrs : clients'[k] = None \/ clients'[k] = clients[k]
           /\ \A p \in Pids : reap.proc[p] = "none" =>
                /\ proc[p] # "running"
                /\ \A r \in requests' : r.pid # p
                /\ \A k \in Indices \X Addrs : clients'[k] # p
           /\ \A k \in Indices \X Addrs : clients[k] # None /\ proc[clients[k]] = "running"
                => clients'[k] = clients[k]
<1> IInv /\ TypedStep
  BY Zenon DEF Step, TypedStep, IInv
<1>0. Types /\ BooksLive /\ None \notin Pids
  BY NoneAssumption, Zenon DEF IInv
<1>1. requests' \subseteq requests
  BY <1>0, ReapFacts, Zenon
<1>2. \A k \in Indices \X Addrs : clients'[k] = None \/ clients'[k] = clients[k]
  BY <1>0, ReapFacts, Zenon
<1>3. \A p \in Pids : reap.proc[p] = "none" => proc[p] \in {"none", "zombie"}
  BY <1>0, ReapFacts, Zenon
<1>4. ASSUME NEW p \in Pids, reap.proc[p] = "none", NEW r \in requests'
      PROVE  r.pid # p
  <2>1. proc[r.pid] # "none" /\ proc[r.pid] # "zombie"
    BY <1>0, <1>1, ReapFacts, Zenon DEF BooksLive
  <2> QED
    BY <1>3, <1>4, <2>1, Zenon
<1>5. ASSUME NEW p \in Pids, reap.proc[p] = "none", NEW k \in Indices \X Addrs
      PROVE  clients'[k] # p
  <2>1. clients'[k] # None => clients'[k] = clients[k] /\ proc[clients[k]] # "zombie"
    BY <1>0, ReapFacts, Zenon
  <2>2. clients[k] # None => proc[clients[k]] # "none"
    BY <1>0, Zenon DEF BooksLive, Types, BooksType
  <2> QED
    BY <1>0, <1>3, <1>5, <2>1, <2>2, Zenon
<1>6. ASSUME NEW k \in Indices \X Addrs, clients[k] # None, proc[clients[k]] = "running"
      PROVE  clients'[k] = clients[k]
  BY <1>0, <1>6, Zenon DEF reap, Zombies, Types, BooksType
<1> QED
  BY <1>1, <1>2, <1>3, <1>4, <1>5, <1>6, Zenon

-----------------------------------------------------------------------------
(* A step of the supervisor keeps the invariant: what it says of the books    *)
(* (who is counted, whose request is stored and who is routed to whom), and   *)
(* of the routes (what a worker hears, and that an index names the listener   *)
(* it was taken for).                                                         *)

(* The budget counts a subset of a finite set.                                *)
LEMMA Smaller ==
    ASSUME Counts, NEW S \in SUBSET Pids, NEW T \in SUBSET S
    PROVE  Cardinality(T) <= Cardinality(S) /\ Cardinality(S) \in Nat /\ Cardinality(T) \in Nat
BY Zenon DEF Counts

LEMMA OneMore ==
    ASSUME Counts, NEW S \in SUBSET Pids, NEW p \in Pids
    PROVE  Cardinality(S \cup {p}) <= Cardinality(S) + 1
BY Zenon DEF Counts

LEMMA BooksLiveStep ==
    ASSUME Step
    PROVE  BooksLive'
<1> SUFFICES ASSUME IInv, [Next]_vars, TypedStep
             PROVE  BooksLive'
  BY Zenon DEF Step, TypedStep, IInv
<1> USE NoneAssumption DEF BooksLive
<1>0. Types /\ BooksType' /\ BooksLive
  BY BooksStep, Zenon DEF IInv
<1>1. CASE Reap
  <2>1. /\ workers' = reap.workers /\ channels' = reap.channels
        /\ requests' = reap.requests /\ clients' = reap.clients /\ proc' = reap.proc
    BY <1>1, Zenon DEF Reap
  <2> QED
    BY <1>0, <2>1, ReapFacts DEF Types, BooksType, WorkerType
<1>2. CASE ReadSocket
  <2>1. UNCHANGED <<workers, channels, proc>>
    BY <1>2, Zenon DEF ReadSocket
  <2>2. CASE UNCHANGED <<requests, clients>>
    BY <1>0, <2>1, <2>2, Zenon
  <2>3. ASSUME NEW d \in Datagrams, NEW r \in Asked(idx, d),
               requests' = Unanswered(d.pdu.hash),
               clients' = [clients EXCEPT ![<<idx, d.addr>>] = r.pid]
        PROVE  BooksLive'
    <3>1. requests' \subseteq requests
      BY <2>3, Zenon DEF Unanswered
    <3>2. proc[r.pid] # "none"
      BY <1>0, <2>3, Zenon DEF Asked
    <3>3. \A k \in Indices \X Addrs : clients'[k] \in {clients[k], r.pid}
      BY <1>0, <2>3, Zenon DEF Types, BooksType
    <3>4. DOMAIN clients = Indices \X Addrs /\ DOMAIN clients' = Indices \X Addrs
      BY <1>0, Zenon DEF Types, BooksType
    <3> QED
      BY <1>0, <2>1, <3>1, <3>2, <3>3, <3>4, Zenon
  <2> QED
    BY <1>2, <2>2, <2>3, <1>0, ReadFacts, Zenon
<1>3. CASE ReadChannel
  <2>1. UNCHANGED <<workers, channels, proc, clients>>
    BY <1>3, Zenon DEF ReadChannel
  <2>2. ASSUME NEW r \in requests', r \notin requests
        PROVE  \E p \in Pids : <<"channel", p>> \in ready /\ r.pid = p
    BY <1>3, <2>2, RequestFacts
  <2>3. \A p \in Pids : <<"channel", p>> \in ready => proc[p] # "none"
    BY <1>0, <1>3, Zenon DEF ReadChannel, Types, Polled
  <2> QED
    BY <1>0, <2>1, <2>2, <2>3, Zenon
<1>4. CASE AcceptOne
  <2>1. requests' = reap.requests /\ clients' = reap.clients
    BY <1>0, <1>4, AcceptFacts, Zenon
  <2>2. CASE Refuses
    BY <1>0, <2>1, <2>2, ReapFacts DEF Refuses, Types, BooksType, WorkerType
  <2>3. ASSUME NEW p \in Pids, NEW ip \in Ips, Forks(p, ip)
        PROVE  BooksLive'
    BY <1>0, <2>1, <2>3, ReapFacts DEF Forks, Types, BooksType, WorkerType
  <2> QED
    BY <1>0, <1>4, <2>2, <2>3, AcceptFacts, Zenon
<1>5. ASSUME NEW p \in Pids, Tunnel(p)
      PROVE  BooksLive'
  <2>1. UNCHANGED books /\ (UNCHANGED proc \/ (proc[p] = "running" /\ proc' = [proc EXCEPT ![p] = "zombie"]))
    BY <1>5, Zenon DEF Tunnel, Register, Receive, Established, AcceptEnds, TunnelCloses,
                WorkerExits
  <2> QED
    BY <1>0, <2>1 DEF books, Types, WorkerType, BooksType
<1>6. CASE UNCHANGED <<books, worker>>
  BY <1>0, <1>6, Zenon DEF books, worker
<1> QED
  BY <1>1, <1>2, <1>3, <1>4, <1>5, <1>6, Quiet, Zenon

LEMMA CountedStep ==
    ASSUME Step, Counts
    PROVE  Counted'
<1> SUFFICES ASSUME IInv, [Next]_vars, TypedStep
             PROVE  Counted'
  BY Zenon DEF Step, TypedStep, IInv
<1> USE NoneAssumption, BoundAssumption DEF Counted
<1>0. Types /\ Counted
  BY Zenon DEF IInv
<1>1. ASSUME workers' = reap.workers, proc' = reap.proc
      PROVE  Counted'
  <2>1. \A p \in Pids : workers'[p] # None => workers'[p] = workers[p]
    BY <1>0, <1>1, ReapFacts, Zenon
  <2>2. {p \in Pids : workers'[p] # None} \in SUBSET {p \in Pids : workers[p] # None}
    BY <2>1, Zenon
  <2>3. Cardinality({p \in Pids : workers'[p] # None}) <= MaxWorkers
    BY <1>0, <2>2, {p \in Pids : workers[p] # None} \in SUBSET Pids, Smaller
  <2>4. ASSUME NEW ip \in Ips
        PROVE  Cardinality({p \in Pids : workers'[p] = ip}) <= MaxPerClient
    <3>1. {p \in Pids : workers'[p] = ip} \in SUBSET {p \in Pids : workers[p] = ip}
      BY <2>1, Zenon
    <3>2. /\ Cardinality({p \in Pids : workers'[p] = ip}) <= Cardinality({p \in Pids : workers[p] = ip})
          /\ Cardinality({p \in Pids : workers'[p] = ip}) \in Nat
          /\ Cardinality({p \in Pids : workers[p] = ip}) \in Nat
      BY <3>1, {p \in Pids : workers[p] = ip} \in SUBSET Pids, Smaller, Zenon
    <3> QED
      BY <1>0, <3>2
  <2>5. \A p \in Pids : proc'[p] # "none" => workers'[p] # None
    BY <1>0, <1>1, ReapFacts, Zenon
  <2> QED
    BY <2>3, <2>4, <2>5, Zenon
<1>2. CASE Reap
  BY <1>1, <1>2, Zenon DEF Reap
<1>3. CASE AcceptOne
  <2>1. CASE Refuses
    BY <1>1, <2>1, Zenon DEF Refuses
  <2>2. ASSUME NEW p \in Pids, NEW ip \in Ips, Forks(p, ip)
        PROVE  Counted'
    <3>1. /\ proc' = [reap.proc EXCEPT ![p] = "running"]
          /\ workers' = [reap.workers EXCEPT ![p] = ip] /\ admit(reap.workers, ip)
      BY <2>2, Zenon DEF Forks
    <3>2. /\ reap.workers \in [Pids -> Ips \cup {None}]
          /\ reap.proc \in [Pids -> {"none", "running", "zombie"}]
          /\ \A q \in Pids : reap.proc[q] # "none" => reap.workers[q] # None
          /\ \A q \in Pids : reap.workers[q] # None => reap.workers[q] = workers[q]
      BY <1>0, ReapFacts, Zenon
    <3>3. \A q \in Pids : proc'[q] # "none" => workers'[q] # None
      BY <3>1, <3>2, Zenon
    <3> DEFINE S == {q \in Pids : reap.workers[q] # None}
               T(a) == {q \in Pids : reap.workers[q] = a}
    <3>4. Cardinality(S) < MaxWorkers /\ Cardinality(T(ip)) < MaxPerClient
      BY <3>1, Zenon DEF admit
    <3>5. S \in SUBSET Pids /\ Cardinality(S) \in Nat /\ T(ip) \in SUBSET Pids /\ Cardinality(T(ip)) \in Nat
      BY Smaller, Zenon
    <3>6. {q \in Pids : workers'[q] # None} \in SUBSET (S \cup {p})
      BY <3>1, <3>2, Zenon
    <3>7. S \cup {p} \in SUBSET Pids /\ T(ip) \cup {p} \in SUBSET Pids
      BY Zenon
    <3>8. Cardinality({q \in Pids : workers'[q] # None}) <= MaxWorkers
      <4>1. /\ Cardinality({q \in Pids : workers'[q] # None}) <= Cardinality(S \cup {p})
            /\ Cardinality(S \cup {p}) \in Nat /\ Cardinality({q \in Pids : workers'[q] # None}) \in Nat
        BY <3>6, <3>7, Smaller, Zenon
      <4>2. Cardinality(S \cup {p}) <= Cardinality(S) + 1
        BY <3>5, OneMore, Zenon
      <4> HIDE DEF S
      <4> QED
        BY <3>4, <3>5, <4>1, <4>2
    <3>9. ASSUME NEW a \in Ips
          PROVE  Cardinality({q \in Pids : workers'[q] = a}) <= MaxPerClient
      <4>1. CASE a = ip
        <5>1. {q \in Pids : workers'[q] = a} \in SUBSET (T(ip) \cup {p})
          BY <3>1, <3>2, <4>1, Zenon
        <5>2. /\ Cardinality({q \in Pids : workers'[q] = a}) <= Cardinality(T(ip) \cup {p})
              /\ Cardinality(T(ip) \cup {p}) \in Nat /\ Cardinality({q \in Pids : workers'[q] = a}) \in Nat
          BY <3>7, <5>1, Smaller, Zenon
        <5>3. Cardinality(T(ip) \cup {p}) <= Cardinality(T(ip)) + 1
          BY <3>5, OneMore, Zenon
        <5> HIDE DEF T
        <5> QED
          BY <3>4, <3>5, <5>2, <5>3
      <4>2. CASE a # ip
        <5>1. {q \in Pids : workers'[q] = a} \in SUBSET {q \in Pids : workers[q] = a}
          BY <3>1, <3>2, <4>2, Zenon
        <5>2. /\ Cardinality({q \in Pids : workers'[q] = a}) <= Cardinality({q \in Pids : workers[q] = a})
              /\ Cardinality({q \in Pids : workers'[q] = a}) \in Nat
              /\ Cardinality({q \in Pids : workers[q] = a}) \in Nat
          BY <5>1, {q \in Pids : workers[q] = a} \in SUBSET Pids, Smaller, Zenon
        <5> QED
          BY <1>0, <5>2
      <4> QED
        BY <4>1, <4>2, Zenon
    <3> QED
      BY <3>3, <3>8, <3>9, Zenon
  <2> QED
    BY <1>3, <1>0, <2>1, <2>2, AcceptFacts, Zenon
<1>4. CASE ReadSocket \/ ReadChannel \/ UNCHANGED <<books, worker>>
  BY <1>0, <1>4, Zenon DEF ReadSocket, ReadChannel, books, worker
<1>5. ASSUME NEW p \in Pids, Tunnel(p)
      PROVE  Counted'
  <2>1. UNCHANGED workers /\ (UNCHANGED proc \/ (proc[p] = "running" /\ proc' = [proc EXCEPT ![p] = "zombie"]))
    BY <1>5, Zenon DEF Tunnel, Register, Receive, Established, AcceptEnds, TunnelCloses,
                WorkerExits, books
  <2> QED
    BY <1>0, <2>1 DEF Types, WorkerType
<1> QED
  BY <1>2, <1>3, <1>4, <1>5, Quiet, Zenon

LEMMA StillStep ==
    ASSUME Step
    PROVE  Still'
<1> SUFFICES ASSUME IInv, [Next]_vars, TypedStep
             PROVE  Still'
  BY Zenon DEF Step, TypedStep, IInv
<1> USE DEF Still
<1>0. Types /\ Still
  BY Zenon DEF IInv
<1>1. CASE Reap
  <2>1. proc' = reap.proc /\ UNCHANGED <<tun, served, inbox>>
    BY <1>1, Zenon DEF Reap
  <2> QED
    BY <1>0, <2>1, ReapFacts, Zenon
<1>2. CASE ReadSocket
  <2>1. UNCHANGED <<proc, tun, served>>
    BY <1>2, Zenon DEF ReadSocket
  <2>2. ASSUME NEW q \in Pids, proc[q] # "running"
        PROVE  inbox'[q] = inbox[q]
    <3>1. CASE UNCHANGED inbox
      BY <3>1, Zenon
    <3>2. CASE ~UNCHANGED inbox
      <4>1. PICK d \in Datagrams, p \in Pids : Deliver(p, d)
        BY <1>0, <1>2, <3>2, ReadFacts, Zenon
      <4>2. tun[p] # "off" /\ inbox' = [inbox EXCEPT ![p] = Append(@, d)]
        BY <1>0, <3>2, <4>1, DeliverFacts, Zenon DEF Types
      <4>3. p # q
        BY <1>0, <2>2, <4>2, Zenon
      <4> QED
        BY <1>0, <4>2, <4>3, Zenon DEF Types, WorkerType
    <3> QED
      BY <3>1, <3>2, Zenon
  <2> QED
    BY <1>0, <2>1, <2>2, Zenon
<1>3. CASE AcceptOne
  <2>1. UNCHANGED <<served, inbox>>
    BY <1>0, <1>3, AcceptFacts, Zenon
  <2>2. CASE Refuses
    BY <1>0, <2>1, <2>2, ReapFacts, Zenon DEF Refuses
  <2>3. ASSUME NEW p \in Pids, NEW ip \in Ips, Forks(p, ip)
        PROVE  Still'
    <3>1. \A q \in Pids \ {p} : proc'[q] = reap.proc[q] /\ tun'[q] = tun[q]
      BY <1>0, <2>3 DEF Forks, Types, WorkerType
    <3>2. proc'[p] = "running"
      BY <1>0, <2>3, ReapFacts, Zenon DEF Forks
    <3> QED
      BY <1>0, <2>1, <3>1, <3>2, ReapFacts, Zenon
  <2> QED
    BY <1>0, <1>3, <2>2, <2>3, AcceptFacts, Zenon
<1>4. ASSUME NEW p \in Pids, Tunnel(p)
      PROVE  Still'
  <2>1. CASE Register(p) \/ Established(p) \/ AcceptEnds(p)
    BY <1>0, <2>1, Zenon DEF Register, Established, AcceptEnds, Types, WorkerType
  <2>2. CASE Receive(p)
    BY <1>0, <2>2 DEF Receive, Types, WorkerType
  <2>3. CASE TunnelCloses(p)
    BY <1>0, <2>3, Zenon DEF TunnelCloses, Types, WorkerType
  <2>4. CASE WorkerExits(p)
    BY <1>0, <2>4, Zenon DEF WorkerExits, Types, WorkerType
  <2> QED
    BY <1>4, <2>1, <2>2, <2>3, <2>4, Zenon DEF Tunnel
<1>5. CASE ReadChannel \/ UNCHANGED <<books, worker>>
  BY <1>0, <1>5, Zenon DEF ReadChannel, books, worker
<1> QED
  BY <1>1, <1>2, <1>3, <1>4, <1>5, Quiet, Zenon

LEMMA UnreadStep ==
    ASSUME Step
    PROVE  Unread'
<1> SUFFICES ASSUME IInv, [Next]_vars, TypedStep
             PROVE  Unread'
  BY Zenon DEF Step, TypedStep, IInv
<1> USE DEF Unread
<1>0. Types /\ Unread /\ BooksType' /\ None \notin Pids
  BY BooksStep, NoneAssumption, Zenon DEF IInv
<1>1. CASE Reap
  <2>1. /\ requests' = reap.requests /\ clients' = reap.clients /\ UNCHANGED <<tun, outbox>>
    BY <1>1, Zenon DEF Reap
  <2> QED
    BY <1>0, <2>1, ReapTakes
<1>2. CASE ReadSocket
  <2>1. UNCHANGED <<tun, outbox>>
    BY <1>2, Zenon DEF ReadSocket
  <2>2. CASE UNCHANGED <<requests, clients>>
    BY <1>0, <2>1, <2>2, Zenon
  <2>3. ASSUME NEW d \in Datagrams, NEW r \in Asked(idx, d),
               requests' = Unanswered(d.pdu.hash),
               clients' = [clients EXCEPT ![<<idx, d.addr>>] = r.pid]
        PROVE  Unread'
    <3>1. requests' \subseteq requests
      BY <2>3, Zenon DEF Unanswered
    <3>2. r \in requests
      BY <2>3, Zenon DEF Asked
    <3>3. \A k \in Indices \X Addrs : clients'[k] \in {clients[k], r.pid}
      BY <1>0, <2>3, Zenon DEF Types, BooksType
    <3> QED
      BY <1>0, <2>1, <3>1, <3>2, <3>3, Zenon
  <2> QED
    BY <1>0, <1>2, <2>2, <2>3, ReadFacts, Zenon
<1>3. CASE ReadChannel
  <2>1. /\ UNCHANGED <<tun, clients>>
        /\ outbox' = [p \in Pids |-> IF <<"channel", p>> \in ready THEN None ELSE outbox[p]]
    BY <1>3, Zenon DEF ReadChannel
  <2>2. \A p \in Pids : <<"channel", p>> \in ready => outbox[p] # None
    BY <1>0, <1>3, Zenon DEF ReadChannel, Types, Polled
  <2>3. ASSUME NEW r \in requests', r \notin requests
        PROVE  <<"channel", r.pid>> \in ready /\ r.pid \in Pids
    <3>1. PICK p \in Pids : /\ <<"channel", p>> \in ready
                            /\ r = [hash |-> outbox[p], pid |-> p, listener |-> channels[p]]
      BY <1>3, <2>3, RequestFacts, Zenon
    <3> QED
      BY <3>1, Zenon
  <2> QED
    BY <1>0, <2>1, <2>2, <2>3, Zenon
<1>4. CASE AcceptOne
  <2>1. requests' = reap.requests /\ clients' = reap.clients
    BY <1>0, <1>4, AcceptFacts, Zenon
  <2>2. CASE Refuses
    BY <1>0, <2>1, <2>2, ReapTakes DEF Refuses
  <2>3. ASSUME NEW p \in Pids, NEW ip \in Ips, Forks(p, ip)
        PROVE  Unread'
    <3>1. \A q \in Pids \ {p} : outbox'[q] = outbox[q] /\ tun'[q] = tun[q]
      BY <1>0, <2>3, Zenon DEF Forks, Types, WorkerType
    <3>2. outbox'[p] = None /\ reap.proc[p] = "none"
      BY <1>0, <2>3, Zenon DEF Forks, Types, WorkerType
    <3>3. /\ requests' \subseteq requests
          /\ \A k \in Indices \X Addrs : clients'[k] = None \/ clients'[k] = clients[k]
          /\ (\A r \in requests' : r.pid # p) /\ \A k \in Indices \X Addrs : clients'[k] # p
      BY <2>1, <3>2, ReapTakes, Zenon
    <3>4. ASSUME NEW q \in Pids, q # p, outbox'[q] # None \/ tun'[q] = "new"
          PROVE  (\A r \in requests' : r.pid # q) /\ (\A k \in Indices \X Addrs : clients'[k] # q)
      <4>1. (\A r \in requests : r.pid # q) /\ (\A k \in Indices \X Addrs : clients[k] # q)
        BY <1>0, <3>1, <3>4, Zenon
      <4> QED
        BY <1>0, <3>3, <4>1, Zenon
    <3>5. \A q \in Pids : tun'[q] = "new" => outbox'[q] = None
      BY <1>0, <3>1, <3>2, Zenon
    <3> QED
      BY <3>3, <3>4, <3>5, Zenon
  <2> QED
    BY <1>0, <1>4, <2>2, <2>3, AcceptFacts, Zenon
<1>5. ASSUME NEW p \in Pids, Tunnel(p)
      PROVE  Unread'
  <2>1. /\ UNCHANGED <<requests, clients>>
        /\ \A q \in Pids \ {p} : outbox'[q] = outbox[q] /\ tun'[q] = tun[q]
        /\ \/ outbox'[p] = outbox[p]
           \/ tun[p] = "new" /\ tun'[p] = "idle"
        /\ tun'[p] = "new" => tun[p] = "new"
    BY <1>0, <1>5, TunnelFacts DEF books, Types, WorkerType
  <2> QED
    BY <1>0, <2>1, Zenon
<1>6. CASE UNCHANGED <<books, worker>>
  BY <1>0, <1>6, Zenon DEF books, worker
<1> QED
  BY <1>1, <1>2, <1>3, <1>4, <1>5, <1>6, Quiet, Zenon

LEMMA SingleStep ==
    ASSUME Step
    PROVE  Single'
<1> SUFFICES ASSUME IInv, [Next]_vars, TypedStep
             PROVE  Single'
  BY Zenon DEF Step, TypedStep, IInv
<1> USE DEF Single
<1>0. Types /\ Single /\ Unread /\ BooksType' /\ None \notin Pids
  BY BooksStep, NoneAssumption, Zenon DEF IInv
<1>1. ASSUME requests' = reap.requests, clients' = reap.clients
      PROVE  Single'
  <2>1. requests' \subseteq requests /\ \A r \in requests : r.pid \in Pids
    BY <1>1, <1>0, ReapTakes, Zenon DEF Types, BooksType
  <2>2. \A k \in Indices \X Addrs : clients'[k] = None \/ clients'[k] = clients[k]
    BY <1>1, ReapTakes, Zenon
  <2>3. ASSUME NEW r \in requests', NEW k \in Indices \X Addrs
        PROVE  clients'[k] # r.pid
    <3>1. clients[k] # r.pid /\ r.pid \in Pids
      BY <1>0, <2>1, Zenon
    <3> QED
      BY <1>0, <2>2, <3>1, Zenon
  <2>4. \A r, t \in requests' : r.pid = t.pid => r = t
    BY <1>0, <2>1, Zenon
  <2>5. \A j, k \in Indices \X Addrs : clients'[j] # None /\ clients'[j] = clients'[k] => j = k
    BY <1>0, <2>2, Zenon
  <2> QED
    BY <2>3, <2>4, <2>5, Zenon
<1>2. CASE Reap
  BY <1>1, <1>2, Zenon DEF Reap
<1>3. CASE AcceptOne
  BY <1>0, <1>1, <1>3, AcceptFacts, Zenon
<1>4. CASE ReadSocket
  <2>1. CASE UNCHANGED <<requests, clients>>
    BY <1>0, <2>1, Zenon
  <2>2. ASSUME NEW d \in Datagrams, NEW r \in Asked(idx, d), ~Known(idx, d.addr),
               requests' = Unanswered(d.pdu.hash),
               clients' = [clients EXCEPT ![<<idx, d.addr>>] = r.pid]
        PROVE  Single'
    <3>1. r \in requests /\ r.pid \in Pids /\ r \notin requests' /\ requests' \subseteq requests
      BY <1>0, <2>2, Zenon DEF Asked, Unanswered, Types, BooksType
    <3>2. \A s \in requests' : s.pid # r.pid
      BY <1>0, <3>1, Zenon
    <3>3. \A k \in Indices \X Addrs :
            clients'[k] = IF k = <<idx, d.addr>> THEN r.pid ELSE clients[k]
      BY <1>0, <2>2, Zenon DEF Types, BooksType
    <3>4. \A k \in Indices \X Addrs : clients[k] # r.pid
      BY <1>0, <3>1, Zenon
    <3> QED
      BY <1>0, <3>1, <3>2, <3>3, <3>4
  <2> QED
    BY <1>0, <1>4, <2>1, <2>2, ReadFacts, Zenon
<1>5. CASE ReadChannel
  <2>1. UNCHANGED clients /\ requests \subseteq requests'
    BY <1>5, Zenon DEF ReadChannel
  <2>2. ASSUME NEW r \in requests', r \notin requests
        PROVE  /\ \A s \in requests : s.pid # r.pid
               /\ \A k \in Indices \X Addrs : clients[k] # r.pid
               /\ r = [hash |-> outbox[r.pid], pid |-> r.pid, listener |-> channels[r.pid]]
    <3>1. PICK p \in Pids : /\ <<"channel", p>> \in ready
                            /\ r = [hash |-> outbox[p], pid |-> p, listener |-> channels[p]]
      BY <1>5, <2>2, RequestFacts, Zenon
    <3>2. outbox[p] # None /\ r.pid = p
      BY <1>0, <1>5, <3>1, Zenon DEF ReadChannel, Types, Polled
    <3> QED
      BY <1>0, <3>1, <3>2, Zenon DEF Unread
  <2>3. ASSUME NEW r \in requests', NEW s \in requests', r.pid = s.pid
        PROVE  r = s
    BY <1>0, <2>2, <2>3, Zenon
  <2>4. ASSUME NEW r \in requests', NEW k \in Indices \X Addrs
        PROVE  clients[k] # r.pid
    BY <1>0, <2>2, Zenon
  <2>5. \A j, k \in Indices \X Addrs : clients[j] # None /\ clients[j] = clients[k] => j = k
    BY <1>0, Zenon
  <2> QED
    BY <2>1, <2>3, <2>4, <2>5, Zenon
<1>6. CASE (\E p \in Pids : Tunnel(p)) \/ UNCHANGED <<books, worker>>
  <2>1. UNCHANGED <<requests, clients>>
    BY <1>6, TunnelFacts, Zenon DEF books
  <2> QED
    BY <1>0, <2>1, Zenon
<1> QED
  BY <1>2, <1>3, <1>4, <1>5, <1>6, Quiet, Zenon

-----------------------------------------------------------------------------
(* Routes that are kept keep what is heard.                                   *)
LEMMA HeardKept ==
    ASSUME Heard, UNCHANGED <<inbox, served>>,
           \A p \in Pids : \A a : Routed(clients, a, p)
               /\ (inbox[p] # <<>> \/ served[p] # None) => Routed(clients', a, p)
    PROVE  Heard'
<1>1. ASSUME NEW p \in Pids, NEW i \in 1 .. Len(inbox[p])
      PROVE  Routed(clients', inbox[p][i].addr, p)
  <2>1. inbox[p] # <<>>
    BY <1>1
  <2> QED
    BY <1>1, <2>1, Zenon DEF Heard
<1>2. ASSUME NEW p \in Pids, served[p] # None
      PROVE  Routed(clients', served[p], p)
  BY <1>2, Zenon DEF Heard
<1> QED
  BY <1>1, <1>2, Zenon DEF Heard

LEMMA HeardStep ==
    ASSUME Step
    PROVE  Heard'
<1> SUFFICES ASSUME IInv, [Next]_vars, TypedStep
             PROVE  Heard'
  BY Zenon DEF Step, TypedStep, IInv
<1>0. Types /\ Heard /\ Still /\ None \notin Pids
  BY NoneAssumption, Zenon DEF IInv
<1>00. /\ inbox \in [Pids -> Seq(Datagrams)] /\ served \in [Pids -> Addrs \cup {None}]
       /\ clients \in [Indices \X Addrs -> Pids \cup {None}]
  BY <1>0, Zenon DEF Types, WorkerType, BooksType
<1>1. ASSUME requests' = reap.requests, clients' = reap.clients, UNCHANGED <<inbox, served>>
      PROVE  Heard'
  <2>1. ASSUME NEW p \in Pids, NEW a, Routed(clients, a, p), proc[p] = "running"
        PROVE  Routed(clients', a, p)
    <3>1. PICK n \in Indices : clients[<<n, a>>] = p /\ a \in Addrs
      BY <2>1, Zenon DEF Routed
    <3>2. clients'[<<n, a>>] = p
      BY <1>0, <1>1, <2>1, <3>1, ReapTakes, Zenon
    <3> QED
      BY <3>1, <3>2, Zenon DEF Routed
  <2>2. \A p \in Pids : inbox[p] # <<>> \/ served[p] # None => proc[p] = "running"
    BY <1>0, Zenon DEF Still
  <2> QED
    BY <1>0, <1>1, <2>1, <2>2, HeardKept, Zenon
<1>2. CASE Reap
  BY <1>1, <1>2, Zenon DEF Reap
<1>3. CASE AcceptOne
  BY <1>0, <1>1, <1>3, AcceptFacts, Zenon
<1>4. CASE ReadSocket
  <2>0. UNCHANGED served
    BY <1>4, Zenon DEF ReadSocket
  <2>1. CASE UNCHANGED <<requests, clients, inbox>>
    BY <1>0, <2>0, <2>1, HeardKept, Zenon
  <2>2. ASSUME NEW d \in Datagrams, NEW p \in Pids, Deliver(p, d), idx \in Indices,
               clients'[<<idx, d.addr>>] = p,
               \A k \in Indices \X Addrs : clients[k] # None => clients'[k] = clients[k]
        PROVE  Heard'
    <3>1. ASSUME NEW q \in Pids, NEW a, Routed(clients, a, q)
          PROVE  Routed(clients', a, q)
      BY <1>0, <2>2, <3>1, Zenon DEF Routed
    <3>2. Routed(clients', d.addr, p)
      BY <2>2, Zenon DEF Routed, Datagrams
    <3>3. CASE UNCHANGED inbox
      BY <1>0, <2>0, <3>1, <3>3, HeardKept, Zenon
    <3>4. CASE inbox' = [inbox EXCEPT ![p] = Append(@, d)]
      <4>1. /\ Len(inbox[p]) \in Nat /\ Len(Append(inbox[p], d)) = Len(inbox[p]) + 1
            /\ \A j \in 1 .. Len(inbox[p]) : Append(inbox[p], d)[j] = inbox[p][j]
            /\ Append(inbox[p], d)[Len(inbox[p]) + 1] = d
        <5>1. inbox[p] \in Seq(Datagrams)
          BY <1>00, Zenon
        <5> QED
          BY <2>2, <5>1
      <4>2. inbox'[p] = Append(inbox[p], d) /\ \A q \in Pids \ {p} : inbox'[q] = inbox[q]
        BY <1>00, <3>4, Zenon
      <4>3. ASSUME NEW i \in 1 .. Len(inbox'[p])
            PROVE  Routed(clients', inbox'[p][i].addr, p)
        <5>1. CASE i \in 1 .. Len(inbox[p])
          <6>1. inbox'[p][i] = inbox[p][i]
            BY <4>1, <4>2, <5>1, Zenon
          <6> QED
            BY <1>0, <3>1, <5>1, <6>1, Zenon DEF Heard
        <5>2. CASE i = Len(inbox[p]) + 1
          BY <3>2, <4>1, <4>2, <5>2, Zenon
        <5> QED
          BY <4>1, <4>2, <4>3, <5>1, <5>2
      <4>4. ASSUME NEW q \in Pids \ {p}, NEW i \in 1 .. Len(inbox'[q])
            PROVE  Routed(clients', inbox'[q][i].addr, q)
        BY <1>0, <3>1, <4>2, Zenon DEF Heard
      <4>5. ASSUME NEW q \in Pids, served'[q] # None
            PROVE  Routed(clients', served'[q], q)
        BY <1>0, <2>0, <3>1, <4>5, Zenon DEF Heard
      <4> QED
        BY <4>3, <4>4, <4>5, Zenon DEF Heard
    <3> QED
      BY <1>0, <2>2, <3>3, <3>4, DeliverFacts, Zenon DEF Types
  <2>3. ASSUME NEW d \in Datagrams, NEW p \in Pids, Deliver(p, d), idx \in Indices,
               ~Known(idx, d.addr),
               clients' = [clients EXCEPT ![<<idx, d.addr>>] = p]
        PROVE  Heard'
    <3>1. <<idx, d.addr>> \in Indices \X Addrs
      BY <2>3, Zenon DEF Datagrams
    <3>2. clients'[<<idx, d.addr>>] = p
      BY <1>00, <2>3, <3>1, Zenon
    <3>3. \A k \in Indices \X Addrs : clients[k] # None => clients'[k] = clients[k]
      BY <1>00, <2>3, Zenon DEF Known
    <3> QED
      BY <2>2, <2>3, <3>2, <3>3, Zenon
  <2> QED
    BY <1>0, <1>4, <2>1, <2>2, <2>3, ReadFacts, Zenon
<1>5. ASSUME NEW p \in Pids, Tunnel(p)
      PROVE  Heard'
  <2>1. UNCHANGED clients
    BY <1>5, Zenon DEF Tunnel, Register, Receive, Established, AcceptEnds, TunnelCloses,
                WorkerExits, books
  <2>2. CASE Register(p) \/ Established(p)
    BY <1>0, <2>1, <2>2, HeardKept, Zenon DEF Register, Established
  <2>3. CASE AcceptEnds(p)
    <3>1. UNCHANGED inbox /\ served' = [served EXCEPT ![p] = None]
      BY <2>3, Zenon DEF AcceptEnds
    <3>2. \A q \in Pids : served'[q] # None => served'[q] = served[q]
      BY <1>00, <3>1, Zenon
    <3> QED
      BY <1>0, <2>1, <3>1, <3>2, Zenon DEF Heard
  <2>4. CASE Receive(p)
    <3>1. inbox[p] # <<>> /\ inbox[p] \in Seq(Datagrams) /\ inbox' = [inbox EXCEPT ![p] = Tail(@)]
      BY <1>00, <2>4, Zenon DEF Receive
    <3>2. /\ inbox[p][1] = Head(inbox[p]) /\ Len(inbox[p]) \in Nat \ {0}
          /\ Len(Tail(inbox[p])) = Len(inbox[p]) - 1
          /\ \A i \in 1 .. Len(Tail(inbox[p])) : Tail(inbox[p])[i] = inbox[p][i + 1]
      BY <3>1
    <3>3. inbox'[p] = Tail(inbox[p]) /\ \A q \in Pids \ {p} : inbox'[q] = inbox[q]
      BY <1>00, <3>1, Zenon
    <3>4. \A q \in Pids : served'[q] = served[q] \/ (q = p /\ served'[q] = inbox[p][1].addr)
      BY <1>00, <2>4, <3>2, Zenon DEF Receive
    <3>5. ASSUME NEW i \in 1 .. Len(inbox'[p])
          PROVE  Routed(clients, inbox'[p][i].addr, p)
      <4>1. i + 1 \in 1 .. Len(inbox[p])
        BY <3>2, <3>3
      <4>2. inbox'[p][i] = inbox[p][i + 1]
        BY <3>2, <3>3, Zenon
      <4> QED
        BY <1>0, <4>1, <4>2, Zenon DEF Heard
    <3>6. Routed(clients, inbox[p][1].addr, p)
      <4>1. 1 \in 1 .. Len(inbox[p])
        BY <3>2
      <4> QED
        BY <1>0, <4>1, Zenon DEF Heard
    <3>7. \A q \in Pids : served'[q] # None => Routed(clients, served'[q], q)
      BY <1>0, <3>4, <3>6, Zenon DEF Heard
    <3>8. \A q \in Pids \ {p} : \A i \in 1 .. Len(inbox'[q]) : Routed(clients, inbox'[q][i].addr, q)
      BY <1>0, <3>3, Zenon DEF Heard
    <3> QED
      BY <2>1, <3>5, <3>7, <3>8, Zenon DEF Heard
  <2>5. CASE TunnelCloses(p) \/ WorkerExits(p)
    <3>1. /\ inbox' = [inbox EXCEPT ![p] = <<>>] /\ served' = [served EXCEPT ![p] = None]
      BY <2>5, Zenon DEF TunnelCloses, WorkerExits
    <3>2. inbox'[p] = <<>> /\ served'[p] = None /\ Len(inbox'[p]) = 0
      BY <1>00, <3>1, Zenon
    <3>3. \A q \in Pids \ {p} : inbox'[q] = inbox[q] /\ served'[q] = served[q]
      BY <1>00, <3>1, Zenon
    <3>4. \A q \in Pids \ {p} : /\ \A i \in 1 .. Len(inbox'[q]) : Routed(clients, inbox'[q][i].addr, q)
                                /\ served'[q] # None => Routed(clients, served'[q], q)
      BY <1>0, <3>3, Zenon DEF Heard
    <3>5. \A i \in 1 .. Len(inbox'[p]) : FALSE
      BY <3>2
    <3> QED
      BY <2>1, <3>2, <3>4, <3>5, Zenon DEF Heard
  <2> QED
    BY <1>5, <2>2, <2>3, <2>4, <2>5, Zenon DEF Tunnel
<1>6. CASE ReadChannel \/ UNCHANGED <<books, worker>>
  BY <1>0, <1>6, HeardKept, Zenon DEF ReadChannel, books, worker
<1> QED
  BY <1>2, <1>3, <1>4, <1>5, <1>6, Quiet, Zenon

(* A broken listener stays broken.                                            *)
LEMMA BrokenStays ==
    ASSUME TypedStep
    PROVE  broken \subseteq broken'
BY Zenon DEF TypedStep, Next, Loop, BindAll, Reap, Poll, ReadSocket, ReadChannel, AcceptOne, AcceptNext,
       Prune, Tunnel, Register, Receive, Established, AcceptEnds, TunnelCloses,
       WorkerExits, Connect, Send, Break, vars, network

(* When no listener is dead, pruning changes nothing.                         *)
LEMMA PruneNone ==
    ASSUME TypedStep, Prune, dead = {}, Counts
    PROVE  live' = live
<1> Types
  BY Zenon DEF TypedStep
<1>1. Len(live) \in Nat /\ live \in [1 .. Len(live) -> Listeners]
  BY DEF Types, LoopType
<1>2. Kept = 1 .. Len(live)
  BY Zenon DEF Kept
<1>3. ASSUME NEW n \in Nat
      PROVE  Cardinality(1 .. n) = n
  BY <1>3, Zenon DEF Counts
<1>4. Cardinality(Kept) = Len(live)
  BY <1>1, <1>2, <1>3, Zenon
<1>5. PICK pos \in [1 .. Cardinality(Kept) -> Kept] :
        /\ \A i \in 1 .. Cardinality(Kept) : Cardinality({k \in Kept : k <= pos[i]}) = i
        /\ live' = [i \in 1 .. Cardinality(Kept) |-> live[pos[i]]]
  BY Zenon DEF Prune
<1>6. ASSUME NEW i \in 1 .. Len(live)
      PROVE  pos[i] = i
  <2>1. pos[i] \in 1 .. Len(live) /\ Cardinality({k \in Kept : k <= pos[i]}) = i
    BY <1>2, <1>4, <1>5, Zenon
  <2>2. {k \in Kept : k <= pos[i]} = 1 .. pos[i]
    BY <1>1, <1>2, <2>1
  <2>3. Cardinality(1 .. pos[i]) = pos[i]
    <3>1. pos[i] \in Nat
      BY <1>1, <2>1
    <3> QED
      BY <1>3, <3>1, Zenon
  <2>4. Cardinality(1 .. pos[i]) = i
    BY <2>1, <2>2, Zenon
  <2> QED
    BY <2>3, <2>4, Zenon
<1>7. live' = [i \in 1 .. Len(live) |-> live[pos[i]]]
  BY <1>4, <1>5, Zenon
<1> QED
  BY <1>1, <1>6, <1>7, Zenon

LEMMA OwnStep ==
    ASSUME Step, broken' = {}, Counts
    PROVE  Own' /\ RoutesOwn'
<1> SUFFICES ASSUME IInv, [Next]_vars, TypedStep
             PROVE  Own' /\ RoutesOwn'
  BY Zenon DEF Step, TypedStep, IInv
<1> DEFINE Vector == dead = {} /\ live \in {<<>>, Config} /\ (live = <<>> => spc \in {"bind", "exit"})
           Channel(p) == channels[p] # 0 => channels[p] <= Len(live) /\ live[channels[p]] = lsn[p]
           Request(r) == r.listener <= Len(live) /\ live[r.listener] = lsn[r.pid]
           Client(k) == clients[k] # None => k[1] <= Len(live) /\ live[k[1]] = lsn[clients[k]]
<1>0. /\ broken = {} /\ Types /\ BooksType' /\ None \notin Pids
      /\ Vector /\ (\A p \in Pids : Channel(p)) /\ (\A r \in requests : Request(r))
      /\ \A k \in Indices \X Addrs : Client(k)
  <2>1. broken = {}
    BY BrokenStays, Zenon
  <2> QED
    BY <2>1, BooksStep, NoneAssumption, SMTT(30) DEF IInv, Own, RoutesOwn, Known
<1>C. \A k \in Indices \X Addrs : Client(k)
  BY <1>0, Zenon
<1>1. SUFFICES /\ Vector' /\ (\A p \in Pids : Channel(p)') /\ (\A r \in requests' : Request(r)')
               /\ \A k \in Indices \X Addrs : Client(k)'
  BY <1>1, Zenon DEF Own, RoutesOwn, Known
<1>2. ASSUME UNCHANGED <<channels, requests, clients, lsn, live>>
      PROVE  /\ (\A p \in Pids : Channel(p)') /\ (\A r \in requests' : Request(r)')
             /\ \A k \in Indices \X Addrs : Client(k)'
  BY <1>0, <1>2, Zenon
<1>3. CASE BindAll
  <2>1. UNCHANGED <<channels, requests, clients, lsn, dead>> /\ spc = "bind"
    BY <1>3, Zenon DEF BindAll, books, worker
  <2>2. CASE UNCHANGED live /\ spc' = "exit"
    BY <1>0, <1>2, <2>1, <2>2, Zenon
  <2>3. CASE live' = Config /\ spc' = "reap"
    <3>1. CASE live = Config
      <4>1. UNCHANGED <<channels, requests, clients, lsn, live>>
        BY <2>1, <2>3, <3>1, Zenon
      <4>2. Vector'
        BY <1>0, <2>1, <2>3, ConfigFacts
      <4> QED
        BY <1>2, <4>1, <4>2, Zenon
    <3>2. CASE live = <<>>
      <4>1. Len(live) = 0
        BY <3>2, Zenon
      <4>2. \A p \in Pids : channels[p] = 0
        BY <1>0, <4>1 DEF Types, BooksType, Indices
      <4>3. requests = {}
        BY <1>0, <4>1 DEF Types, BooksType, Indices
      <4>4. \A k \in Indices \X Addrs : clients[k] = None
        BY <1>0, <4>1, ConfigFacts DEF Indices
      <4>5. Vector'
        BY <1>0, <2>1, <2>3, ConfigFacts
      <4> QED
        BY <2>1, <4>2, <4>3, <4>4, <4>5, Zenon
    <3> QED
      BY <1>0, <3>1, <3>2, Zenon
  <2> QED
    BY <1>3, <2>2, <2>3, Zenon DEF BindAll
<1>4. CASE Prune
  <2>1. live' = live /\ spc = "prune" /\ dead' = {} /\ live = Config /\ live # <<>>
    BY <1>0, <1>4, PruneNone, ConfigFacts, Zenon DEF Prune
  <2>2. UNCHANGED <<channels, requests, clients, lsn>> /\ spc' = "reap"
    BY <1>4, <2>1, Zenon DEF Prune, books, worker
  <2> QED
    BY <1>0, <1>2, <2>1, <2>2, Zenon
<1>5. CASE Poll
  BY <1>0, <1>2, <1>5, Zenon DEF Poll, books, worker
<1>6. CASE AcceptNext \/ (\E p \in Pids : Tunnel(p)) \/ UNCHANGED vars
  <2>1. UNCHANGED <<channels, requests, clients, lsn, live, dead>>
        /\ (UNCHANGED spc \/ (spc = "accept" /\ spc' = "prune"))
    BY <1>6, Zenon DEF AcceptNext, Tunnel, Register, Receive, Established, AcceptEnds, TunnelCloses,
                WorkerExits, vars, books, worker, loop
  <2> QED
    BY <1>0, <1>2, <2>1, Zenon
<1>7. CASE \E l \in Listeners : (\E ip \in Ips : Connect(l, ip)) \/ (\E a \in Addrs : Send(l, a)) \/ Break(l)
  <2>1. UNCHANGED <<channels, requests, clients, lsn, live, dead, spc>>
    BY <1>7, Zenon DEF Connect, Send, Break, books, worker, loop
  <2> QED
    BY <1>0, <1>2, <2>1, Zenon
<1>8. CASE ReadSocket
  <2>1. UNCHANGED <<channels, lsn, live, dead>> /\ spc = "udp" /\ spc' \in {"udp", "channels"}
    BY <1>8, Zenon DEF ReadSocket
  <2>2. Vector'
    BY <1>0, <2>1, Zenon
  <2>3. CASE UNCHANGED <<requests, clients>>
    BY <1>2, <2>1, <2>2, <2>3, Zenon
  <2>4. ASSUME NEW d \in Datagrams, NEW r \in Asked(idx, d),
               requests' = Unanswered(d.pdu.hash),
               clients' = [clients EXCEPT ![<<idx, d.addr>>] = r.pid]
        PROVE  (\A s \in requests' : Request(s)') /\ \A k \in Indices \X Addrs : Client(k)'
    <3>1. requests' \subseteq requests /\ r \in requests /\ r.listener = idx
      BY <2>4, Zenon DEF Unanswered, Asked
    <3>2. \A k \in Indices \X Addrs :
            clients'[k] = IF k = <<idx, d.addr>> THEN r.pid ELSE clients[k]
      BY <1>0, <2>4, Zenon DEF Types, BooksType
    <3> QED
      BY <1>0, <2>1, <3>1, <3>2
  <2> QED
    BY <1>0, <1>8, <2>1, <2>2, <2>3, <2>4, ReadFacts, Zenon
<1>9. CASE ReadChannel
  <2>1. UNCHANGED <<channels, clients, lsn, live, dead>> /\ spc = "channels" /\ spc' = "accept"
    BY <1>9, Zenon DEF ReadChannel
  <2>2. ASSUME NEW r \in requests', r \notin requests
        PROVE  Request(r)'
    <3>1. PICK p \in Pids : /\ <<"channel", p>> \in ready
                            /\ r = [hash |-> outbox[p], pid |-> p, listener |-> channels[p]]
      BY <1>9, <2>2, RequestFacts, Zenon
    <3>2. channels[p] # 0 /\ r.pid = p /\ r.listener = channels[p]
      BY <1>0, <2>1, <3>1, Zenon DEF Types, Polled
    <3> QED
      BY <1>0, <2>1, <3>2, Zenon
  <2> QED
    BY <1>0, <2>1, <2>2, Zenon
<1>10. ASSUME requests' = reap.requests, clients' = reap.clients
       PROVE  /\ \A r \in requests' : r \in requests /\ proc[r.pid] \notin {"zombie", "none"} /\ r.pid \in Pids
              /\ \A k \in Indices \X Addrs : clients'[k] # None =>
                    clients'[k] = clients[k] /\ proc[clients[k]] \notin {"zombie", "none"} /\ clients[k] \in Pids
  <2>1. \A r \in requests' : r \in requests /\ proc[r.pid] # "zombie"
    BY <1>0, <1>10, ReapFacts, Zenon
  <2>2. \A r \in requests : proc[r.pid] # "none" /\ r.pid \in Pids
    BY Zenon DEF IInv, BooksLive, Types, BooksType
  <2>3. \A k \in Indices \X Addrs : clients'[k] # None =>
           clients'[k] = clients[k] /\ proc[clients[k]] # "zombie"
    BY <1>0, <1>10, ReapFacts, Zenon
  <2>4. \A k \in Indices \X Addrs : clients[k] # None => proc[clients[k]] # "none" /\ clients[k] \in Pids
    BY Zenon DEF IInv, BooksLive, Types, BooksType
  <2> QED
    BY <2>1, <2>2, <2>3, <2>4, Zenon
<1>11. CASE Reap
  <2>1. /\ requests' = reap.requests /\ clients' = reap.clients /\ channels' = reap.channels
        /\ lsn' = reap.lsn /\ UNCHANGED <<live, dead>> /\ spc = "reap" /\ spc' = "poll"
    BY <1>11, Zenon DEF Reap
  <2>2. \A p \in Pids : Channel(p)'
    BY <1>0, <2>1, ReapFacts
  <2>3. \A p \in Pids : proc[p] # "zombie" => lsn'[p] = lsn[p]
    BY <1>0, <2>1, ReapFacts, Zenon
  <2>4. Vector'
    BY <1>0, <2>1, Zenon
  <2>5. \A r \in requests' : Request(r)'
    BY <1>0, <1>10, <2>1, <2>3, Zenon
  <2>6. \A k \in Indices \X Addrs : Client(k)'
    BY <1>C, <1>10, <2>1, <2>3
  <2> QED
    BY <2>2, <2>4, <2>5, <2>6, Zenon
<1>12. CASE AcceptOne
  <2>1. /\ requests' = reap.requests /\ clients' = reap.clients /\ UNCHANGED <<live, dead, spc>>
        /\ idx <= Len(live)
    BY <1>0, <1>12, AcceptFacts, Zenon DEF loop
  <2>2. CASE Refuses
    <3>1. channels' = reap.channels /\ lsn' = reap.lsn
      BY <2>2, Zenon DEF Refuses
    <3>2. \A p \in Pids : Channel(p)'
      BY <1>0, <2>1, <3>1, ReapFacts
    <3>3. \A p \in Pids : proc[p] # "zombie" => lsn'[p] = lsn[p]
      BY <1>0, <3>1, ReapFacts, Zenon
    <3>4. Vector'
      BY <1>0, <2>1, Zenon
    <3>5. \A r \in requests' : Request(r)'
      BY <1>0, <1>10, <2>1, <3>3, Zenon
    <3>6. \A k \in Indices \X Addrs : Client(k)'
      BY <1>C, <1>10, <2>1, <3>3
    <3> QED
      BY <3>2, <3>4, <3>5, <3>6, Zenon
  <2>3. ASSUME NEW p \in Pids, NEW ip \in Ips, Forks(p, ip)
        PROVE  /\ Vector' /\ (\A q \in Pids : Channel(q)') /\ (\A r \in requests' : Request(r)')
               /\ \A k \in Indices \X Addrs : Client(k)'
    <3>1. /\ lsn' = [reap.lsn EXCEPT ![p] = live[idx]] /\ reap.proc[p] = "none"
          /\ channels' = [reap.channels EXCEPT ![p] = idx] \/ channels' = reap.channels
      BY <2>3, Zenon DEF Forks
    <3>2. /\ lsn'[p] = live[idx] /\ \A q \in Pids \ {p} : lsn'[q] = reap.lsn[q]
      BY <1>0, <3>1, ReapFacts, Zenon
    <3>3. reap.channels[p] = 0
      BY <1>0, <3>1, ReapFacts, Zenon DEF IInv, BooksLive
    <3>4. \A q \in Pids \ {p} : Channel(q)'
      <4>1. \A q \in Pids \ {p} : channels'[q] = reap.channels[q]
        BY <1>0, <3>1, ReapFacts, Zenon
      <4> QED
        BY <1>0, <2>1, <3>2, <4>1, ReapFacts, SMTT(30)
    <3>5. Channel(p)'
      <4>1. channels'[p] \in {0, idx}
        BY <1>0, <3>1, <3>3, ReapFacts, Zenon
      <4> QED
        BY <2>1, <3>2, <4>1, Zenon
    <3>6. \A q \in Pids : proc[q] \notin {"zombie", "none"} => lsn'[q] = lsn[q] /\ q # p
      BY <1>0, <3>1, <3>2, ReapFacts
    <3>7. Vector'
      BY <1>0, <2>1, Zenon
    <3>8. \A r \in requests' : Request(r)'
      BY <1>0, <1>10, <2>1, <3>6, Zenon
    <3>9. \A k \in Indices \X Addrs : Client(k)'
      BY <1>C, <1>10, <2>1, <3>6
    <3> QED
      BY <3>4, <3>5, <3>7, <3>8, <3>9, Zenon
  <2> QED
    BY <1>0, <1>12, <2>2, <2>3, AcceptFacts, Zenon
<1> QED
  BY <1>3, <1>4, <1>5, <1>6, <1>7, <1>8, <1>9, <1>11, <1>12, Zenon DEF Next, Loop

-----------------------------------------------------------------------------
(* The theorems.                                                              *)

INSTANCE FiniteSetTheorems

LEMMA CountsHold == Counts
<1>1. Cardinality({}) = 0
  BY FS_EmptySet, Zenon
<1>2. ASSUME NEW S \in SUBSET Pids
      PROVE  /\ Cardinality(S) \in Nat
             /\ \A T \in SUBSET S : Cardinality(T) <= Cardinality(S)
             /\ \A p \in Pids : Cardinality(S \cup {p}) <= Cardinality(S) + 1
  <2>1. IsFiniteSet(S)
    BY PidsAssumption, FS_Subset, Zenon
  <2>2. Cardinality(S) \in Nat
    BY <2>1, FS_CardinalityType, Zenon
  <2>3. \A T \in SUBSET S : Cardinality(T) <= Cardinality(S)
    BY <2>1, FS_Subset, Zenon
  <2>4. ASSUME NEW p \in Pids
        PROVE  Cardinality(S \cup {p}) <= Cardinality(S) + 1
    BY <2>1, <2>2, FS_AddElement
  <2> QED
    BY <2>2, <2>3, <2>4, Zenon
<1>3. ASSUME NEW n \in Nat
      PROVE  /\ Cardinality(1 .. n) = n
             /\ \A S \in SUBSET (1 .. n) : Cardinality(S) \in 0 .. n
  <2>1. /\ IsFiniteSet(1 .. n)
        /\ Cardinality(1 .. n) = IF 1 > n THEN 0 ELSE n - 1 + 1
    BY n \in Int, 1 \in Int, FS_Interval, Zenon
  <2>2. Cardinality(1 .. n) = n
    BY <2>1
  <2>3. ASSUME NEW S \in SUBSET (1 .. n)
        PROVE  Cardinality(S) \in 0 .. n
    <3>1. IsFiniteSet(S) /\ Cardinality(S) <= Cardinality(1 .. n)
      BY <2>1, FS_Subset, Zenon
    <3>2. Cardinality(S) \in Nat
      BY <3>1, FS_CardinalityType, Zenon
    <3> QED
      BY <2>2, <3>1, <3>2
  <2> QED
    BY <2>2, <2>3, Zenon
<1> QED
  BY <1>1, <1>2, <1>3, Zenon DEF Counts

LEMMA InitIInv == Counts /\ Init => IInv
<1> SUFFICES ASSUME Counts, Init PROVE IInv
  BY Zenon
<1> USE NoneAssumption, BoundAssumption, ConfigFacts DEF Init
<1>1. LoopType /\ NetworkType
  BY DEF LoopType, NetworkType
<1>2. WorkerType /\ BooksType /\ Polled
  BY DEF WorkerType, BooksType, Polled
<1>3. BooksLive /\ Still /\ Unread /\ Single /\ Own /\ RoutesOwn
  BY Zenon DEF BooksLive, Still, Unread, Single, Own, RoutesOwn, Known
<1>4. Counted
  <2>1. {p \in Pids : workers[p] # None} = {} /\ \A ip \in Ips : {p \in Pids : workers[p] = ip} = {}
    BY Zenon
  <2>2. /\ Cardinality({p \in Pids : workers[p] # None}) = 0
        /\ \A ip \in Ips : Cardinality({p \in Pids : workers[p] = ip}) = 0
    BY <2>1, Zenon DEF Counts
  <2>3. \A p \in Pids : proc[p] = "none"
    BY Zenon
  <2> QED
    BY <2>2, <2>3 DEF Counted
<1>5. Heard
  BY DEF Heard
<1> QED
  BY <1>1, <1>2, <1>3, <1>4, <1>5, Zenon DEF IInv, Types

LEMMA NextIInv == Counts /\ IInv /\ [Next]_vars => IInv'
<1> SUFFICES ASSUME Counts, IInv, [Next]_vars PROVE IInv'
  BY Zenon
<1>0. Step /\ TypedStep
  BY Zenon DEF Step, TypedStep, IInv
<1>1. Types'
  BY <1>0, LoopStep, NetworkStep, WorkerStep, BooksStep, Zenon DEF IInv, Types
<1>2. Own' /\ RoutesOwn'
  BY <1>0, OwnStep, Zenon DEF Own, RoutesOwn
<1> QED
  BY <1>0, <1>1, <1>2, BooksLiveStep, CountedStep, StillStep, UnreadStep, SingleStep,
     HeardStep, Zenon DEF IInv

LEMMA Invariant == Spec => []IInv
BY CountsHold, InitIInv, NextIInv, PTL DEF Spec

(* Every variable of the supervisor keeps its type: an index of the loop or   *)
(* of the books stays within the configured listeners.                        *)
THEOREM TypesKept == Spec => []TypeOK
<1>1. IInv => TypeOK
  BY Zenon DEF IInv, Types, LoopType, NetworkType, WorkerType, BooksType, TypeOK
<1> QED
  BY <1>1, Invariant, PTL

(* The limits hold of the processes themselves, although admit counts the     *)
(* books: at most max_workers of them, at most max_per_client for an address. *)
THEOREM WithinBudget == Spec => []BudgetKept
<1>1. ASSUME IInv PROVE BudgetKept
  <2> USE BoundAssumption DEF IInv, Counted
  <2>1. /\ {p \in Pids : proc[p] # "none"} \in SUBSET {p \in Pids : workers[p] # None}
        /\ {p \in Pids : workers[p] # None} \in SUBSET Pids
    BY <1>1, Zenon
  <2>2. /\ Cardinality({p \in Pids : proc[p] # "none"}) <= Cardinality({p \in Pids : workers[p] # None})
        /\ Cardinality({p \in Pids : proc[p] # "none"}) \in Nat
        /\ Cardinality({p \in Pids : workers[p] # None}) \in Nat
    BY <2>1, CountsHold, Smaller, Zenon
  <2>3. ASSUME NEW ip \in Ips
        PROVE  Cardinality({p \in Pids : proc[p] # "none" /\ workers[p] = ip}) <= MaxPerClient
    <3>1. /\ {p \in Pids : proc[p] # "none" /\ workers[p] = ip} \in SUBSET {p \in Pids : workers[p] = ip}
          /\ {p \in Pids : workers[p] = ip} \in SUBSET Pids
      BY Zenon
    <3>2. /\ Cardinality({p \in Pids : proc[p] # "none" /\ workers[p] = ip})
                 <= Cardinality({p \in Pids : workers[p] = ip})
          /\ Cardinality({p \in Pids : proc[p] # "none" /\ workers[p] = ip}) \in Nat
          /\ Cardinality({p \in Pids : workers[p] = ip}) \in Nat
      BY <3>1, CountsHold, Smaller, Zenon
    <3>3. Cardinality({p \in Pids : workers[p] = ip}) <= MaxPerClient
      BY <1>1, Zenon
    <3> QED
      BY <3>2, <3>3
  <2>4. Cardinality({p \in Pids : workers[p] # None}) <= MaxWorkers
    BY <1>1, Zenon
  <2> QED
    BY <2>2, <2>3, <2>4 DEF BudgetKept
<1> QED
  BY <1>1, Invariant, PTL

(* No share of the budget, channel, request or route outlives the process it  *)
(* belongs to, so none is inherited by the next process with its number.      *)
THEOREM NothingInherited == Spec => []BooksLive
<1>1. IInv => BooksLive
  BY Zenon DEF IInv
<1> QED
  BY <1>1, Invariant, PTL

(* A worker is sent the datagrams of one client address only.                 *)
THEOREM OneClientOnly == Spec => []OneClient
<1>1. ASSUME IInv PROVE OneClient
  <2>1. ASSUME NEW p \in Pids, NEW a, NEW b, Routed(clients, a, p), Routed(clients, b, p)
        PROVE  a = b
    <3>1. PICK m \in Indices : clients[<<m, a>>] = p /\ a \in Addrs
      BY <2>1, Zenon DEF Routed
    <3>2. PICK n \in Indices : clients[<<n, b>>] = p /\ b \in Addrs
      BY <2>1, Zenon DEF Routed
    <3>3. <<m, a>> = <<n, b>>
      BY <1>1, <3>1, <3>2, NoneAssumption DEF IInv, Single
    <3> QED
      BY <3>3, Zenon
  <2>2. ASSUME NEW p \in Pids,
               NEW a \in {inbox[p][i].addr : i \in 1 .. Len(inbox[p])} \cup ({served[p]} \ {None})
        PROVE  Routed(clients, a, p)
    BY <1>1, Zenon DEF IInv, Heard
  <2> QED
    BY <2>1, <2>2, Zenon DEF OneClient
<1> QED
  BY <1>1, Invariant, PTL

(* As long as no listener broke, every request and every route leads from a   *)
(* listener to a worker forked for it.                                        *)
THEOREM OwnListener == Spec => []RoutesOwn
<1>1. IInv => RoutesOwn
  BY Zenon DEF IInv
<1> QED
  BY <1>1, Invariant, PTL
=============================================================================

----------------------------- MODULE Supervisor -----------------------------
(* The supervisor's poll loop over every listener (supervisor.rs), the budget *)
(* of worker processes it keeps, the dispatch of RDP-UDP datagrams from the   *)
(* listeners' shared ports to the workers (udp_dispatch.rs), and the tunnel   *)
(* loop of a worker that takes them (udp.rs).  The loop is single threaded;   *)
(* what it races with are the clients, the workers and the kernel.            *)
EXTENDS Integers, Sequences, FiniteSets

CONSTANTS Config,        \* the configured listeners, in the order of the file
          Udp,           \* the listeners whose RDP-UDP port could be bound
          Ips,           \* addresses TCP connections come from
          Addrs,         \* addresses and ports datagrams come from
          Pids,          \* process numbers; the kernel reuses them
          Hashes,        \* cookieHashes, each drawn by one worker
          None,
          MaxWorkers, MaxPerClient,   \* limits.max_workers, limits.max_per_client
          MaxQueue,      \* bound on every socket's backlog
          MaxFaults,     \* failing fork, accept and socketpair calls
          MaxBroken      \* listening sockets that become unusable

Listeners == {Config[i] : i \in 1 .. Len(Config)}

ASSUME ConfigAssumption ==
    /\ Config \in Seq(Listeners) /\ Len(Config) > 0
    /\ \A i, j \in 1 .. Len(Config) : Config[i] = Config[j] => i = j
    /\ Udp \subseteq Listeners

ASSUME BoundAssumption ==
    /\ MaxWorkers \in Nat /\ MaxPerClient \in Nat /\ MaxQueue \in Nat
    /\ MaxFaults \in Nat /\ MaxBroken \in Nat

ASSUME PidsAssumption == IsFiniteSet(Pids)

ASSUME NoneAssumption == None \notin Ips \cup Pids \cup Hashes \cup Addrs

VARIABLES
    live,       \* the listeners still served; a listener's index is its place here
    spc, idx,   \* where the loop is, and at which listener
    ready,      \* what poll reported: sockets with something to read
    dead,       \* what poll reported: listeners with an error
    workers,    \* Workers.live: the address each recorded worker serves
    channels,   \* Dispatch.channels: the listener index of each worker's channel
    requests,   \* Store.requests: [hash, pid, listener index]
    clients,    \* Store.clients: (listener index, address) -> worker
    proc,       \* the kernel's view of each process number
    lsn,        \* the listener a worker was forked for
    tun,        \* where a worker's tunnel loop is
    served,     \* the client a worker is accepting or serving
    inbox,      \* datagrams on their way to a worker
    outbox,     \* a registration on its way to the supervisor
    tcpq, udpq, \* connections and datagrams waiting at the listeners
    broken, faults, used

loop     == <<live, spc, idx, ready, dead>>
books    == <<workers, channels, requests, clients>>
worker   == <<proc, lsn, tun, served, inbox, outbox, used>>
network  == <<tcpq, udpq, broken, faults>>
vars     == <<loop, books, worker, network>>

Indices == 1 .. Len(Config)
Data    == [kind : {"data"}]
Syn     == [kind : {"syn"}, hash : Hashes]
Datagrams == [addr : Addrs, pdu : Data \cup Syn]

Fault == faults < MaxFaults /\ faults' = faults + 1

-----------------------------------------------------------------------------
(* The books a reap leaves: every child that has exited is waited for, and    *)
(* with it go its share of the budget, its channel, its request and its       *)
(* clients.                                                                   *)
Zombies == {p \in Pids : proc[p] = "zombie"}

Reaped(f, none) == [p \in Pids |-> IF p \in Zombies THEN none ELSE f[p]]

(* Variant: the store keeps the routes of a worker that exited.               *)
reap_KeepsRoutes ==
    [workers  |-> Reaped(workers, None),
     channels |-> Reaped(channels, 0),
     requests |-> {r \in requests : r.pid \notin Zombies},
     clients  |-> clients,
     proc     |-> Reaped(proc, "none"),
     lsn      |-> Reaped(lsn, Config[1])]

(* Variant: the children that exited are not waited for.                      *)
reap_NoWait ==
    [workers  |-> Reaped(workers, None),
     channels |-> Reaped(channels, 0),
     requests |-> {r \in requests : r.pid \notin Zombies},
     clients  |-> [k \in DOMAIN clients |->
                     IF clients[k] \in Zombies THEN None ELSE clients[k]],
     proc     |-> proc,
     lsn      |-> lsn]

reap ==
    [workers  |-> Reaped(workers, None),
     channels |-> Reaped(channels, 0),
     requests |-> {r \in requests : r.pid \notin Zombies},
     clients  |-> [k \in DOMAIN clients |->
                     IF clients[k] \in Zombies THEN None ELSE clients[k]],
     proc     |-> Reaped(proc, "none"),
     lsn      |-> Reaped(lsn, Config[1])]

(* Variant: an address at its limit is still admitted.                        *)
admit_AtLimit(live_, ip) ==
    /\ Cardinality({p \in Pids : live_[p] # None}) < MaxWorkers
    /\ Cardinality({p \in Pids : live_[p] = ip}) <= MaxPerClient

(* Whether another connection from ip may be served.                          *)
admit(live_, ip) ==
    /\ Cardinality({p \in Pids : live_[p] # None}) < MaxWorkers
    /\ Cardinality({p \in Pids : live_[p] = ip}) < MaxPerClient

(* Store.route: a known client goes to its worker; otherwise a SYN whose hash *)
(* a worker of this listener registered does.                                 *)
Known(i, a) == clients[<<i, a>>] # None

(* Variant: a SYN is matched on its hash alone, whichever port it came to.    *)
Asked_AnyListener(i, d) ==
    {r \in requests : d.pdu.kind = "syn" /\ r.hash = d.pdu.hash}

Asked(i, d) ==
    {r \in requests : d.pdu.kind = "syn" /\ r.hash = d.pdu.hash /\ r.listener = i}

(* Variant: a request stays after the SYN that answered it.                   *)
Unanswered_All(h) == requests

(* The requests left once a SYN has answered one: a request is good for one   *)
(* client.                                                                    *)
Unanswered(h) == {r \in requests : r.hash # h}

(* A datagram put on a worker's channel; one that finds it full or closed is  *)
(* lost.                                                                      *)
Deliver(p, d) ==
    IF channels[p] # 0 /\ tun[p] \in {"new", "idle", "accept", "tunnel"} /\ Len(inbox[p]) < MaxQueue
    THEN inbox' = [inbox EXCEPT ![p] = Append(@, d)]
    ELSE UNCHANGED inbox

-----------------------------------------------------------------------------
(* The loop.                                                                  *)

(* bind_all: every listener or none.                                          *)
BindAll ==
    /\ spc = "bind"
    /\ \/ /\ live' = Config /\ spc' = "reap"
          /\ UNCHANGED faults
       \/ /\ Fault /\ spc' = "exit"
          /\ UNCHANGED live
    /\ UNCHANGED <<idx, ready, dead, books, worker, tcpq, udpq, broken>>

Reap ==
    /\ spc = "reap"
    /\ workers' = reap.workers /\ channels' = reap.channels
    /\ requests' = reap.requests /\ clients' = reap.clients
    /\ proc' = reap.proc /\ lsn' = reap.lsn
    /\ spc' = "poll"
    /\ UNCHANGED <<live, idx, ready, dead, tun, served, inbox, outbox, used, network>>

(* poll returns when something is readable or after a second.  One that fails *)
(* or is interrupted changes nothing and is tried again.                      *)
Poll ==
    /\ spc = "poll"
    /\ ready' = {<<"tcp", l>> : l \in {m \in Listeners : tcpq[m] # <<>>}}
                \cup {<<"udp", l>> : l \in {m \in Udp : udpq[m] # <<>>}}
                \cup {<<"channel", p>> : p \in {q \in Pids : channels[q] # 0 /\ outbox[q] # None}}
    /\ dead' = broken
    /\ spc' = "udp" /\ idx' = 1
    /\ UNCHANGED <<live, books, worker, network>>

(* read_socket takes datagrams until none is waiting, then it is the next     *)
(* port's turn.                                                               *)
ReadSocket ==
    /\ spc = "udp"
    /\ \/ /\ idx <= Len(live) /\ <<"udp", live[idx]>> \in ready /\ udpq[live[idx]] # <<>>
          /\ LET l == live[idx]
                 d == Head(udpq[l])
             IN  /\ udpq' = [udpq EXCEPT ![l] = Tail(@)]
                 /\ \/ /\ Known(idx, d.addr)
                       /\ Deliver(clients[<<idx, d.addr>>], d)
                       /\ UNCHANGED <<requests, clients>>
                    \/ /\ ~Known(idx, d.addr)
                       /\ \E r \in Asked(idx, d) :
                            /\ requests' = Unanswered(d.pdu.hash)
                            /\ clients' = [clients EXCEPT ![<<idx, d.addr>>] = r.pid]
                            /\ Deliver(r.pid, d)
                    \/ /\ ~Known(idx, d.addr) /\ Asked(idx, d) = {}
                       /\ UNCHANGED <<requests, clients, inbox>>
          /\ UNCHANGED <<spc, idx, ready>>
       \/ /\ idx <= Len(live) /\ ~(<<"udp", live[idx]>> \in ready /\ udpq[live[idx]] # <<>>)
          /\ idx' = idx + 1 /\ ready' = ready \ {<<"udp", live[idx]>>}
          /\ UNCHANGED <<spc, udpq, requests, clients, inbox>>
       \/ /\ idx > Len(live)
          /\ spc' = "channels" /\ idx' = 1
          /\ UNCHANGED <<ready, udpq, requests, clients, inbox>>
    /\ UNCHANGED <<live, dead, workers, channels, proc, lsn, tun, served, outbox,
                   used, tcpq, broken, faults>>

(* read_channel, for every worker that poll reported.                         *)
ReadChannel ==
    /\ spc = "channels"
    /\ LET said == {p \in Pids : <<"channel", p>> \in ready}
       IN  /\ requests' = requests \cup
                {[hash |-> outbox[p], pid |-> p, listener |-> channels[p]] : p \in said}
           /\ outbox' = [p \in Pids |-> IF p \in said THEN None ELSE outbox[p]]
           /\ ready' = ready \ ({"channel"} \X said)
    /\ spc' = "accept"
    /\ UNCHANGED <<live, idx, dead, workers, channels, clients, proc, lsn, tun,
                   served, inbox, used, network>>

(* accept_all, one connection: reap, then refuse it, fail to fork, or fork.   *)
(* The fork makes the worker's channel when the listener has an RDP-UDP port. *)
Forked(p, ip) ==
    /\ proc' = [reap.proc EXCEPT ![p] = "running"]
    /\ workers' = [reap.workers EXCEPT ![p] = ip]
    /\ lsn' = [reap.lsn EXCEPT ![p] = live[idx]]
    /\ outbox' = [outbox EXCEPT ![p] = None]
    /\ \/ /\ live[idx] \in Udp
          /\ channels' = [reap.channels EXCEPT ![p] = idx]
          /\ tun' = [tun EXCEPT ![p] = "new"]
          /\ UNCHANGED faults
       \/ /\ live[idx] \in Udp => Fault
          /\ live[idx] \notin Udp => UNCHANGED faults
          /\ channels' = reap.channels
          /\ tun' = [tun EXCEPT ![p] = "off"]

AcceptOne ==
    LET l  == live[idx]
        ip == Head(tcpq[l])
    IN  /\ spc = "accept" /\ idx <= Len(live)
        /\ l \notin dead /\ <<"tcp", l>> \in ready /\ tcpq[l] # <<>>
        /\ tcpq' = [tcpq EXCEPT ![l] = Tail(@)]
        /\ requests' = reap.requests /\ clients' = reap.clients
        /\ \/ /\ ~admit(reap.workers, ip)
              /\ workers' = reap.workers /\ channels' = reap.channels /\ proc' = reap.proc
              /\ lsn' = reap.lsn
              /\ UNCHANGED <<tun, outbox, faults>>
           \/ /\ admit(reap.workers, ip) /\ Fault
              /\ workers' = reap.workers /\ channels' = reap.channels /\ proc' = reap.proc
              /\ lsn' = reap.lsn
              /\ UNCHANGED <<tun, outbox>>
           \/ /\ admit(reap.workers, ip)
              /\ \E p \in Pids : reap.proc[p] = "none" /\ Forked(p, ip)
        /\ UNCHANGED <<loop, served, inbox, used, udpq, broken>>

(* The listener is drained, had nothing, is dead, or accept failed.           *)
AcceptNext ==
    /\ spc = "accept"
    /\ \/ /\ idx <= Len(live)
          /\ live[idx] \in dead \/ <<"tcp", live[idx]>> \notin ready \/ tcpq[live[idx]] = <<>>
          /\ idx' = idx + 1 /\ ready' = ready \ {<<"tcp", live[idx]>>}
          /\ UNCHANGED <<spc, faults>>
       \/ /\ idx <= Len(live) /\ <<"tcp", live[idx]>> \in ready /\ live[idx] \notin dead /\ Fault
          /\ idx' = idx + 1 /\ ready' = ready \ {<<"tcp", live[idx]>>}
          /\ UNCHANGED spc
       \/ /\ idx > Len(live)
          /\ spc' = "prune"
          /\ UNCHANGED <<idx, ready, faults>>
    /\ UNCHANGED <<live, dead, books, worker, tcpq, udpq, broken>>

(* Dead listeners leave the vector, which closes their sockets; the others    *)
(* move up, each to its rank among those kept.                                *)
Kept == {i \in 1 .. Len(live) : live[i] \notin dead}

Prune ==
    /\ spc = "prune"
    /\ \E pos \in [1 .. Cardinality(Kept) -> Kept] :
        /\ \A i \in 1 .. Cardinality(Kept) : Cardinality({k \in Kept : k <= pos[i]}) = i
        /\ live' = [i \in 1 .. Cardinality(Kept) |-> live[pos[i]]]
    /\ spc' = IF live' = <<>> THEN "exit" ELSE "reap"
    /\ idx' = 1 /\ ready' = {} /\ dead' = {}
    /\ tcpq' = [l \in Listeners |-> IF l \in dead THEN <<>> ELSE tcpq[l]]
    /\ udpq' = [l \in Listeners |-> IF l \in dead THEN <<>> ELSE udpq[l]]
    /\ UNCHANGED <<books, worker, broken, faults>>

-----------------------------------------------------------------------------
(* A worker's tunnel loop.                                                    *)

(* The request is registered before the client can hear of it.                *)
Register(p) ==
    /\ proc[p] = "running" /\ tun[p] = "new"
    /\ \E h \in Hashes \ used :
        /\ outbox' = [outbox EXCEPT ![p] = h]
        /\ used' = used \cup {h}
    /\ tun' = [tun EXCEPT ![p] = "idle"]
    /\ UNCHANGED <<loop, books, proc, lsn, served, inbox, network>>

(* A datagram starts the accept, feeds it or the transport, or is dropped.    *)
Receive(p) ==
    /\ proc[p] = "running" /\ tun[p] \in {"idle", "accept", "tunnel"} /\ inbox[p] # <<>>
    /\ inbox' = [inbox EXCEPT ![p] = Tail(@)]
    /\ IF tun[p] = "idle"
       THEN /\ tun' = [tun EXCEPT ![p] = "accept"]
            /\ served' = [served EXCEPT ![p] = Head(inbox[p]).addr]
       ELSE UNCHANGED <<tun, served>>
    /\ UNCHANGED <<loop, books, proc, lsn, outbox, used, network>>

Established(p) ==
    /\ proc[p] = "running" /\ tun[p] = "accept"
    /\ tun' = [tun EXCEPT ![p] = "tunnel"]
    /\ UNCHANGED <<loop, books, proc, lsn, served, inbox, outbox, used, network>>

(* The handshake failed or took longer than its minute.                       *)
AcceptEnds(p) ==
    /\ proc[p] = "running" /\ tun[p] = "accept"
    /\ tun' = [tun EXCEPT ![p] = "idle"]
    /\ served' = [served EXCEPT ![p] = None]
    /\ UNCHANGED <<loop, books, proc, lsn, inbox, outbox, used, network>>

(* The tunnel is gone for good: the worker drops its end of the channel.      *)
TunnelCloses(p) ==
    /\ proc[p] = "running" /\ tun[p] = "tunnel"
    /\ tun' = [tun EXCEPT ![p] = "closed"]
    /\ served' = [served EXCEPT ![p] = None]
    /\ inbox' = [inbox EXCEPT ![p] = <<>>]
    /\ UNCHANGED <<loop, books, proc, lsn, outbox, used, network>>

(* The connection is over, the exec failed, or somebody killed the worker.    *)
WorkerExits(p) ==
    /\ proc[p] = "running"
    /\ proc' = [proc EXCEPT ![p] = "zombie"]
    /\ tun' = [tun EXCEPT ![p] = "off"]
    /\ served' = [served EXCEPT ![p] = None]
    /\ inbox' = [inbox EXCEPT ![p] = <<>>]
    /\ UNCHANGED <<loop, books, lsn, outbox, used, network>>

-----------------------------------------------------------------------------
(* The clients and the kernel.                                                *)

Served(l) == \E i \in 1 .. Len(live) : live[i] = l

Connect(l, ip) ==
    /\ Served(l) /\ Len(tcpq[l]) < MaxQueue
    /\ tcpq' = [tcpq EXCEPT ![l] = Append(@, ip)]
    /\ UNCHANGED <<loop, books, worker, udpq, broken, faults>>

(* A client sends the SYN of a request it was told of, or more of what it has *)
(* begun; a datagram the port has no room for is lost.                        *)
Send(l, a) ==
    /\ Served(l) /\ l \in Udp /\ Len(udpq[l]) < MaxQueue
    /\ \E m \in Data \cup {s \in Syn : s.hash \in used} :
        udpq' = [udpq EXCEPT ![l] = Append(@, [addr |-> a, pdu |-> m])]
    /\ UNCHANGED <<loop, books, worker, tcpq, broken, faults>>

Break(l) ==
    /\ Served(l) /\ l \notin broken /\ Cardinality(broken) < MaxBroken
    /\ broken' = broken \cup {l}
    /\ UNCHANGED <<loop, books, worker, tcpq, udpq, faults>>

-----------------------------------------------------------------------------
Init ==
    /\ live = <<>> /\ spc = "bind" /\ idx = 1 /\ ready = {} /\ dead = {}
    /\ workers = [p \in Pids |-> None]
    /\ channels = [p \in Pids |-> 0]
    /\ requests = {}
    /\ clients = [k \in Indices \X Addrs |-> None]
    /\ proc = [p \in Pids |-> "none"]
    /\ lsn = [p \in Pids |-> Config[1]]
    /\ tun = [p \in Pids |-> "off"]
    /\ served = [p \in Pids |-> None]
    /\ inbox = [p \in Pids |-> <<>>]
    /\ outbox = [p \in Pids |-> None]
    /\ tcpq = [l \in Listeners |-> <<>>]
    /\ udpq = [l \in Listeners |-> <<>>]
    /\ broken = {} /\ faults = 0 /\ used = {}

Loop == BindAll \/ Reap \/ Poll \/ ReadSocket \/ ReadChannel \/ AcceptOne \/ AcceptNext \/ Prune

Tunnel(p) ==
    Register(p) \/ Receive(p) \/ Established(p) \/ AcceptEnds(p) \/ TunnelCloses(p) \/ WorkerExits(p)

Next ==
    \/ Loop
    \/ \E p \in Pids : Tunnel(p)
    \/ \E l \in Listeners : (\E ip \in Ips : Connect(l, ip)) \/ (\E a \in Addrs : Send(l, a)) \/ Break(l)

Spec == Init /\ [][Next]_vars

(* The loop runs whenever it can, since poll wakes up within a second, and    *)
(* the clients pause for long enough that a port runs dry: accept_all and     *)
(* read_socket stay with a port for as long as it has something.              *)
Drains ==
    \A l \in Listeners : Len(tcpq'[l]) <= Len(tcpq[l]) /\ Len(udpq'[l]) <= Len(udpq[l])

FairSpec == Spec /\ WF_vars(Loop) /\ <>[][Drains]_vars

-----------------------------------------------------------------------------
(* Properties.                                                                *)

(* Every variable stays in its domain: indices stay within the listeners,     *)
(* queues within their bound, and the books name processes and addresses.     *)
TypeOK ==
    /\ live \in Seq(Listeners) /\ Len(live) <= Len(Config)
    /\ spc \in {"bind", "reap", "poll", "udp", "channels", "accept", "prune", "exit"}
    /\ idx \in 1 .. Len(Config) + 1
    /\ ready \subseteq {"tcp", "udp", "channel"} \X (Listeners \cup Pids)
    /\ dead \subseteq Listeners
    /\ workers \in [Pids -> Ips \cup {None}]
    /\ channels \in [Pids -> Indices \cup {0}]
    /\ requests \subseteq [hash : Hashes, pid : Pids, listener : Indices]
    /\ clients \in [Indices \X Addrs -> Pids \cup {None}]
    /\ proc \in [Pids -> {"none", "running", "zombie"}]
    /\ lsn \in [Pids -> Listeners]
    /\ tun \in [Pids -> {"off", "new", "idle", "accept", "tunnel", "closed"}]
    /\ served \in [Pids -> Addrs \cup {None}]
    /\ inbox \in [Pids -> Seq(Datagrams)]
    /\ outbox \in [Pids -> Hashes \cup {None}]
    /\ tcpq \in [Listeners -> Seq(Ips)] /\ udpq \in [Listeners -> Seq(Datagrams)]
    /\ broken \subseteq Listeners /\ faults \in 0 .. MaxFaults /\ used \subseteq Hashes

(* No moment has more worker processes than limits.max_workers, or more for   *)
(* one address than limits.max_per_client, whatever the order in which        *)
(* workers exit, are reaped and have their numbers reused (Workers::admit).   *)
BudgetKept ==
    /\ Cardinality({p \in Pids : proc[p] # "none"}) <= MaxWorkers
    /\ \A ip \in Ips :
        Cardinality({p \in Pids : proc[p] # "none" /\ workers[p] = ip}) <= MaxPerClient

(* The books name existing processes only: a number the kernel hands out      *)
(* again inherits no budget share, channel, request or route                  *)
(* (Workers::reap, Dispatch::remove_worker).                                  *)
BooksLive ==
    /\ \A p \in Pids : proc[p] = "none" => workers[p] = None /\ channels[p] = 0
    /\ \A r \in requests : proc[r.pid] # "none"
    /\ \A k \in DOMAIN clients : clients[k] # None => proc[clients[k]] # "none"

(* A route leads from a listener to a worker forked for that listener         *)
(* (Store::route: "a worker of this listener"), as long as no listener       *)
(* breaks.                                                                    *)
RoutesOwn ==
    broken = {} =>
    /\ \A r \in requests : r.listener <= Len(live) /\ live[r.listener] = lsn[r.pid]
    /\ \A i \in Indices, a \in Addrs :
        Known(i, a) => i <= Len(live) /\ live[i] = lsn[clients[<<i, a>>]]

(* A worker hears of one client address only: the request is consumed by the  *)
(* first SYN, so the tunnel loop's "second client" arm is never taken         *)
(* (Store::route, tunnel_loop).                                               *)
OneClient ==
    \A p \in Pids : proc[p] # "none" =>
        \A a, b \in {inbox[p][i].addr : i \in 1 .. Len(inbox[p])} \cup ({served[p]} \ {None}) : a = b

(* A connection that reached a listener is answered, with a worker or with a  *)
(* refusal, and a worker that exited gives its share back, as long as the     *)
(* supervisor runs.                                                           *)
Answered ==
    /\ \A l \in Listeners : tcpq[l] # <<>> ~> tcpq[l] = <<>> \/ spc = "exit"
    /\ \A p \in Pids : proc[p] = "zombie" ~> proc[p] # "zombie" \/ spc = "exit"
=============================================================================

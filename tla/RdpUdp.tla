------------------------------- MODULE RdpUdp -------------------------------
(* The RDP-UDP transport between a client and the server: the handshake, the  *)
(* send and the receive window, acknowledgements, loss detection,             *)
(* retransmission and congestion control of RdpeudpConnection                 *)
(* (ironrdp-rdpeudp), run at both ends by the driver of ironrdp-rdpeudp-tokio *)
(* over a network that loses, repeats and reorders datagrams.                 *)
(*                                                                            *)
(* A piece is what send cuts a write into, one packet's payload; a window of  *)
(* bytes is counted in pieces.  Time is left out: an armed timer may fire,    *)
(* and a packet may be found overdue, at any moment, but firing while the     *)
(* answer may still be under way is paid from a budget.                       *)
EXTENDS SeqNumbers, Sequences, FiniteSets, SequencesExt, FiniteSetsExt

CONSTANTS FirstData, FirstChannel,     \* 100 and 1 in the code
          BufferMultiple,              \* SEND_BUFFER_WINDOW_MULTIPLE (8)
          VectorMax, RunMax,           \* ACK_VECTOR_MAX_ENTRIES (127) and 63
          Scenarios                    \* the connections considered

Sides  == {"client", "server"}
Faults == {"lose", "repeat", "early", "probe", "close"}
None   == -1
Peer(s) == IF s = "client" THEN "server" ELSE "client"

(* A connection: the configuration of its two sides, what their streams write *)
(* and how often each fault may happen.                                       *)
Scenario ==
    [window    : [Sides -> Nat \ {0}],         \* 2^log_window_size
     limit     : Nat,                          \* HANDSHAKE_RETRANSMIT_LIMIT (5)
     threshold : Nat \ {0},                    \* DEFAULT_REORDER_THRESHOLD (3)
     initial   : Nat \ {0}, min : Nat \ {0},   \* of the congestion control, in pieces
     writes    : [Sides -> Seq(Seq(Nat))],
     faults    : [Faults -> Nat]]

ASSUME SizeAssumption ==
    /\ {FirstData, FirstChannel} \subseteq Nat \ {0} /\ FirstChannel % Wire # 0
    /\ {BufferMultiple, VectorMax, RunMax} \subseteq Nat \ {0}
    /\ Scenarios \subseteq Scenario
    /\ \A p \in Scenarios :
        /\ p.initial >= p.min
        /\ \A s \in Sides : \A i \in DOMAIN p.writes[s] :
               Len(p.writes[s][i]) \in 1 .. BufferMultiple * p.window[s]

VARIABLES
    state,       \* each side's State; the server is "None" until a SYN arrives
    out,         \* pending_transmits: handshake datagrams not yet sent
    handshake,   \* handshake_datagram: what a repeat repeats, or "none"
    repeats,     \* handshake_retransmits
    snd,         \* SendWindow, the retransmit queue and CongestionControl
    rcv,         \* RecvWindow
    buffer,      \* send_buffer
    ackPending,  \* ack_pending
    timer,       \* whether Timer::Retransmit is set
    writes,      \* writes the driver has taken from the stream
    pending,     \* pending_write: the pieces held back
    read,        \* what the driver has put into read_buf
    busy,        \* the side whose driver is sending, or "none"
    net,         \* datagrams under way
    plan         \* the scenario, with the faults that may still happen

connection == <<state, out, handshake, repeats, snd, rcv, buffer, ackPending, timer>>
driver     == <<writes, pending, read, busy>>
vars       == <<connection, driver, net, plan>>

Window           == plan.window
HandshakeLimit   == plan.limit
ReorderThreshold == plan.threshold
InitialWindow    == plan.initial
MinWindow        == plan.min
Writes           == plan.writes

Spend(f) == plan.faults[f] > 0 /\ plan' = [plan EXCEPT !.faults[f] = @ - 1]

-----------------------------------------------------------------------------
(* The send window: packets sent and not yet resolved, in order, with those   *)
(* acknowledged behind an older one that is not.                              *)
NewSend(s) == [win |-> <<>>, next |-> FirstData, chan |-> FirstChannel,
               max |-> Window[s], queue |-> <<>>,
               cwnd |-> InitialWindow, ssthresh |-> None, acked |-> 0,
               recovery |-> None, aoa |-> None]

IsPending(e)  == ~e.acked
Waiting(w)    == SelectSeq(w.win, IsPending)
InFlight(w)   == Len(Waiting(w))
lowest_unacknowledged(w) == IF w.win = <<>> THEN w.next ELSE w.win[1].seq

Unfinished(w) == InFlight(w) > 0 \/ w.queue # <<>>

advance_window(win) ==
    LET p == {i \in DOMAIN win : ~win[i].acked}
    IN  IF p = {} THEN <<>> ELSE SubSeq(win, Min(p), Len(win))

mark_received(w, seqs) ==
    [w EXCEPT !.win = advance_window([i \in DOMAIN @ |->
         [@[i] EXCEPT !.acked = @ \/ w.win[i].seq \in seqs]])]

push(w, chan, data) ==
    [w EXCEPT !.win  = Append(@, [seq |-> w.next, chan |-> chan, data |-> data, acked |-> FALSE]),
              !.next = @ + 1]

(* The congestion window grows by what was acknowledged below the threshold   *)
(* and by one packet for a whole window above it.                             *)
on_ack(w, n) ==
    IF n = 0 THEN w
    ELSE IF w.ssthresh = None \/ w.cwnd < w.ssthresh
    THEN [w EXCEPT !.cwnd  = @ + n,
                   !.acked = IF w.ssthresh # None /\ w.cwnd + n >= w.ssthresh THEN 0 ELSE @]
    ELSE IF w.acked + n >= w.cwnd
    THEN [w EXCEPT !.acked = @ + n - w.cwnd, !.cwnd = @ + 1]
    ELSE [w EXCEPT !.acked = @ + n]

(* Halved once for everything in flight when the loss is noticed.             *)
on_loss(w, seq) ==
    IF w.recovery # None /\ seq =< w.recovery THEN w
    ELSE LET h == Max({w.cwnd \div 2, MinWindow})
         IN  [w EXCEPT !.recovery = w.next - 1, !.ssthresh = h, !.cwnd = h, !.acked = 0]

(* The n oldest waiting packets are lost: they leave the window, and what     *)
(* they carried queues for retransmission under its channel number.  Their    *)
(* own numbers will not be used again, which is what the peer is told.        *)
declare_lost(w, n) ==
    LET lost == SubSeq(Waiting(w), 1, n)
        seqs == {lost[i].seq : i \in 1 .. n}
        Kept(e) == e.seq \notin seqs
        gone == [on_loss(w, lost[n].seq) EXCEPT
                    !.win   = advance_window(SelectSeq(@, Kept)),
                    !.queue = @ \o [i \in 1 .. n |-> [chan |-> lost[i].chan, data |-> lost[i].data]]]
    IN  IF n = 0 THEN w ELSE [gone EXCEPT !.aoa = lowest_unacknowledged(gone)]

(* How many are lost because one sent ReorderThreshold later is acknowledged; *)
(* with a packet every older one is lost.                                     *)
detect(w) ==
    LET acked   == {w.win[i].seq : i \in {j \in DOMAIN w.win : w.win[j].acked}}
        waiting == Waiting(w)
    IN  Max({0} \cup {i \in DOMAIN waiting :
                         \E a \in acked : a - waiting[i].seq >= ReorderThreshold})

(* Variant: any acknowledgement ends the advertisement.                       *)
retire_ack_of_acks_Any(w, reported) == [w EXCEPT !.aoa = None]

retire_ack_of_acks(w, reported) ==
    IF w.aoa # None /\ reported > w.aoa THEN [w EXCEPT !.aoa = None] ELSE w

(* The number an acknowledgement reports, and the packets it names.           *)
Reported(w, a) == reconstruct_seq(a.seq, w.next - 1)

Named(w, a) ==
    IF a.kind = "ack"
    THEN {w.win[i].seq : i \in {j \in DOMAIN w.win : w.win[j].seq =< Reported(w, a)}}
    ELSE {Reported(w, a) + i - 1 : i \in {j \in DOMAIN a.slots : a.slots[j]}}

-----------------------------------------------------------------------------
(* The receive window: the packet numbers held from base on, and the pieces   *)
(* that wait in the reorder buffer for one with a lower channel number.       *)
NewRecv == [base |-> FirstData, highest |-> FirstData - 1, held |-> {},
            chan |-> FirstChannel, reorder |-> {}]

Slots(r) == IF r.held = {} THEN <<>>
            ELSE [i \in 1 .. Max(r.held) - r.base + 1 |-> (r.base + i - 1) \in r.held]

has_gaps(r) == \E i \in DOMAIN Slots(r) : ~Slots(r)[i]

(* Variant: one slot past the window is still taken.                          *)
occupy_slot_Past(r, s, seq) ==
    seq >= r.base /\ seq - r.base =< Window[s] /\ seq \notin r.held

occupy_slot(r, s, seq) ==
    seq >= r.base /\ seq - r.base < Window[s] /\ seq \notin r.held

(* Whether a packet is new, and what receiving it changes.                    *)
IsNew(r, s, seq, chan) ==
    /\ \/ chan =< r.chan
       \/ Cardinality(r.reorder) < Window[s]
       \/ \E p \in r.reorder : p.chan = chan
    /\ occupy_slot(r, s, seq)

receive(r, seq, chan, data) ==
    [r EXCEPT !.held    = @ \cup {seq},
              !.highest = Max({@, seq}),
              !.reorder = IF chan < r.chan THEN @
                          ELSE {p \in @ : p.chan # chan} \cup {[chan |-> chan, data |-> data]}]

(* The channel numbers from c on.                                             *)
Channels(c, n) ==
    LET f[i \in 1 .. n] == IF i = 1 THEN c ELSE next_channel_seq(f[i - 1]) IN f

(* Variant: all that has arrived goes to the application, over a gap, too.    *)
Ordered_Gap(r) ==
    IF r.reorder = {} THEN [chan |-> r.chan, data |-> <<>>]
    ELSE [chan |-> next_channel_seq(Max({p.chan : p \in r.reorder})),
          data |-> SetToSortSeq({p.data : p \in r.reorder}, <)]

(* The run of pieces at the delivery cursor goes to the application.          *)
Ordered(r) ==
    LET n    == Cardinality(r.reorder)
        cs   == Channels(r.chan, n + 1)
        has  == {p.chan : p \in r.reorder}
        k    == Max({j \in 0 .. n : \A i \in 1 .. j : cs[i] \in has})
    IN  [chan |-> cs[k + 1],
         data |-> [i \in 1 .. k |-> (CHOOSE p \in r.reorder : p.chan = cs[i]).data]]

drain_ordered(r) ==
    LET next == Ordered(r).chan
    IN  [r EXCEPT !.chan = next, !.reorder = {p \in @ : p.chan >= next}]

advance_base(r, base) ==
    IF base =< r.base THEN r
    ELSE [r EXCEPT !.base = base, !.held = {n \in @ : n >= base}]

release_acknowledged(r) ==
    advance_base(r, Min({n \in r.base .. r.base + Cardinality(r.held) : n \notin r.held}))

-----------------------------------------------------------------------------
(* Acknowledgements.  A vector is coded as runs of at most RunMax slots, and  *)
(* as many of its slots are sent as VectorMax runs describe.                  *)
StartsRun(v, i) ==
    LET first == Min({j \in 1 .. i : \A k \in j .. i : v[k] = v[i]})
    IN  (i - first) % RunMax = 0

Coded(v) ==
    SubSeq(v, 1, Max({n \in 0 .. Len(v) :
                         Cardinality({i \in 1 .. n : StartsRun(v, i)}) =< VectorMax}))

(* Variant: the cumulative form is sent over a hole, too.                     *)
build_acknowledgement_Over(r) ==
    [kind |-> "ack", seq |-> truncate_seq(r.highest), slots |-> <<>>]

build_acknowledgement(r) ==
    IF has_gaps(r)
    THEN [kind |-> "vector", seq |-> truncate_seq(r.base), slots |-> Coded(Slots(r))]
    ELSE [kind |-> "ack", seq |-> truncate_seq(r.highest), slots |-> <<>>]

(* A packet from s, with the acknowledgement and the data it carries, if any. *)
Packet(s, w, acks, body) ==
    [to |-> Peer(s), kind |-> "packet", window |-> Window[s], acks |-> acks,
     aoa |-> IF w.aoa = None THEN None ELSE truncate_seq(w.aoa), body |-> body]

Datagram(s, kind) == [to |-> Peer(s), kind |-> kind]

-----------------------------------------------------------------------------
Init ==
    /\ plan \in Scenarios
    /\ state      = [s \in Sides |-> IF s = "client" THEN "SynSent" ELSE "None"]
    /\ out        = [s \in Sides |-> IF s = "client" THEN <<"syn">> ELSE <<>>]
    /\ handshake  = [s \in Sides |-> IF s = "client" THEN "syn" ELSE "none"]
    /\ repeats    = [s \in Sides |-> 0]
    /\ snd        = [s \in Sides |-> NewSend(s)]
    /\ rcv        = [s \in Sides |-> NewRecv]
    /\ buffer     = [s \in Sides |-> <<>>]
    /\ ackPending = [s \in Sides |-> FALSE]
    /\ timer      = [s \in Sides |-> s = "client"]
    /\ writes     = [s \in Sides |-> 0]
    /\ pending    = [s \in Sides |-> <<>>]
    /\ read       = [s \in Sides |-> <<>>]
    /\ busy       = "client"
    /\ net        = {}

-----------------------------------------------------------------------------
(* The driver answers every event by sending all the connection has to send;  *)
(* only then does it look at the next event.  The other side sees no more of  *)
(* that than the datagrams, so no other step is taken in between.             *)
CanSend(w) == InFlight(w) < w.cwnd /\ Len(w.win) < w.max

Turn(s) == busy = s /\ state[s] = "Established" /\ out[s] = <<>>

SendHandshake(s) ==
    /\ busy = s /\ out[s] # <<>>
    /\ net' = net \cup {Datagram(s, out[s][1])}
    /\ out' = [out EXCEPT ![s] = Tail(@)]
    /\ UNCHANGED <<state, handshake, repeats, snd, rcv, buffer, ackPending, timer,
                   driver, plan>>

(* A data packet takes the acknowledgement that is due along.                 *)
build_data_packet(s, w, piece) ==
    LET acks == IF ackPending[s] THEN {build_acknowledgement(rcv[s])} ELSE {}
        body == {[seq |-> truncate_seq(w.next), chan |-> truncate_seq(piece.chan),
                  data |-> piece.data]}
    IN  /\ net' = net \cup {Packet(s, w, acks, body)}
        /\ snd' = [snd EXCEPT ![s] = push(w, piece.chan, piece.data)]
        /\ ackPending' = [ackPending EXCEPT ![s] = FALSE]
        /\ rcv' = IF acks = {} THEN rcv ELSE [rcv EXCEPT ![s] = release_acknowledged(@)]
        /\ timer' = [timer EXCEPT ![s] = TRUE]

try_retransmit(s) ==
    /\ Turn(s) /\ CanSend(snd[s]) /\ snd[s].queue # <<>>
    /\ build_data_packet(s, [snd[s] EXCEPT !.queue = Tail(@)], snd[s].queue[1])
    /\ UNCHANGED <<state, out, handshake, repeats, buffer, driver, plan>>

try_send_new_data(s) ==
    LET w == snd[s]
    IN  /\ Turn(s) /\ CanSend(w) /\ w.queue = <<>> /\ buffer[s] # <<>>
        /\ build_data_packet(s, [w EXCEPT !.chan = next_channel_seq(@)],
                             [chan |-> w.chan, data |-> buffer[s][1]])
        /\ buffer' = [buffer EXCEPT ![s] = Tail(@)]
        /\ UNCHANGED <<state, out, handshake, repeats, driver, plan>>

NoData(s) == CanSend(snd[s]) => snd[s].queue = <<>> /\ buffer[s] = <<>>

build_standalone_ack(s) ==
    /\ Turn(s) /\ NoData(s) /\ ackPending[s]
    /\ net' = net \cup {Packet(s, snd[s], {build_acknowledgement(rcv[s])}, {})}
    /\ ackPending' = [ackPending EXCEPT ![s] = FALSE]
    /\ rcv' = [rcv EXCEPT ![s] = release_acknowledged(@)]
    /\ UNCHANGED <<state, out, handshake, repeats, snd, buffer, timer, driver, plan>>

(* With nothing left to send, a write that was held back is tried again.      *)
HasRoom(s, pieces) == Len(buffer[s]) + Len(pieces) =< BufferMultiple * Window[s]

flush_pending_write(s) ==
    /\ busy = s /\ out[s] = <<>>
    /\ state[s] = "Established" => NoData(s) /\ ~ackPending[s]
    /\ IF pending[s] # <<>> /\ HasRoom(s, pending[s])
       THEN /\ buffer'  = [buffer EXCEPT ![s] = @ \o pending[s]]
            /\ pending' = [pending EXCEPT ![s] = <<>>]
            /\ UNCHANGED busy
       ELSE busy' = "none" /\ UNCHANGED <<buffer, pending>>
    /\ UNCHANGED <<state, out, handshake, repeats, snd, rcv, ackPending, timer,
                   writes, read, net, plan>>

(* The driver takes the next write off the stream.                            *)
queue_write(s) ==
    /\ busy = "none" /\ state[s] = "Established" /\ pending[s] = <<>>
    /\ writes[s] < Len(Writes[s])
    /\ LET pieces == Writes[s][writes[s] + 1]
       IN  IF HasRoom(s, pieces)
           THEN /\ buffer' = [buffer EXCEPT ![s] = @ \o pieces]
                /\ busy'   = s
                /\ UNCHANGED pending
           ELSE /\ pending' = [pending EXCEPT ![s] = pieces]
                /\ UNCHANGED <<buffer, busy>>
    /\ writes' = [writes EXCEPT ![s] = @ + 1]
    /\ UNCHANGED <<state, out, handshake, repeats, snd, rcv, ackPending, timer,
                   read, net, plan>>

-----------------------------------------------------------------------------
(* A datagram arrives.  It may arrive again, and packets may be found overdue *)
(* while it is handled, which costs early.                                    *)
Arrives(s, m, early) ==
    /\ busy = "none" /\ m \in net /\ m.to = s
    /\ busy' = s
    /\ early =< plan.faults["early"]
    /\ \E again \in {0, 1} :
        /\ again =< plan.faults["repeat"]
        /\ net' = IF again = 1 THEN net ELSE net \ {m}
        /\ plan' = [plan EXCEPT !.faults["repeat"] = @ - again, !.faults["early"] = @ - early]

enqueue_handshake(s, kind) ==
    /\ handshake' = [handshake EXCEPT ![s] = kind]
    /\ repeats'   = [repeats EXCEPT ![s] = 0]
    /\ out'       = [out EXCEPT ![s] = Append(@, kind)]

resend_handshake_datagram(s) ==
    out' = [out EXCEPT ![s] = IF handshake[s] = "none" THEN @ ELSE Append(@, handshake[s])]

accept(s, m) ==
    /\ state[s] = "None" /\ m.kind = "syn" /\ Arrives(s, m, 0)
    /\ state' = [state EXCEPT ![s] = "SynReceived"]
    /\ enqueue_handshake(s, "synack")
    /\ timer' = [timer EXCEPT ![s] = TRUE]
    /\ UNCHANGED <<snd, rcv, buffer, ackPending, writes, pending, read>>

handle_syn_ack(s, m) ==
    /\ state[s] = "SynSent" /\ m.kind = "synack" /\ Arrives(s, m, 0)
    /\ state' = [state EXCEPT ![s] = "Established"]
    /\ enqueue_handshake(s, "ack")
    /\ timer' = [timer EXCEPT ![s] = FALSE]
    /\ UNCHANGED <<snd, rcv, buffer, ackPending, writes, pending, read>>

(* A repeated SYN at the server, or SYN+ACK at the client: the answer to it   *)
(* was lost.                                                                  *)
HandshakeAgain(s, m) ==
    /\ \/ state[s] = "SynReceived" /\ m.kind = "syn"
       \/ s = "client" /\ state[s] = "Established" /\ m.kind = "synack"
    /\ Arrives(s, m, 0)
    /\ resend_handshake_datagram(s)
    /\ UNCHANGED <<state, handshake, repeats, snd, rcv, buffer, ackPending, timer,
                   writes, pending, read>>

handle_final_ack(s, m) ==
    /\ state[s] = "SynReceived" /\ m.kind = "ack" /\ Arrives(s, m, 0)
    /\ state'     = [state EXCEPT ![s] = "Established"]
    /\ handshake' = [handshake EXCEPT ![s] = "none"]
    /\ timer'     = [timer EXCEPT ![s] = FALSE]
    /\ UNCHANGED <<out, repeats, snd, rcv, buffer, ackPending, writes, pending, read>>

(* A handshake datagram that no decoder of the established state accepts.     *)
Stray(s, m) ==
    /\ s = "server" /\ state[s] = "Established" /\ m.kind \in {"syn", "ack"}
    /\ Arrives(s, m, 0)
    /\ UNCHANGED <<connection, writes, pending, read>>

(* An acknowledgement marks what it names, opens the congestion window, and   *)
(* may show packets to be lost, those it leaves too far behind and, early,    *)
(* some that are overdue.                                                     *)
process_ack(s, w, a, running, early) ==
    IF a.kind = "ack" /\ Reported(w, a) >= w.next
    THEN early = 0 /\ snd' = [snd EXCEPT ![s] = w] /\ timer' = running
    ELSE \E marked \in {mark_received(w, Named(w, a))} :
         \E grown  \in {on_ack(marked, InFlight(w) - InFlight(marked))} :
         \E n \in detect(grown) .. InFlight(grown) :
         \E lost \in {declare_lost(grown, n)} :
            /\ early = IF n > detect(grown) THEN 1 ELSE 0
            /\ snd'   = [snd EXCEPT ![s] = retire_ack_of_acks(lost, Reported(w, a))]
            /\ timer' = [timer EXCEPT ![s] = Unfinished(lost)]

process_ack_of_acks(r, m) ==
    IF m.aoa = None THEN r ELSE advance_base(r, reconstruct_seq(m.aoa, r.highest))

process_data(s, r, b) ==
    \E seq \in {reconstruct_seq(b.seq, r.highest)}, chan \in {reconstruct_seq(b.chan, r.chan)} :
        IF IsNew(r, s, seq, chan)
        THEN \E got \in {receive(r, seq, chan, b.data)} :
                /\ rcv'  = [rcv EXCEPT ![s] = drain_ordered(got)]
                /\ read' = [read EXCEPT ![s] = @ \o Ordered(got).data]
                /\ ackPending' = [ackPending EXCEPT ![s] = TRUE]
        ELSE rcv' = [rcv EXCEPT ![s] = r] /\ UNCHANGED <<read, ackPending>>

(* A packet: the window it announces, its acknowledgement, the AckOfAcks and  *)
(* then its data.  It also completes the handshake of a server.               *)
handle_v2_packet(s, m, early) ==
    /\ state[s] \in {"SynReceived", "Established"} /\ m.kind = "packet"
    /\ Arrives(s, m, early)
    /\ state'     = [state EXCEPT ![s] = "Established"]
    /\ handshake' = [handshake EXCEPT ![s] = IF s = "server" THEN "none" ELSE @]
    /\ \E w \in {[snd[s] EXCEPT !.max = m.window]},
          running \in {[timer EXCEPT ![s] = @ /\ state[s] = "Established"]} :
          IF m.acks # {} THEN \E a \in m.acks : process_ack(s, w, a, running, early)
          ELSE early = 0 /\ snd' = [snd EXCEPT ![s] = w] /\ timer' = running
    /\ \E r \in {process_ack_of_acks(rcv[s], m)} :
          IF m.body # {} THEN \E b \in m.body : process_data(s, r, b)
          ELSE rcv' = [rcv EXCEPT ![s] = r] /\ UNCHANGED <<read, ackPending>>
    /\ UNCHANGED <<out, repeats, buffer, writes, pending>>

-----------------------------------------------------------------------------
(* Timers.  Nothing is under way to a side that would answer: then time       *)
(* passes until a timer fires.                                                *)
Silent(s) == state[Peer(s)] # "Closed" /\ \A m \in net : state[m.to] = "Closed"

close(s) ==
    /\ state' = [state EXCEPT ![s] = "Closed"]
    /\ timer' = [timer EXCEPT ![s] = FALSE]
    /\ busy'  = "none"

handle_retransmit_timeout(s) ==
    /\ busy = "none" /\ timer[s] /\ state[s] = "Established"
    /\ IF Silent(s) THEN UNCHANGED plan ELSE Spend("early")
    /\ \E n \in {InFlight(snd[s])} \cup 1 .. InFlight(snd[s]) :
        \E w \in {declare_lost(snd[s], n)} :
            /\ snd'   = [snd EXCEPT ![s] = w]
            /\ timer' = [timer EXCEPT ![s] = Unfinished(w)]
    /\ busy' = s
    /\ UNCHANGED <<state, out, handshake, repeats, rcv, buffer, ackPending,
                   writes, pending, read, net>>

(* Variant: nothing is kept to repeat.                                        *)
retransmit_handshake_Once(s) ==
    /\ busy = "none" /\ timer[s] /\ state[s] \in {"SynSent", "SynReceived"}
    /\ IF Silent(s) THEN UNCHANGED plan ELSE Spend("early")
    /\ IF repeats[s] >= HandshakeLimit
       THEN close(s)
       ELSE busy' = s /\ UNCHANGED <<state, timer>>
    /\ UNCHANGED <<out, handshake, repeats, snd, rcv, buffer, ackPending, writes,
                   pending, read, net>>

retransmit_handshake(s) ==
    /\ busy = "none" /\ timer[s] /\ state[s] \in {"SynSent", "SynReceived"}
    /\ IF Silent(s) THEN UNCHANGED plan ELSE Spend("early")
    /\ IF repeats[s] >= HandshakeLimit
       THEN close(s) /\ UNCHANGED <<out, repeats>>
       ELSE /\ repeats' = [repeats EXCEPT ![s] = @ + 1]
            /\ resend_handshake_datagram(s)
            /\ busy' = s
            /\ UNCHANGED <<state, timer>>
    /\ UNCHANGED <<handshake, snd, rcv, buffer, ackPending, writes, pending, read, net>>

handle_keep_alive_timeout(s) ==
    /\ busy = "none" /\ state[s] \notin {"None", "Closed"}
    /\ Spend("probe")
    /\ ackPending' = [ackPending EXCEPT ![s] = TRUE]
    /\ busy' = s
    /\ UNCHANGED <<state, out, handshake, repeats, snd, rcv, buffer, timer,
                   writes, pending, read, net>>

(* The idle timer, or the stream that is shut down.                           *)
handle_idle_timeout(s) ==
    /\ busy = "none" /\ state[s] \notin {"None", "Closed"}
    /\ IF state[Peer(s)] = "Closed" THEN UNCHANGED plan ELSE Spend("close")
    /\ close(s)
    /\ UNCHANGED <<out, handshake, repeats, snd, rcv, buffer, ackPending,
                   writes, pending, read, net>>

Lose == /\ busy = "none"
        /\ \E m \in net : net' = net \ {m}
        /\ Spend("lose")
        /\ UNCHANGED <<connection, driver>>

-----------------------------------------------------------------------------
Transmit(s) == \/ SendHandshake(s) \/ try_retransmit(s) \/ try_send_new_data(s)
               \/ build_standalone_ack(s) \/ flush_pending_write(s)

handle_datagram(s, m) ==
    \/ accept(s, m) \/ handle_syn_ack(s, m) \/ HandshakeAgain(s, m)
    \/ handle_final_ack(s, m) \/ Stray(s, m)
    \/ \E early \in {0, 1} : handle_v2_packet(s, m, early)

Receive(s) == \E m \in net : handle_datagram(s, m)

Timeout(s) == handle_retransmit_timeout(s) \/ retransmit_handshake(s)

Next == \/ \E s \in Sides : \/ Transmit(s) \/ Receive(s) \/ queue_write(s) \/ Timeout(s)
                            \/ handle_keep_alive_timeout(s) \/ handle_idle_timeout(s)
        \/ Lose

Spec == Init /\ [][Next]_vars

(* The drivers keep running: datagrams that are not lost arrive, the streams  *)
(* are read, and a timer fires when nothing else happens.                     *)
Runs == \E s \in Sides : Transmit(s) \/ Receive(s) \/ queue_write(s)
                         \/ Timeout(s) \/ handle_idle_timeout(s)

FairSpec == Spec /\ WF_vars(Runs /\ plan'.faults["close"] = plan.faults["close"]
                                 /\ plan'.faults["early"] = plan.faults["early"])

-----------------------------------------------------------------------------
Sent(s) == FlattenSeq(SubSeq(Writes[s], 1, writes[s]))

Fifo == INSTANCE Fifo WITH Ends <- Sides,
                           sent <- [s \in Sides |-> Sent(s)],
                           got  <- [s \in Sides |-> read[Peer(s)]],
                           open <- {s \in Sides : state[s] # "Closed"}

(* The transport is a FIFO channel in each direction: what the reader of one  *)
(* end gets out of read_buf is, in order and without a gap, what the other    *)
(* end's stream wrote, whatever is lost, repeated, reordered or retransmitted *)
(* under a new number.                                                        *)
IsFifo == Fifo!FifoSpec

(* Both ends are open.                                                        *)
Live == \A s \in Sides : state[s] = "Established"

(* What a side may write.                                                     *)
Pieces(s) == UNION {Range(Writes[s][i]) : i \in DOMAIN Writes[s]}

(* Every counter, window and queue has its type; the reorder buffer and the   *)
(* window behind an acknowledgement stay within the announced window, and the *)
(* sender never has more outstanding than the receiver can tell apart.        *)
TypeOK ==
    /\ state \in [Sides -> {"None", "SynSent", "SynReceived", "Established", "Closed"}]
    /\ handshake \in [Sides -> {"none", "syn", "synack", "ack"}]
    /\ repeats \in [Sides -> 0 .. HandshakeLimit]
    /\ ackPending \in [Sides -> BOOLEAN] /\ timer \in [Sides -> BOOLEAN]
    /\ busy \in Sides \cup {"none"}
    /\ \A s \in Sides :
        /\ out[s] \in Seq({"syn", "synack", "ack"})
        /\ {buffer[s], pending[s]} \subseteq Seq(Pieces(s)) /\ read[s] \in Seq(Pieces(Peer(s)))
        /\ {snd[s].next, snd[s].chan, snd[s].cwnd, snd[s].acked, snd[s].max} \subseteq Nat
        /\ {rcv[s].base, rcv[s].highest, rcv[s].chan} \cup rcv[s].held \subseteq Nat
        /\ Cardinality(rcv[s].reorder) =< Window[s]
        /\ \A n \in rcv[s].held : n - rcv[s].base < Window[s]
        /\ Live => Len(snd[s].win) =< Max({Window[s], Window[Peer(s)]})

WithReceiver(s) == Range(read[Peer(s)]) \cup {p.data : p \in rcv[Peer(s)].reorder}

Waits(s) == [i \in DOMAIN Waiting(snd[s]) |-> Waiting(snd[s])[i].data]
            \o [i \in DOMAIN snd[s].queue |-> snd[s].queue[i].data]

(* What send accepted is never dropped while both ends are open: each piece   *)
(* is in the send buffer or held back, waits in the send window, queues for   *)
(* retransmission, or is with the receiver; it waits in one place only.       *)
NothingForgotten ==
    Live => \A s \in Sides :
        /\ Range(Sent(s)) = Range(buffer[s]) \cup Range(pending[s])
                            \cup Range(Waits(s)) \cup WithReceiver(s)
        /\ Cardinality(Range(Waits(s))) = Len(Waits(s))

(* A number the receiver still waits for is one the sender still waits for    *)
(* too, or the sender keeps telling the receiver to step over it.             *)
HolesAdvertised ==
    Live => \A s \in Sides :
        \A n \in rcv[Peer(s)].base .. snd[s].next - 1 :
            \/ n \in rcv[Peer(s)].held
            \/ \E i \in DOMAIN snd[s].win : snd[s].win[i].seq = n /\ ~snd[s].win[i].acked
            \/ snd[s].aoa > n

(* Every handshake ends: both ends are established, or one has closed.        *)
HandshakeSettles == <>(Live \/ \E s \in Sides : state[s] = "Closed")

(* Everything written is read at the other end, unless an end closes.         *)
EverythingArrives ==
    \A s \in Sides : (Sent(s) # read[Peer(s)])
                     ~> (Sent(s) = read[Peer(s)] \/ \E t \in Sides : state[t] = "Closed")

(* Loss, repetition and reordering delay an end and never hang it: every      *)
(* handshake ends and everything written arrives, or an end has closed.       *)
Settles == HandshakeSettles /\ EverythingArrives
=============================================================================

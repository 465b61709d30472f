------------------------------ MODULE Dynamic ------------------------------
(***************************************************************************)
(* The dynamic virtual channels of one connection, and their move from the *)
(* main connection (TCP) to the RDP-UDP tunnel.                            *)
(*                                                                         *)
(* Five parties take part.                                                 *)
(*                                                                         *)
(*   dvc    the channel manager of the server, DrdynvcServer               *)
(*          (ironrdp-dvc/src/server.rs): which channels exist, and the     *)
(*          state of the Soft-Sync that moves them;                        *)
(*   srv    the client loop of the server (ironrdp-server/src/server.rs):  *)
(*          one task reads PDUs, one dispatches events, one draws.  The    *)
(*          first two take turns under one lock; when the third ends the   *)
(*          loop (a new desktop size), the other two are dropped wherever  *)
(*          they wait;                                                     *)
(*   tun    the tunnel task (linrdp/src/udp.rs), which feeds `events` with *)
(*          what the client sent through UDP and drains `queue`;           *)
(*   mic    the microphone watcher (linrdp/src/mic.rs), the one party that *)
(*          opens and closes channels at run time;                         *)
(*   cli    the channel manager of the client, DrdynvcClient               *)
(*          (ironrdp-dvc/src/client.rs).                                   *)
(*                                                                         *)
(* TCP and the tunnel each keep their own order, and nothing orders one    *)
(* against the other.  Channels 0 .. Preset - 1 are registered when the    *)
(* connection starts; the others are microphone channels.  The content of  *)
(* a message is its number among the messages of its channel and sender.   *)
(***************************************************************************)
EXTENDS Integers, Sequences, FiniteSets, SequencesExt

CONSTANTS
    Preset,       \* how many channels the connection starts with
    Recordings,   \* bound: how often an application starts recording
    QueueRoom,    \* TUNNEL_QUEUE, the messages the tunnel task may lag behind
    EarlyMax,     \* MAX_EARLY_TUNNEL_FRAMES
    Scenarios     \* bounds on what the environment does, one of which applies

(* The bounds of a scenario: recordings, messages of the server and of the *)
(* client on one channel, new desktop sizes, tunnels built, tunnels lost,  *)
(* channels the client closes on its own, and whether the processor of a   *)
(* channel may ask for its end.                                            *)
Scenario == [recordings : 0 .. Recordings, out : Nat, in : Nat, resizes : Nat,
             tunnels : {0, 1}, losses : {0, 1}, closes : Nat, quits : {0, 1}]

ASSUME DynamicAssumption ==
    /\ Preset \in Nat \ {0} /\ Recordings \in Nat
    /\ QueueRoom \in Nat \ {0} /\ EarlyMax \in Nat \ {0}
    /\ Scenarios \subseteq Scenario

VARIABLES plan, dvc, srv, events, tun, queue, mic, cli, tcp, udp, said, heard

vars == <<plan, dvc, srv, events, tun, queue, mic, cli, tcp, udp, said, heard>>

(* The watcher asks for at most one channel per recording. *)
Ids == 0 .. Preset + Recordings - 1
Mics == Preset .. Preset + Recordings - 1

-----------------------------------------------------------------------------
(* PDUs of the drdynvc channel, and the two others that share its TCP      *)
(* connection: the Deactivate All that precedes a new size with the end of *)
(* the client's answer to it ("ready"), and the Multitransport Response.   *)

Pdu(t, ch) == [t |-> t, ch |-> ch, n |-> 0]
Data(ch, n) == [t |-> "data", ch |-> ch, n |-> n]
Bare(t) == Pdu(t, 0)

-----------------------------------------------------------------------------
(* The channel manager of the server.                                      *)

NewDvc ==
    [caps |-> FALSE,
     chan |-> [id \in Ids |-> IF id < Preset THEN "Pending" ELSE "None"],
     next |-> Preset,
     sync |-> "Idle",            \* then "Active", then "Answered"
     out |-> {}, in |-> {},
     early |-> << >>]

(* A plausible slip: the routes of a channel outlive it. *)
remove_by_channel_id_Routed(d, id) == [d EXCEPT !.chan[id] = "None"]

open_channel_ids(d) == {id \in Ids : d.chan[id] = "Opened"}
creations_outstanding(d) == \E id \in Ids : d.chan[id] \in {"Pending", "Creation", "Closing"}
soft_sync_response_received(d) == d.sync = "Answered"
tunnels_channels(d) == d.out # {}

remove_by_channel_id(d, id) ==
    [d EXCEPT !.out = @ \ {id}, !.in = @ \ {id}, !.chan[id] = "None"]

(* What one call of the manager did: the manager after it, the PDUs to     *)
(* write, whether it failed, and what it did to the world outside: the     *)
(* messages its processors took, the processors it told of their end.      *)
Done(d, pdus) == [d |-> d, pdus |-> pdus, err |-> FALSE, took |-> << >>, told |-> {}]
Failed(d) == [Done(d, << >>) EXCEPT !.err = TRUE]

(* Dropping an open channel tells its processor. *)
Drop(d, id) == IF d.chan[id] = "Opened" THEN {<<id, "closed">>} ELSE {}

(* With the capability exchange still to come the channel waits for it. *)
create_channel_with_id(d) ==
    IF d.caps
    THEN Done([d EXCEPT !.chan[d.next] = "Creation", !.next = @ + 1],
              <<Pdu("create", d.next)>>)
    ELSE Done([d EXCEPT !.chan[d.next] = "Pending", !.next = @ + 1], << >>)

(* "Closing" is Creation with close_when_created set. *)
close_channel(d, id) ==
    CASE d.chan[id] \in {"Creation", "Closing"} -> Done([d EXCEPT !.chan[id] = "Closing"], << >>)
      [] d.chan[id] \in {"Pending", "Failed"} -> Done(remove_by_channel_id(d, id), << >>)
      [] d.chan[id] = "Opened" ->
            [Done(remove_by_channel_id(d, id), <<Pdu("close", id)>>)
                EXCEPT !.told = Drop(d, id)]
      [] OTHER -> Done(d, << >>)

request_reliable_udp(d) ==
    [d EXCEPT !.out = open_channel_ids(d), !.sync = "Active"]

(* A channel's processor takes a message, and answers it or not, or asks   *)
(* for the channel's end (close_requested): then the answer is the close.  *)
process_data(d, pdu, answers) ==
    IF d.chan[pdu.ch] # "Opened" THEN Failed(d)
    ELSE IF answers = <<Pdu("close", pdu.ch)>>
    THEN [Done(remove_by_channel_id(d, pdu.ch), answers)
             EXCEPT !.took = <<pdu>>, !.told = Drop(d, pdu.ch)]
    ELSE [Done(d, answers) EXCEPT !.took = <<pdu>>]

read_tunnel_frame(d, pdu, answers) ==
    CASE pdu.t = "data" ->
            IF d.chan[pdu.ch] # "Opened" THEN Done(d, << >>) ELSE process_data(d, pdu, answers)
      [] pdu.t = "close" ->
            [Done(remove_by_channel_id(d, pdu.ch), << >>) EXCEPT !.told = Drop(d, pdu.ch)]
      [] OTHER -> Done(d, << >>)

process_tunnel(d, pdu, answers) ==
    IF soft_sync_response_received(d) THEN read_tunnel_frame(d, pdu, answers)
    ELSE IF Len(d.early) >= EarlyMax THEN Failed(d)
    ELSE Done([d EXCEPT !.early = Append(@, pdu)], << >>)

(* The frames that waited are read in order, each with its own answers;    *)
(* none but data waits there.  A frame is passed over when its channel is  *)
(* not open, or has been ended upon an earlier frame.                      *)
EndedBy(d, answers, i) == answers[i] = <<Pdu("close", d.early[i].ch)>>

Released(d, answers) ==
    SelectSeq([i \in DOMAIN d.early |-> i], LAMBDA i :
        /\ d.chan[d.early[i].ch] = "Opened"
        /\ \A j \in 1 .. i - 1 : d.early[j].ch = d.early[i].ch => ~EndedBy(d, answers, j))

EndedBySome(d, answers) ==
    {d.early[i].ch : i \in {j \in Range(Released(d, answers)) : EndedBy(d, answers, j)}}

process_soft_sync_response(d, pdu, answers) ==
    LET read == Released(d, answers)
        ended == EndedBySome(d, answers)
    IN IF d.sync # "Active" THEN Done(d, << >>)
       ELSE [Done([d EXCEPT !.in = IF pdu.n = 1 THEN d.out \ ended ELSE {},
                            !.out = @ \ ended,
                            !.chan = [id \in Ids |-> IF id \in ended THEN "None" ELSE @[id]],
                            !.sync = "Answered", !.early = << >>],
                  FlattenSeq([k \in DOMAIN read |-> answers[read[k]]]))
                EXCEPT !.took = [k \in DOMAIN read |-> d.early[read[k]]],
                       !.told = UNION {Drop(d, id) : id \in ended}]

Requests(ids) ==
    SetToSortSeq({Pdu("create", id) : id \in ids}, LAMBDA a, b : a.ch < b.ch)

OnCapabilities(d) ==
    LET asked == {id \in Ids : d.chan[id] = "Pending"}
    IN Done([d EXCEPT !.caps = TRUE,
                      !.chan = [id \in Ids |-> IF id \in asked THEN "Creation" ELSE @[id]]],
            Requests(asked))

(* A plausible slip: a channel closed early is forgotten, not closed. *)
OnCreated_Forgets(d, pdu, answers) ==
    LET id == pdu.ch
    IN IF d.chan[id] \notin {"Creation", "Closing"} THEN Failed(d)
       ELSE IF pdu.n = 0
       THEN [Done([d EXCEPT !.chan[id] = "Failed"], << >>) EXCEPT !.told = {<<id, "refused">>}]
       ELSE IF d.chan[id] = "Closing" THEN Done(remove_by_channel_id(d, id), << >>)
       ELSE Done([d EXCEPT !.chan[id] = "Opened"], answers)

(* n = 1: the client created the channel, and its processor starts, with a *)
(* message or without.                                                     *)
OnCreated(d, pdu, answers) ==
    LET id == pdu.ch
    IN IF d.chan[id] \notin {"Creation", "Closing"} THEN Failed(d)
       ELSE IF pdu.n = 0
       THEN [Done([d EXCEPT !.chan[id] = "Failed"], << >>) EXCEPT !.told = {<<id, "refused">>}]
       ELSE IF d.chan[id] = "Closing"
       THEN Done(remove_by_channel_id(d, id), <<Pdu("close", id)>>)
       ELSE Done([d EXCEPT !.chan[id] = "Opened"], answers)

process(d, pdu, answers) ==
    CASE pdu.t = "caps" -> OnCapabilities(d)
      [] pdu.t = "created" -> OnCreated(d, pdu, answers[1])
      [] pdu.t = "close" -> [Done(remove_by_channel_id(d, pdu.ch), << >>)
                                EXCEPT !.told = Drop(d, pdu.ch)]
      [] pdu.t = "data" -> process_data(d, pdu, answers[1])
      [] pdu.t = "synced" -> process_soft_sync_response(d, pdu, answers)
      [] OTHER -> Failed(d)

-----------------------------------------------------------------------------
(* The client loop.  A handler that writes may have to wait, for the       *)
(* writer or for room in the tunnel's queue, with the lock held: `job` is  *)
(* what is left of its writing.                                            *)

Nothing == [direct |-> << >>, tunneled |-> << >>, sending |-> << >>]

NewSrv ==
    [run |-> "active",           \* or "reactivating", "ended"
     why |-> "",                 \* what ended it
     tunnel |-> FALSE,           \* udp_tunnel_tx is installed
     pending |-> FALSE,          \* pending_soft_sync
     confirmed |-> FALSE,        \* multitransport_confirmed
     backlog |-> << >>,          \* tunnel_backlog
     lock |-> "free",            \* or the task that holds it, "pdu" or "events"
     hand |-> << >>,             \* a PDU read while the lock was taken
     batch |-> << >>,            \* events received and not yet dispatched
     job |-> Nothing,
     resizes |-> 0]

Ended(s, why) ==
    [s EXCEPT !.run = "ended", !.why = why, !.lock = "free",
              !.hand = << >>, !.batch = << >>, !.job = Nothing]

(* The manager and the loop after a step of a handler. *)
Both(d, s) == [d |-> d, s |-> s]

Moved(d, pdu) == pdu.t = "data" /\ pdu.ch \in d.out

Direct(d, pdus) == SelectSeq(pdus, LAMBDA p : ~Moved(d, p))
Tunneled(d, pdus) == SelectSeq(pdus, LAMBDA p : Moved(d, p))

route_dvc_messages(d, s, pdus) ==
    [s EXCEPT !.job = [direct |-> Direct(d, pdus), tunneled |-> Tunneled(d, pdus),
                       sending |-> << >>]]

(* A plausible slip: the tunnel is up, so its data need not wait. *)
flush_tunnel_backlog_Eager(d, s) ==
    [s EXCEPT !.backlog = << >>, !.job.sending = s.backlog]

flush_tunnel_backlog(d, s) ==
    IF soft_sync_response_received(d)
    THEN [s EXCEPT !.backlog = << >>, !.job.sending = s.backlog]
    ELSE s

(* A plausible slip: new data goes ahead of the data held back. *)
Hold_Past(d, s) ==
    flush_tunnel_backlog(d, [s EXCEPT !.backlog = s.job.tunneled \o @, !.job = Nothing])

(* The end of a write over TCP: tunneled data joins what is held back. *)
Hold(d, s) ==
    flush_tunnel_backlog(d, [s EXCEPT !.backlog = @ \o s.job.tunneled, !.job = Nothing])

Waits(s) == s.job # Nothing

(* Starts write_dvc_messages, up to the first place where it may wait. *)
write_dvc_messages(d, s, pdus) ==
    LET routed == route_dvc_messages(d, s, pdus)
    IN IF routed.job.direct = << >> THEN Hold(d, routed) ELSE routed

(* A plausible slip: a channel is open, so there is something to move. *)
soft_sync_Hasty(d, s) ==
    IF open_channel_ids(d) = {}
    THEN Both(d, [s EXCEPT !.pending = TRUE])
    ELSE IF d.sync # "Idle" THEN Both(d, Ended(s, "second request"))
    ELSE LET moved == request_reliable_udp(d)
             ask == [t |-> "sync", ch |-> 0, n |-> 0, ids |-> moved.out]
         IN Both(moved, write_dvc_messages(moved, [s EXCEPT !.tunnel = TRUE], <<ask>>))

(* The client is asked to move every open channel, once no other is being  *)
(* created; until then the tunnel waits.                                   *)
soft_sync(d, s) ==
    IF open_channel_ids(d) = {} \/ creations_outstanding(d)
    THEN Both(d, [s EXCEPT !.pending = TRUE])
    ELSE IF d.sync # "Idle" THEN Both(d, Ended(s, "second request"))
    ELSE LET moved == request_reliable_udp(d)
             ask == [t |-> "sync", ch |-> 0, n |-> 0, ids |-> moved.out]
         IN Both(moved, write_dvc_messages(moved, [s EXCEPT !.tunnel = TRUE], <<ask>>))

resume_soft_sync(d, s) ==
    IF s.confirmed /\ s.pending THEN soft_sync(d, [s EXCEPT !.pending = FALSE]) ELSE Both(d, s)

(* The handler has nothing left to write.  The handler of a PDU ends by    *)
(* looking at a Soft-Sync that waits, and the lock goes back unless that   *)
(* writes; the dispatcher keeps it until its batch is done.                *)
Finish(d, s) ==
    IF Waits(s) \/ s.run = "ended" THEN Both(d, s)
    ELSE IF s.lock = "events"
    THEN Both(d, [s EXCEPT !.lock = IF s.batch = << >> THEN "free" ELSE @])
    ELSE LET r == resume_soft_sync(d, s)
         IN Both(r.d, [r.s EXCEPT !.lock = IF Waits(r.s) THEN @ ELSE "free"])

(* A plausible slip: a PDU without an answer leaves nothing to write. *)
Carry_Idle(r, s, why) ==
    IF r.err THEN Both(r.d, Ended(s, why))
    ELSE IF r.pdus = << >> THEN Finish(r.d, s)
    ELSE Finish(r.d, write_dvc_messages(r.d, s, r.pdus))

(* A call of the manager from the task s.lock: what it answers is written, *)
(* and its processors' traces are noted.                                   *)
Carry(r, s, why) ==
    IF r.err THEN Both(r.d, Ended(s, why))
    ELSE IF r.pdus = << >> /\ s.lock = "events" THEN Finish(r.d, s)
    ELSE Finish(r.d, write_dvc_messages(r.d, s, r.pdus))

Become(b) == dvc' = b.d /\ srv' = b.s

Numbers(pdus, id) ==
    LET own == SelectSeq(pdus, LAMBDA p : p.t = "data" /\ p.ch = id)
    IN [i \in 1 .. Len(own) |-> own[i].n]

Trace(r) ==
    /\ heard' = [heard EXCEPT !.srv = [id \in Ids |-> @[id] \o Numbers(r.took, id)]]
    /\ said' = [said EXCEPT !.srv = [id \in Ids |-> @[id] + Len(Numbers(r.pdus, id))]]
    /\ mic' = [mic EXCEPT !.fate = [id \in Ids |->
                IF \E f \in r.told : f[1] = id THEN (CHOOSE f \in r.told : f[1] = id)[2] ELSE @[id]]]

-----------------------------------------------------------------------------
NewMic ==
    [channel |-> {},             \* the id, once assigned
     requested |-> FALSE,
     reply |-> "none",           \* then "waiting", "given" or "dropped"
     current |-> FALSE,          \* the watcher answers for a channel
     unavailable |-> FALSE, wait_for_stop |-> FALSE, idle |-> FALSE,
     fate |-> [id \in Ids |-> ""],
     given |-> {},               \* what the reply says
     recording |-> FALSE, recordings |-> 0]

NewCli ==
    [caps |-> FALSE, active |-> {}, moved |-> {}, synced |-> FALSE,
     tunnel |-> "none",          \* then "ok" or "no", as the client reported
     fail |-> "", closes |-> 0]

Init ==
    /\ plan \in Scenarios
    /\ dvc = NewDvc /\ srv = NewSrv /\ mic = NewMic /\ cli = NewCli
    /\ events = << >> /\ tun = "none" /\ queue = << >>
    /\ tcp = [up |-> << >>, down |-> <<Bare("caps")>>]
    /\ udp = [up |-> << >>, down |-> << >>]
    /\ said = [srv |-> [id \in Ids |-> 0], cli |-> [id \in Ids |-> 0]]
    /\ heard = [srv |-> [id \in Ids |-> << >>], cli |-> [id \in Ids |-> << >>]]

(* What the processors of channels say to messages, one after the other:   *)
(* nothing, a message of their own, or that the channel is to end.  Only   *)
(* the graphics pipeline asks for that, which has no answer then.          *)
Reply(pdus, how) ==
    [i \in DOMAIN pdus |->
        LET ch == pdus[i].ch
            before == {j \in 1 .. i : pdus[j].ch = ch /\ how[j] = "answers"}
        IN CASE how[i] = "answers" -> <<Data(ch, said.srv[ch] + Cardinality(before))>>
             [] how[i] = "ends" -> <<Pdu("close", ch)>>
             [] OTHER -> << >>]

Sayings(pdu) ==
    CASE pdu.t = "created" /\ pdu.ch \in Mics -> {"answers"}
      [] pdu.t = "created" /\ pdu.ch \notin Mics -> {"nothing", "answers"}
      [] pdu.t = "data" /\ pdu.ch \notin Mics ->
            {"nothing", "answers"} \cup (IF plan.quits > 0 THEN {"ends"} ELSE {})
      [] OTHER -> {"nothing"}

(* What the server may answer to a PDU, or to the frames it releases.      *)
Replies(pdu) ==
    LET pdus == IF pdu.t = "synced" THEN dvc.early ELSE <<pdu>>
        hows == {how \in [DOMAIN pdus -> {"nothing", "answers", "ends"}] :
                    \A i \in DOMAIN pdus : how[i] \in Sayings(pdus[i])}
    IN {reply \in {Reply(pdus, how) : how \in hows} :
            \A i \in DOMAIN pdus : \A p \in Range(reply[i]) :
                p.t = "data" /\ p.ch \notin Mics => p.n <= plan.out}

-----------------------------------------------------------------------------
(* The task that reads PDUs.                                               *)

on_multitransport_response(s, pdu) ==
    IF pdu.t = "mtok" THEN [s EXCEPT !.confirmed = TRUE] ELSE [s EXCEPT !.pending = FALSE]

handle_x224(pdu, s) ==
    IF pdu.t \in {"mtok", "mtno"}
    THEN /\ Become(Finish(dvc, on_multitransport_response(s, pdu)))
         /\ UNCHANGED <<heard, said, mic>>
    ELSE \E answers \in Replies(pdu) : \E r \in {process(dvc, pdu, answers)} :
            Become(Carry(r, s, pdu.t)) /\ Trace(r)

(* With the lock free a PDU is handled as it is read; otherwise it waits.  *)
dispatch_pdu ==
    /\ srv.run = "active"
    /\ IF srv.hand # << >>
       THEN /\ srv.lock = "free"
            /\ handle_x224(srv.hand[1], [srv EXCEPT !.lock = "pdu", !.hand = << >>])
            /\ UNCHANGED tcp
       ELSE /\ tcp.up # << >>
            /\ tcp' = [tcp EXCEPT !.up = Tail(@)]
            /\ IF srv.lock = "free"
               THEN handle_x224(Head(tcp.up), [srv EXCEPT !.lock = "pdu"])
               ELSE /\ srv' = [srv EXCEPT !.hand = <<Head(tcp.up)>>]
                    /\ srv.lock = "events"
                    /\ UNCHANGED <<dvc, heard, said, mic>>
    /\ UNCHANGED <<plan, events, tun, queue, cli, udp>>

-----------------------------------------------------------------------------
(* The task that dispatches events.                                        *)

Event(t, x) == [t |-> t, x |-> x]

SoftSyncToUdp(s) ==
    /\ Become(IF s.tunnel \/ tunnels_channels(dvc) THEN Finish(dvc, s)
              ELSE IF ~s.confirmed THEN Finish(dvc, [s EXCEPT !.pending = TRUE])
              ELSE LET b == soft_sync(dvc, s) IN Finish(b.d, b.s))
    /\ UNCHANGED <<heard, said, mic>>

OpenDynamicChannel(s) ==
    \E r \in {create_channel_with_id(dvc)} :
        /\ Become(Carry(r, s, "open"))
        /\ mic' = [mic EXCEPT !.reply = "given", !.given = {dvc.next}]
        /\ UNCHANGED <<heard, said>>

CloseDynamicChannel(s, id) ==
    \E r \in {close_channel(dvc, id)} : Become(Carry(r, s, "close")) /\ Trace(r)

UdpTunnelClosed(s) ==
    /\ Become(IF tunnels_channels(dvc) THEN Both(dvc, Ended(s, "tunnel"))
              ELSE Finish(dvc, [s EXCEPT !.tunnel = FALSE, !.pending = FALSE]))
    /\ UNCHANGED <<heard, said, mic>>

UdpTunnelData(s, pdu) ==
    \E answers \in Replies(pdu) : \E r \in {process_tunnel(dvc, pdu, answers[1])} :
        Become(Carry(r, s, "tunnel data")) /\ Trace(r)

(* Output of a channel's own side of the server, such as the graphics      *)
(* pipeline; it is dropped when its channel is not open any more.          *)
SendMessages(s, id) ==
    \E r \in {Done(dvc, IF dvc.chan[id] = "Opened" /\ said.srv[id] < plan.out
                        THEN <<Data(id, said.srv[id] + 1)>> ELSE << >>)} :
        Become(Carry(r, s, "output")) /\ Trace(r)

dispatch(e, s) ==
    \/ e.t = "sync" /\ SoftSyncToUdp(s)
    \/ e.t = "open" /\ OpenDynamicChannel(s)
    \/ e.t = "close" /\ CloseDynamicChannel(s, e.x)
    \/ e.t = "closed" /\ UdpTunnelClosed(s)
    \/ e.t = "frame" /\ UdpTunnelData(s, e.x)
    \/ e.t = "output" /\ SendMessages(s, e.x)

(* All the events there are make one batch, and the lock is held until it  *)
(* is done.                                                                *)
dispatch_server_events ==
    /\ srv.run = "active"
    /\ \/ /\ srv.lock = "free" /\ srv.batch = << >> /\ events # << >>
          /\ dispatch(Head(events), [srv EXCEPT !.lock = "events", !.batch = Tail(events)])
          /\ events' = << >>
       \/ /\ srv.lock = "pdu" /\ srv.batch = << >> /\ events # << >>
          /\ srv' = [srv EXCEPT !.batch = events]
          /\ events' = << >>
          /\ UNCHANGED <<dvc, heard, said, mic>>
       \/ /\ srv.batch # << >>
          /\ srv.lock = "free" \/ (srv.lock = "events" /\ ~Waits(srv))
          /\ dispatch(Head(srv.batch), [srv EXCEPT !.lock = "events", !.batch = Tail(@)])
          /\ UNCHANGED events
    /\ UNCHANGED <<plan, tun, queue, cli, tcp, udp>>

(* The writer is free: what goes over TCP is written. *)
WriteDirect ==
    /\ srv.run = "active" /\ srv.job.direct # << >>
    /\ tcp' = [tcp EXCEPT !.down = @ \o srv.job.direct]
    /\ Become(Finish(dvc, Hold(dvc, srv)))
    /\ UNCHANGED <<plan, events, tun, queue, mic, cli, udp, said, heard>>

(* The queue has room, or the tunnel task is gone, which ends the session. *)
send_to_tunnel ==
    /\ srv.run = "active" /\ srv.job.direct = << >> /\ srv.job.sending # << >>
    /\ \/ /\ tun = "up" /\ Len(queue) < QueueRoom
          /\ queue' = Append(queue, Head(srv.job.sending))
          /\ Become(Finish(dvc, [srv EXCEPT !.job.sending = Tail(@)]))
       \/ /\ tun # "up"
          /\ srv' = Ended(srv, "tunnel")
          /\ UNCHANGED <<dvc, queue>>
    /\ UNCHANGED <<plan, events, tun, mic, cli, tcp, udp, said, heard>>

(* A new desktop size: the display task writes Deactivate All and ends the *)
(* loop.  The two others are dropped where they wait, with the PDU and the *)
(* events they hold.                                                       *)
Suspended ==
    \/ srv.lock = "free" /\ srv.hand = << >> /\ srv.batch = << >>
    \/ srv.job.direct # << >>
    \/ srv.job.sending # << >> /\ tun = "up" /\ Len(queue) = QueueRoom

Resize ==
    /\ srv.run = "active" /\ srv.resizes < plan.resizes /\ Suspended
    /\ srv' = [srv EXCEPT !.run = "reactivating", !.lock = "free", !.hand = << >>,
                          !.batch = << >>, !.job = Nothing, !.resizes = @ + 1]
    /\ tcp' = [tcp EXCEPT !.down = Append(@, Bare("deactivate"))]
    /\ mic' = [mic EXCEPT !.reply = IF \E e \in Range(srv.batch) : e.t = "open" THEN "dropped" ELSE @]
    /\ UNCHANGED <<plan, dvc, events, tun, queue, cli, udp, said, heard>>

(* Until the client has answered the Demand Active, the acceptor reads:    *)
(* PDUs of static channels are passed over, and message channel PDUs kept. *)
Reactivate ==
    /\ srv.run = "reactivating" /\ tcp.up # << >>
    /\ tcp' = [tcp EXCEPT !.up = Tail(@)]
    /\ srv' = CASE Head(tcp.up).t = "ready" -> [srv EXCEPT !.run = "active"]
                [] Head(tcp.up).t \in {"mtok", "mtno"} -> on_multitransport_response(srv, Head(tcp.up))
                [] OTHER -> srv
    /\ UNCHANGED <<plan, dvc, events, tun, queue, mic, cli, udp, said, heard>>

-----------------------------------------------------------------------------
(* The tunnel task.                                                        *)

(* Accepted: the server is given the way into the tunnel. *)
serve_tunnel ==
    /\ tun = "none" /\ plan.tunnels > 0 /\ srv.run # "ended"
    /\ tun' = "up"
    /\ events' = Append(events, Event("sync", 0))
    /\ UNCHANGED <<plan, dvc, srv, queue, mic, cli, tcp, udp, said, heard>>

TunnelReceives ==
    /\ tun = "up" /\ udp.up # << >>
    /\ udp' = [udp EXCEPT !.up = Tail(@)]
    /\ events' = Append(events, Event("frame", Head(udp.up)))
    /\ UNCHANGED <<plan, dvc, srv, tun, queue, mic, cli, tcp, said, heard>>

TunnelSends ==
    /\ tun = "up" /\ queue # << >>
    /\ queue' = Tail(queue)
    /\ udp' = [udp EXCEPT !.down = Append(@, Head(queue))]
    /\ UNCHANGED <<plan, dvc, srv, events, tun, mic, cli, tcp, said, heard>>

(* Nobody can send into the tunnel any more. *)
SenderGone ==
    /\ ~srv.tunnel /\ ~srv.pending
    /\ \A e \in Range(events) \cup Range(srv.batch) : e.t # "sync"

Down ==
    /\ tun' = "closed" /\ queue' = << >>
    /\ udp' = [up |-> << >>, down |-> << >>]
    /\ events' = Append(events, Event("closed", 0))
    /\ UNCHANGED <<plan, dvc, srv, mic, cli, tcp, said, heard>>

TunnelUnused == tun = "up" /\ queue = << >> /\ SenderGone /\ Down

TunnelLost == tun = "up" /\ plan.losses > 0 /\ Down

-----------------------------------------------------------------------------
(* The microphone watcher.                                                 *)

RecordingStarts ==
    /\ ~mic.recording /\ mic.recordings < plan.recordings
    /\ mic' = [mic EXCEPT !.recording = TRUE, !.recordings = @ + 1]
    /\ UNCHANGED <<plan, dvc, srv, events, tun, queue, cli, tcp, udp, said, heard>>

RecordingStops ==
    /\ mic.recording
    /\ mic' = [mic EXCEPT !.recording = FALSE]
    /\ UNCHANGED <<plan, dvc, srv, events, tun, queue, cli, tcp, udp, said, heard>>

assigned(m) ==
    CASE m.reply = "given" ->
            [m EXCEPT !.reply = "none", !.channel = m.given, !.given = {}, !.requested = FALSE]
      [] m.reply = "dropped" ->
            [m EXCEPT !.reply = "none", !.requested = FALSE, !.unavailable = TRUE, !.current = FALSE]
      [] OTHER -> m

refused(m) == [m EXCEPT !.channel = {}, !.unavailable = TRUE, !.current = FALSE]

closed_by_client(m) ==
    [m EXCEPT !.channel = {}, !.idle = FALSE, !.wait_for_stop = TRUE, !.current = FALSE]

Learn(m) ==
    IF ~m.current THEN m
    ELSE IF \E id \in m.channel : m.fate[id] = "refused" THEN refused(m)
    ELSE IF \E id \in m.channel : m.fate[id] = "closed" THEN closed_by_client(m)
    ELSE m

Stay(m) ==
    /\ mic' = m
    /\ UNCHANGED events

(* A plausible slip: a channel is asked for until there is one. *)
next_Asks(m) ==
    IF m.channel = {}
    THEN IF m.recording /\ ~m.unavailable /\ ~m.wait_for_stop
         THEN /\ mic' = [m EXCEPT !.requested = TRUE, !.reply = "waiting", !.current = TRUE]
              /\ events' = Append(events, Event("open", 0))
         ELSE Stay(m)
    ELSE IF m.recording THEN Stay([m EXCEPT !.idle = FALSE])
    ELSE IF ~m.idle THEN Stay([m EXCEPT !.idle = TRUE])
    ELSE /\ mic' = [m EXCEPT !.channel = {}, !.idle = FALSE, !.current = FALSE]
         /\ \E id \in m.channel : events' = Append(events, Event("close", id))

(* Control::next and what the watcher does about it.  An open channel      *)
(* nobody records from is closed at a later turn, once CLOSE_DELAY has     *)
(* passed.                                                                 *)
next(m) ==
    IF m.channel = {}
    THEN IF ~m.requested /\ m.recording /\ ~m.unavailable /\ ~m.wait_for_stop
         THEN /\ mic' = [m EXCEPT !.requested = TRUE, !.reply = "waiting", !.current = TRUE]
              /\ events' = Append(events, Event("open", 0))
         ELSE Stay(m)
    ELSE IF m.recording THEN Stay([m EXCEPT !.idle = FALSE])
    ELSE IF ~m.idle THEN Stay([m EXCEPT !.idle = TRUE])
    ELSE /\ mic' = [m EXCEPT !.channel = {}, !.idle = FALSE, !.current = FALSE]
         /\ \E id \in m.channel : events' = Append(events, Event("close", id))

tick ==
    /\ srv.run # "ended"
    /\ \E learnt \in {Learn(assigned(mic))} :
        next([learnt EXCEPT !.wait_for_stop = @ /\ learnt.recording])
    /\ UNCHANGED <<plan, dvc, srv, tun, queue, cli, tcp, udp, said, heard>>

(* The server's own side of a channel has output. *)
HasOutput(id) ==
    /\ srv.run # "ended" /\ id \notin Mics /\ dvc.chan[id] = "Opened"
    /\ said.srv[id] + Cardinality({i \in 1 .. Len(events) : events[i] = Event("output", id)}) < plan.out
    /\ events' = Append(events, Event("output", id))
    /\ UNCHANGED <<plan, dvc, srv, tun, queue, mic, cli, tcp, udp, said, heard>>

-----------------------------------------------------------------------------
(* The client.                                                             *)

Live == cli.fail = "" /\ srv.run # "ended"

Answer(c, pdus) ==
    /\ cli' = c
    /\ tcp' = [up |-> tcp.up \o pdus, down |-> Tail(tcp.down)]
    /\ UNCHANGED heard

Breaks(why) == Answer([cli EXCEPT !.fail = why], << >>)

CreateRequest(pdu) ==
    \/ Answer([cli EXCEPT !.active = @ \cup {pdu.ch}], <<[Pdu("created", pdu.ch) EXCEPT !.n = 1]>>)
    \/ Answer(cli, <<Pdu("created", pdu.ch)>>)

CloseRequest(pdu) ==
    IF pdu.ch \in cli.active
    THEN Answer([cli EXCEPT !.active = @ \ {pdu.ch}], <<Pdu("close", pdu.ch)>>)
    ELSE Answer(cli, << >>)

Hears(ch, n) == heard' = [heard EXCEPT !.cli[ch] = Append(@, n)]

DirectData(pdu) ==
    IF pdu.ch \in cli.moved THEN Breaks("moved channel on TCP")
    ELSE IF pdu.ch \notin cli.active THEN Breaks("closed channel")
    ELSE /\ Hears(pdu.ch, pdu.n)
         /\ tcp' = [tcp EXCEPT !.down = Tail(@)]
         /\ UNCHANGED cli

(* A request that names a channel the client does not have moves nothing. *)
process_soft_sync_request(pdu) ==
    IF cli.synced THEN Breaks("second request")
    ELSE IF cli.tunnel # "ok" THEN Breaks("no tunnel")
    ELSE LET known == pdu.ids \subseteq cli.active
         IN Answer([cli EXCEPT !.synced = TRUE, !.moved = IF known THEN pdu.ids ELSE {}],
                   <<[Bare("synced") EXCEPT !.n = IF known THEN 1 ELSE 0]>>)

ClientReads ==
    /\ Live /\ tcp.down # << >>
    /\ \E pdu \in {Head(tcp.down)} :
        CASE pdu.t = "caps" -> Answer([cli EXCEPT !.caps = TRUE], <<Bare("caps")>>)
          [] pdu.t = "create" -> CreateRequest(pdu)
          [] pdu.t = "close" -> CloseRequest(pdu)
          [] pdu.t = "data" -> DirectData(pdu)
          [] pdu.t = "sync" -> process_soft_sync_request(pdu)
          [] pdu.t = "deactivate" -> Answer(cli, <<Bare("ready")>>)
    /\ UNCHANGED <<plan, dvc, srv, events, tun, queue, mic, udp, said>>

(* DrdynvcClient::process_tunnel *)
ClientReadsTunnel ==
    /\ Live /\ udp.down # << >>
    /\ udp' = [udp EXCEPT !.down = Tail(@)]
    /\ \E pdu \in {Head(udp.down)} :
        IF pdu.ch \in cli.moved /\ pdu.ch \in cli.active
        THEN Hears(pdu.ch, pdu.n) /\ UNCHANGED cli
        ELSE /\ cli' = [cli EXCEPT !.fail = IF ~cli.synced THEN "tunnel before the request"
                                            ELSE IF pdu.ch \in cli.active THEN "tunnel not selected"
                                            ELSE "closed channel"]
             /\ UNCHANGED heard
    /\ UNCHANGED <<plan, dvc, srv, events, tun, queue, mic, tcp, said>>

ClientSends(id) ==
    /\ Live /\ id \in cli.active /\ said.cli[id] < plan.in
    /\ said' = [said EXCEPT !.cli[id] = @ + 1]
    /\ \E pdu \in {Data(id, said.cli[id] + 1)} :
        IF id \in cli.moved
        THEN tun = "up" /\ udp' = [udp EXCEPT !.up = Append(@, pdu)] /\ UNCHANGED tcp
        ELSE tcp' = [tcp EXCEPT !.up = Append(@, pdu)] /\ UNCHANGED udp
    /\ UNCHANGED <<plan, dvc, srv, events, tun, queue, mic, cli, heard>>

ClientCloses(id) ==
    /\ Live /\ id \in cli.active /\ cli.closes < plan.closes
    /\ cli' = [cli EXCEPT !.active = @ \ {id}, !.moved = @ \ {id}, !.closes = @ + 1]
    /\ tcp' = [tcp EXCEPT !.up = Append(@, Pdu("close", id))]
    /\ UNCHANGED <<plan, dvc, srv, events, tun, queue, mic, udp, said, heard>>

(* The Multitransport Response, once the client knows how the tunnel went. *)
ClientConfirms(how) ==
    /\ Live /\ cli.tunnel = "none" /\ plan.tunnels > 0
    /\ cli' = [cli EXCEPT !.tunnel = how]
    /\ tcp' = [tcp EXCEPT !.up = Append(@, Bare(IF how = "ok" THEN "mtok" ELSE "mtno"))]
    /\ UNCHANGED <<plan, dvc, srv, events, tun, queue, mic, udp, said, heard>>

-----------------------------------------------------------------------------
ServerStep == dispatch_pdu \/ dispatch_server_events \/ WriteDirect \/ send_to_tunnel \/ Reactivate
TunnelStep == TunnelReceives \/ TunnelSends \/ TunnelUnused
ClientStep == ClientReads \/ ClientReadsTunnel

Next ==
    \/ dispatch_pdu \/ dispatch_server_events \/ WriteDirect \/ send_to_tunnel
    \/ Resize \/ Reactivate
    \/ serve_tunnel \/ TunnelReceives \/ TunnelSends \/ TunnelUnused \/ TunnelLost
    \/ RecordingStarts \/ RecordingStops \/ tick
    \/ ClientReads \/ ClientReadsTunnel
    \/ \E id \in Ids : HasOutput(id) \/ ClientSends(id) \/ ClientCloses(id)
    \/ \E how \in {"ok", "no"} : ClientConfirms(how)

Spec == Init /\ [][Next]_vars

(* The tasks and the client run on while any of them has something to do.  *)
(* Nobody has to speak, record, confirm a tunnel, close a channel or       *)
(* change a size.                                                          *)
FairSpec == Spec /\ WF_vars(ServerStep \/ TunnelStep \/ ClientStep \/ tick)

-----------------------------------------------------------------------------
(* Properties.                                                             *)

States == {"None", "Pending", "Creation", "Closing", "Opened", "Failed"}

(* The state has its shape; only an open channel has a route through the   *)
(* tunnel, and only one that goes out has one that comes in                *)
(* (remove_by_channel_id, process_soft_sync_response); a handler that      *)
(* waits has the lock, and no frame waits for a response that has come;    *)
(* the limits of the queue and of the early frames are kept.               *)
TypeOK ==
    /\ dvc.chan \in [Ids -> States]
    /\ dvc.in \subseteq dvc.out /\ dvc.out \subseteq open_channel_ids(dvc)
    /\ Len(dvc.early) <= EarlyMax /\ Len(queue) <= QueueRoom
    /\ dvc.early # << >> => dvc.sync # "Answered"
    /\ srv.run \in {"active", "reactivating", "ended"}
    /\ Waits(srv) => srv.lock # "free" /\ srv.run = "active"

Increasing(s) == \A i \in 1 .. Len(s) - 1 : s[i] < s[i + 1]
NoGap(s) == \A i \in 1 .. Len(s) : s[i] = i

(* A channel's messages reach the client in the order the server made them *)
(* in, through whichever way: the data sent over TCP before the Soft-Sync  *)
(* Request, the data held back until its Response, and the data sent       *)
(* through the tunnel since.  Unless the loop was interrupted, none is     *)
(* missing.  (write_dvc_messages, flush_tunnel_backlog)                    *)
ToClientInOrder ==
    \A id \in Ids :
        /\ Increasing(heard.cli[id])
        /\ srv.resizes = 0 => NoGap(heard.cli[id])

(* The same for the client's messages: tunnel frames that overtake the     *)
(* Soft-Sync Response wait for it, behind the data sent over TCP before    *)
(* it.  (process_tunnel, process_soft_sync_response)                       *)
ToServerInOrder ==
    \A id \in Ids :
        /\ Increasing(heard.srv[id])
        /\ srv.resizes = 0 => NoGap(heard.srv[id])

(* A channel that moves from TCP to the tunnel keeps its order both ways.  *)
InOrder == ToClientInOrder /\ ToServerInOrder

(* The client never gets data of a moved channel over TCP after the        *)
(* request, nor through the tunnel before it, nor a second request, nor    *)
(* one for a tunnel it did not confirm; and nothing but data is held back  *)
(* for the tunnel or sent through it.  The one exception is a channel that *)
(* its processor ended: process_data forgets the route before the answers  *)
(* of the same call are written.  (soft_sync, route_dvc_messages)          *)
MovedOnce ==
    /\ cli.fail \notin {"tunnel before the request", "second request", "no tunnel"}
    /\ cli.fail = "moved channel on TCP" =>
           plan.quits > 0 /\ \E id \in cli.moved : dvc.chan[id] = "None"
    /\ \A p \in Range(srv.backlog) \cup Range(queue) \cup Range(udp.down) : p.t = "data"

(* When the channels move, none is left behind on TCP because the client   *)
(* was still creating it: what was open or asked for before the request    *)
(* went out is moved, or gone.  (soft_sync)                                *)
NoneLeftBehind ==
    [][dvc.sync = "Idle" /\ dvc'.sync = "Active" =>
        \A id \in Ids : dvc'.chan[id] \in {"Opened", "Creation", "Pending"} => id \in dvc'.out]_vars

Mine(id) == id \in mic.channel \cup mic.given
Queued(e) == e \in Range(events) \cup Range(srv.batch)

(* Every microphone channel the server keeps is one the watcher answers    *)
(* for, or one it has asked to close; and the watcher asks for a channel   *)
(* only when it has none, so the client's microphone is never opened       *)
(* twice.  Only an interrupted loop can lose a request.  (tick, next)      *)
MicrophoneKept ==
    srv.resizes = 0 /\ srv.run = "active" =>
        /\ \A id \in Mics : dvc.chan[id] \in {"Pending", "Creation", "Opened"} =>
                Mine(id) \/ Queued(Event("close", id))
        /\ Cardinality({id \in Mics : dvc.chan[id] \in {"Pending", "Creation", "Opened"}
                            /\ ~Queued(Event("close", id))}) <= 1

Over == srv.run = "ended" \/ cli.fail # "" \/ srv.resizes > 0

(* The client's microphone is let go once nothing records.                 *)
MicrophoneReleased ==
    []<>(mic.recording \/ Over \/ mic.recordings < plan.recordings \/ cli.active \cap Mics = {})

(* What the server says on a channel is heard, unless the channel closes:  *)
(* data held back for the Soft-Sync Response is not stuck.                 *)
HeldDataArrives ==
    \A id \in Ids :
        said.srv[id] > 0 /\ srv.run = "active" ~>
            Len(heard.cli[id]) = said.srv[id] \/ dvc.chan[id] # "Opened" \/ Over
=============================================================================

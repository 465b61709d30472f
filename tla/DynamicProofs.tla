--------------------------- MODULE DynamicProofs ---------------------------
(***************************************************************************)
(* The channel manager and the client loop, for any number of channels,    *)
(* recordings and scenarios and any room in the queues: the type invariant *)
(* of Dynamic, and that no channel is left behind when they move.          *)
(*                                                                         *)
(* Neither depends on what the messages say or in which order they come.   *)
(* The proof follows the layers of the code: what a call of the manager    *)
(* leaves of its books (Stays), what a handler's writing leaves of the     *)
(* lock (Held), and what the end of a handler may add, which is the one    *)
(* place where the channels move (Moves).                                  *)
(***************************************************************************)
EXTENDS Dynamic, SequenceTheorems, TLAPS

\* A sequence, whatever its elements are.
IsList(q) == q \in Seq({q[i] : i \in DOMAIN q})

\* The books of the channels. The ids not given out yet are unused, so that a
\* new channel finds no route of an old one.
ChannelsOK(d) ==
    /\ DOMAIN d = {"caps", "chan", "next", "sync", "out", "in", "early"}
    /\ d.chan \in [Ids -> States]
    /\ d.next \in Nat
    /\ \A id \in Ids : id >= d.next => d.chan[id] = "None"
    /\ d.sync \in {"Idle", "Active", "Answered"}
    /\ d.in \subseteq d.out
    /\ d.out \subseteq open_channel_ids(d)

\* The frames that came before the Soft-Sync Response.
EarlyOK(d) ==
    /\ IsList(d.early)
    /\ Len(d.early) <= EarlyMax
    /\ d.early # << >> => d.sync # "Answered"

DvcOK(d) == ChannelsOK(d) /\ EarlyOK(d)

\* A call of the manager keeps its books and asks for no move.
Stays(d, e) == DvcOK(e) /\ (d.sync = "Idle" => e.sync = "Idle")

\* If the channels move, all do.
AllMoved(e) ==
    \A id \in Ids : e.chan[id] \in {"Opened", "Creation", "Pending"} => id \in e.out

Moves(d, e) == DvcOK(e) /\ (d.sync = "Idle" /\ e.sync = "Active" => AllMoved(e))

-----------------------------------------------------------------------------
LEMMA IdsAreInts == Ids \subseteq Int /\ Preset \in Nat
BY DynamicAssumption DEF Ids

LEMMA EmptyList == IsList(<< >>) /\ Len(<< >>) = 0
BY DEF IsList

LEMMA SeqIsList ==
    ASSUME NEW S, NEW q \in Seq(S)
    PROVE IsList(q)
<1> DEFINE T == {q[i] : i \in DOMAIN q}
<1>1. Len(q) \in Nat /\ q \in [1 .. Len(q) -> S] /\ DOMAIN q = 1 .. Len(q)
  BY LenProperties, Zenon
<1>2. \A i \in 1 .. Len(q) : q[i] \in T BY <1>1, Zenon
<1> HIDE DEF T
<1>3. q \in [1 .. Len(q) -> T] BY <1>1, <1>2, Zenon
<1>4. q \in Seq(T) BY <1>1, <1>3, SeqDef
<1> QED BY <1>4, Zenon DEF IsList, T

LEMMA AppendList ==
    ASSUME NEW q, IsList(q), NEW x
    PROVE IsList(Append(q, x)) /\ Len(Append(q, x)) = Len(q) + 1
<1> DEFINE S == {q[i] : i \in DOMAIN q} \cup {x}
<1>1. q \in Seq(S) /\ x \in S BY SeqMonotonic, Zenon DEF IsList
<1> HIDE DEF S
<1>2. Append(q, x) \in Seq(S) /\ Len(Append(q, x)) = Len(q) + 1 BY <1>1
<1> QED BY <1>2, SeqIsList, Zenon

LEMMA TailList ==
    ASSUME NEW q, IsList(q), q # << >>
    PROVE IsList(Tail(q)) /\ Len(Tail(q)) < Len(q)
<1> DEFINE S == {q[i] : i \in DOMAIN q}
<1>1. q \in Seq(S) BY Zenon DEF IsList
<1> HIDE DEF S
<1>2. Tail(q) \in Seq(S) /\ Len(Tail(q)) < Len(q) BY <1>1, HeadTailProperties, LenProperties, SMTT(30)
<1> QED BY <1>2, SeqIsList, Zenon

-----------------------------------------------------------------------------
(* The manager.                                                            *)

\* The client answered for a channel it was asked to create.
LEMMA SetChannel ==
    ASSUME NEW d, DvcOK(d), NEW id, NEW state \in States,
           d.chan[id] \in {"Creation", "Closing"}
    PROVE Stays(d, [d EXCEPT !.chan[id] = state])
<1> DEFINE e == [d EXCEPT !.chan[id] = state]
<1>1. /\ DOMAIN e = DOMAIN d
      /\ e.chan = [d.chan EXCEPT ![id] = state]
      /\ e.next = d.next /\ e.sync = d.sync /\ e.out = d.out /\ e.in = d.in
      /\ e.early = d.early
  BY Zenon DEF DvcOK, ChannelsOK
<1> HIDE DEF e
<1>2. \A i \in Ids : e.chan[i] = IF i = id THEN state ELSE d.chan[i]
  BY <1>1, Zenon DEF DvcOK, ChannelsOK
<1>3. e.chan \in [Ids -> States] BY <1>1, Zenon DEF DvcOK, ChannelsOK
<1>4. \A i \in Ids : i >= e.next => e.chan[i] = "None"
  BY <1>1, <1>2, Zenon DEF DvcOK, ChannelsOK
<1>5. open_channel_ids(d) \subseteq open_channel_ids(e) BY <1>2, Zenon DEF open_channel_ids
<1>6. ChannelsOK(e) BY <1>1, <1>3, <1>4, <1>5, Zenon DEF DvcOK, ChannelsOK
<1>7. EarlyOK(e) BY <1>1, Zenon DEF DvcOK, EarlyOK
<1> QED BY <1>1, <1>6, <1>7, Zenon DEF Stays, DvcOK, e

LEMMA RemoveStays ==
    ASSUME NEW d, DvcOK(d), NEW id
    PROVE Stays(d, remove_by_channel_id(d, id))
<1> DEFINE e == remove_by_channel_id(d, id)
<1>1. /\ DOMAIN e = DOMAIN d
      /\ e.chan = [d.chan EXCEPT ![id] = "None"]
      /\ e.next = d.next /\ e.sync = d.sync
      /\ e.out = d.out \ {id} /\ e.in = d.in \ {id}
      /\ e.early = d.early
  BY Zenon DEF DvcOK, ChannelsOK, remove_by_channel_id
<1> HIDE DEF e
<1>2. \A i \in Ids : e.chan[i] = IF i = id THEN "None" ELSE d.chan[i]
  BY <1>1, Zenon DEF DvcOK, ChannelsOK
<1>3. e.chan \in [Ids -> States] BY <1>1, Zenon DEF DvcOK, ChannelsOK, States
<1>4. \A i \in Ids : i >= e.next => e.chan[i] = "None"
  BY <1>1, <1>2, Zenon DEF DvcOK, ChannelsOK
<1>5. open_channel_ids(d) \ {id} \subseteq open_channel_ids(e) BY <1>2, Zenon DEF open_channel_ids
<1>6. ChannelsOK(e) BY <1>1, <1>3, <1>4, <1>5, Zenon DEF DvcOK, ChannelsOK
<1>7. EarlyOK(e) BY <1>1, Zenon DEF DvcOK, EarlyOK
<1> QED BY <1>1, <1>6, <1>7, Zenon DEF Stays, DvcOK, e

\* What a call of the manager leaves alone.
LEMMA SameStays == ASSUME NEW d, DvcOK(d) PROVE Stays(d, d)
BY Zenon DEF Stays

LEMMA DoneIs ==
    ASSUME NEW d, NEW pdus
    PROVE Done(d, pdus).d = d /\ Failed(d).d = d
BY Zenon DEF Done, Failed

LEMMA CreateStays ==
    ASSUME NEW d, DvcOK(d)
    PROVE Stays(d, create_channel_with_id(d).d)
<1> DEFINE w == IF d.caps THEN "Creation" ELSE "Pending"
           e == [d EXCEPT !.chan[d.next] = w, !.next = @ + 1]
<1>1. create_channel_with_id(d).d = e BY Zenon DEF create_channel_with_id, Done
<1>2. w \in States BY Zenon DEF States
<1> HIDE DEF w
<1>3. /\ DOMAIN e = DOMAIN d
      /\ e.chan = [d.chan EXCEPT ![d.next] = w]
      /\ e.next = d.next + 1
      /\ e.sync = d.sync /\ e.out = d.out /\ e.in = d.in /\ e.early = d.early
  BY Zenon DEF DvcOK, ChannelsOK
<1> HIDE DEF e
<1>4. \A i \in Ids : e.chan[i] = IF i = d.next THEN w ELSE d.chan[i]
  BY <1>3, Zenon DEF DvcOK, ChannelsOK
<1>5. e.chan \in [Ids -> States] BY <1>2, <1>3, Zenon DEF DvcOK, ChannelsOK
<1>6. \A i \in Ids : i >= e.next => e.chan[i] = "None"
  BY <1>3, <1>4, IdsAreInts, SMTT(30) DEF DvcOK, ChannelsOK
<1>7. d.next \in Ids => d.chan[d.next] = "None"
  BY IdsAreInts DEF DvcOK, ChannelsOK
<1>8. open_channel_ids(d) \subseteq open_channel_ids(e)
  BY <1>4, <1>7, Zenon DEF open_channel_ids
<1>9. ChannelsOK(e) BY <1>3, <1>5, <1>6, <1>8, SMTT(30) DEF DvcOK, ChannelsOK
<1>10. EarlyOK(e) BY <1>3, Zenon DEF DvcOK, EarlyOK
<1> QED BY <1>1, <1>3, <1>9, <1>10, Zenon DEF Stays, DvcOK

LEMMA CloseStays ==
    ASSUME NEW d, DvcOK(d), NEW id
    PROVE Stays(d, close_channel(d, id).d)
<1>1. CASE d.chan[id] \in {"Creation", "Closing"}
  <2>1. close_channel(d, id).d = [d EXCEPT !.chan[id] = "Closing"]
    BY <1>1, Zenon DEF close_channel, Done
  <2>2. "Closing" \in States BY Zenon DEF States
  <2>3. ASSUME NEW state \in States PROVE Stays(d, [d EXCEPT !.chan[id] = state])
    BY <1>1, SetChannel, Zenon
  <2> QED BY <2>1, <2>2, <2>3, Zenon
<1>2. CASE d.chan[id] \in {"Pending", "Failed", "Opened"}
  <2>1. close_channel(d, id).d = remove_by_channel_id(d, id)
    BY <1>2, Zenon DEF close_channel, Done
  <2> QED BY <2>1, RemoveStays, Zenon
<1>3. CASE d.chan[id] \notin {"Creation", "Closing", "Pending", "Failed", "Opened"}
  <2>1. close_channel(d, id).d = d BY <1>3, Zenon DEF close_channel, Done
  <2> QED BY <2>1, SameStays, Zenon
<1> QED BY <1>1, <1>2, <1>3, Zenon

LEMMA DataStays ==
    ASSUME NEW d, DvcOK(d), NEW pdu, NEW answers
    PROVE Stays(d, process_data(d, pdu, answers).d)
<1>1. process_data(d, pdu, answers).d \in {d, remove_by_channel_id(d, pdu.ch)}
  BY Zenon DEF process_data, Done, Failed
<1> QED BY <1>1, SameStays, RemoveStays, Zenon

LEMMA FrameStays ==
    ASSUME NEW d, DvcOK(d), NEW pdu, NEW answers
    PROVE Stays(d, read_tunnel_frame(d, pdu, answers).d)
<1>1. CASE pdu.t = "close"
  <2>1. read_tunnel_frame(d, pdu, answers).d = remove_by_channel_id(d, pdu.ch)
    BY <1>1, Zenon DEF read_tunnel_frame, Done
  <2> QED BY <2>1, RemoveStays, Zenon
<1>2. CASE pdu.t # "close"
  <2>1. read_tunnel_frame(d, pdu, answers).d \in {d, process_data(d, pdu, answers).d}
    BY <1>2, Zenon DEF read_tunnel_frame, Done
  <2> QED BY <2>1, SameStays, DataStays, Zenon
<1> QED BY <1>1, <1>2, Zenon

\* A frame that comes before the Soft-Sync Response waits, if there is room.
LEMMA TunnelStays ==
    ASSUME NEW d, DvcOK(d), NEW pdu, NEW answers
    PROVE Stays(d, process_tunnel(d, pdu, answers).d)
<1>1. CASE soft_sync_response_received(d)
  BY <1>1, FrameStays, Zenon DEF process_tunnel
<1>2. CASE ~soft_sync_response_received(d) /\ Len(d.early) >= EarlyMax
  <2>1. process_tunnel(d, pdu, answers).d = d BY <1>2, Zenon DEF process_tunnel, Done, Failed
  <2> QED BY <2>1, SameStays, Zenon
<1>3. CASE ~soft_sync_response_received(d) /\ ~(Len(d.early) >= EarlyMax)
  <2> DEFINE e == [d EXCEPT !.early = Append(@, pdu)]
  <2>1. process_tunnel(d, pdu, answers).d = e BY <1>3, Zenon DEF process_tunnel, Done
  <2>2. /\ DOMAIN e = DOMAIN d /\ e.early = Append(d.early, pdu)
        /\ e.chan = d.chan /\ e.next = d.next /\ e.sync = d.sync
        /\ e.out = d.out /\ e.in = d.in
    BY Zenon DEF DvcOK, ChannelsOK
  <2> HIDE DEF e
  <2>3. ChannelsOK(e) BY <2>2, Zenon DEF DvcOK, ChannelsOK, open_channel_ids
  <2>4. Len(d.early) \in Nat BY LenProperties, Zenon DEF DvcOK, EarlyOK, IsList
  <2>5. Len(e.early) <= EarlyMax
    BY <1>3, <2>2, <2>4, AppendList, DynamicAssumption, SMTT(30) DEF DvcOK, EarlyOK
  <2>6. EarlyOK(e)
    BY <1>3, <2>2, <2>5, AppendList, Zenon DEF DvcOK, EarlyOK, soft_sync_response_received
  <2> QED BY <2>1, <2>2, <2>3, <2>6, Zenon DEF Stays, DvcOK
<1> QED BY <1>1, <1>2, <1>3, Zenon

LEMMA ResponseStays ==
    ASSUME NEW d, DvcOK(d), NEW pdu, NEW answers
    PROVE Stays(d, process_soft_sync_response(d, pdu, answers).d)
<1>1. CASE d.sync # "Active"
  <2>1. process_soft_sync_response(d, pdu, answers).d = d
    BY <1>1, Zenon DEF process_soft_sync_response, Done
  <2> QED BY <2>1, SameStays, Zenon
<1>2. CASE d.sync = "Active"
  <2> DEFINE ended == EndedBySome(d, answers)
             in == IF pdu.n = 1 THEN d.out \ ended ELSE {}
             chan == [id \in Ids |-> IF id \in ended THEN "None" ELSE d.chan[id]]
             e == [d EXCEPT !.in = in, !.out = @ \ ended, !.chan = chan,
                            !.sync = "Answered", !.early = << >>]
  <2>1. process_soft_sync_response(d, pdu, answers).d = e
    BY <1>2, Zenon DEF process_soft_sync_response, Done
  <2> HIDE DEF ended
  <2>2. in \subseteq d.out \ ended OBVIOUS
  <2>3. chan \in [Ids -> States] BY Zenon DEF DvcOK, ChannelsOK, States
  <2>4. /\ \A id \in Ids : d.chan[id] = "None" => chan[id] = "None"
        /\ \A id \in Ids \ ended : chan[id] = d.chan[id]
    BY Zenon
  <2> HIDE DEF in, chan
  <2>5. /\ DOMAIN e = DOMAIN d /\ e.early = << >> /\ e.sync = "Answered"
        /\ e.chan = chan /\ e.next = d.next /\ e.out = d.out \ ended /\ e.in = in
    BY Zenon DEF DvcOK, ChannelsOK
  <2> HIDE DEF e
  <2>6. \A id \in Ids : id >= e.next => e.chan[id] = "None"
    BY <2>4, <2>5, Zenon DEF DvcOK, ChannelsOK
  <2>7. e.out \subseteq open_channel_ids(e)
    BY <2>4, <2>5, Zenon DEF DvcOK, ChannelsOK, open_channel_ids
  <2>8. ChannelsOK(e) BY <2>2, <2>3, <2>5, <2>6, <2>7, Zenon DEF DvcOK, ChannelsOK
  <2>9. EarlyOK(e) BY <2>5, EmptyList, DynamicAssumption DEF EarlyOK
  <2> QED BY <1>2, <2>1, <2>8, <2>9, Zenon DEF Stays, DvcOK
<1> QED BY <1>1, <1>2, Zenon

LEMMA CapabilitiesStays ==
    ASSUME NEW d, DvcOK(d)
    PROVE Stays(d, OnCapabilities(d).d)
<1> DEFINE chan == [id \in Ids |-> IF d.chan[id] = "Pending" THEN "Creation" ELSE d.chan[id]]
           e == [d EXCEPT !.caps = TRUE, !.chan = chan]
<1>1. OnCapabilities(d).d = e BY Zenon DEF OnCapabilities, Done
<1>2. /\ chan \in [Ids -> States]
      /\ \A id \in Ids : d.chan[id] \in {"None", "Opened"} => chan[id] = d.chan[id]
  BY Zenon DEF DvcOK, ChannelsOK, States
<1> HIDE DEF chan
<1>3. /\ DOMAIN e = DOMAIN d /\ e.chan = chan
      /\ e.early = d.early /\ e.next = d.next /\ e.sync = d.sync
      /\ e.out = d.out /\ e.in = d.in
  BY Zenon DEF DvcOK, ChannelsOK
<1> HIDE DEF e
<1>4. open_channel_ids(d) \subseteq open_channel_ids(e)
  BY <1>2, <1>3, Zenon DEF open_channel_ids
<1>5. ChannelsOK(e) BY <1>2, <1>3, <1>4, Zenon DEF DvcOK, ChannelsOK
<1>6. EarlyOK(e) BY <1>3, Zenon DEF DvcOK, EarlyOK
<1> QED BY <1>1, <1>3, <1>5, <1>6, Zenon DEF Stays, DvcOK

LEMMA CreatedStays ==
    ASSUME NEW d, DvcOK(d), NEW pdu, NEW answers
    PROVE Stays(d, OnCreated(d, pdu, answers).d)
<1>1. CASE d.chan[pdu.ch] \notin {"Creation", "Closing"}
  <2>1. OnCreated(d, pdu, answers) = Failed(d) BY <1>1, Zenon DEF OnCreated
  <2> QED BY <2>1, DoneIs, SameStays, Zenon
<1>2. CASE d.chan[pdu.ch] \in {"Creation", "Closing"}
  <2>1. ASSUME NEW state \in States PROVE Stays(d, [d EXCEPT !.chan[pdu.ch] = state])
    BY <1>2, SetChannel, Zenon
  <2>2. CASE pdu.n = 0
    <3>1. OnCreated(d, pdu, answers).d = [d EXCEPT !.chan[pdu.ch] = "Failed"]
      BY <1>2, <2>2, Zenon DEF OnCreated, Done
    <3>2. "Failed" \in States BY Zenon DEF States
    <3> QED BY <2>1, <3>1, <3>2, Zenon
  <2>3. CASE pdu.n # 0 /\ d.chan[pdu.ch] = "Closing"
    <3>1. OnCreated(d, pdu, answers).d = remove_by_channel_id(d, pdu.ch)
      BY <1>2, <2>3, Zenon DEF OnCreated, Done
    <3> QED BY <3>1, RemoveStays, Zenon
  <2>4. CASE pdu.n # 0 /\ d.chan[pdu.ch] # "Closing"
    <3>1. OnCreated(d, pdu, answers).d = [d EXCEPT !.chan[pdu.ch] = "Opened"]
      BY <1>2, <2>4, Zenon DEF OnCreated, Done
    <3>2. "Opened" \in States BY Zenon DEF States
    <3> QED BY <2>1, <3>1, <3>2, Zenon
  <2> QED BY <2>2, <2>3, <2>4, Zenon
<1> QED BY <1>1, <1>2, Zenon

\* A PDU of the dynamic channels over TCP.
LEMMA ProcessStays ==
    ASSUME NEW d, DvcOK(d), NEW pdu, NEW answers
    PROVE Stays(d, process(d, pdu, answers).d)
<1>1. CASE pdu.t = "caps" BY <1>1, CapabilitiesStays, Zenon DEF process
<1>2. CASE pdu.t = "created" BY <1>2, CreatedStays, Zenon DEF process
<1>3. CASE pdu.t = "close"
  <2>1. process(d, pdu, answers).d = remove_by_channel_id(d, pdu.ch)
    BY <1>3, Zenon DEF process, Done
  <2> QED BY <2>1, RemoveStays, Zenon
<1>4. CASE pdu.t = "data" BY <1>4, DataStays, Zenon DEF process
<1>5. CASE pdu.t = "synced" BY <1>5, ResponseStays, Zenon DEF process
<1>6. CASE pdu.t \notin {"caps", "created", "close", "data", "synced"}
  <2>1. process(d, pdu, answers).d = d BY <1>6, Zenon DEF process, Done, Failed
  <2> QED BY <2>1, SameStays, Zenon
<1> QED BY <1>1, <1>2, <1>3, <1>4, <1>5, <1>6, Zenon

-----------------------------------------------------------------------------
(* The client loop.                                                        *)

HasFields(s) == {"run", "lock", "job"} \subseteq DOMAIN s

SrvOK(s) ==
    /\ HasFields(s)
    /\ s.run \in {"active", "reactivating", "ended"}
    /\ Waits(s) => s.lock # "free" /\ s.run = "active"

\* A handler is at work.
Busy(s) == HasFields(s) /\ s.run = "active" /\ s.lock # "free"

\* The loop is over.
Gone(s) == SrvOK(s) /\ s.run = "ended"

\* What writing leaves alone.
Held(s, t) == DOMAIN t = DOMAIN s /\ t.run = s.run /\ t.lock = s.lock

LEMMA BusyOK == ASSUME NEW s, Busy(s) PROVE SrvOK(s)
BY Zenon DEF Busy, SrvOK

LEMMA HeldBusy ==
    ASSUME NEW s, NEW t, Busy(s), Held(s, t)
    PROVE Busy(t) /\ t.lock = s.lock
BY Zenon DEF Busy, Held, HasFields

LEMMA EndedGone ==
    ASSUME NEW s, HasFields(s), NEW why
    PROVE Gone(Ended(s, why))
BY Zenon DEF Gone, SrvOK, HasFields, Ended, Waits

LEMMA FlushHeld ==
    ASSUME NEW d, NEW s, HasFields(s)
    PROVE Held(s, flush_tunnel_backlog(d, s))
BY Zenon DEF Held, HasFields, flush_tunnel_backlog

LEMMA HoldHeld ==
    ASSUME NEW d, NEW s, HasFields(s)
    PROVE Held(s, Hold(d, s))
<1> DEFINE t == [s EXCEPT !.backlog = @ \o s.job.tunneled, !.job = Nothing]
<1>1. Held(s, t) /\ HasFields(t) BY Zenon DEF Held, HasFields
<1>2. Hold(d, s) = flush_tunnel_backlog(d, t) BY Zenon DEF Hold
<1> HIDE DEF t
<1>3. Held(t, Hold(d, s)) BY <1>1, <1>2, FlushHeld, Zenon
<1> QED BY <1>1, <1>3, Zenon DEF Held

LEMMA WriteHeld ==
    ASSUME NEW d, NEW s, HasFields(s), NEW pdus
    PROVE Held(s, write_dvc_messages(d, s, pdus))
<1> DEFINE t == route_dvc_messages(d, s, pdus)
<1>1. Held(s, t) /\ HasFields(t) BY Zenon DEF Held, HasFields, route_dvc_messages
<1>2. write_dvc_messages(d, s, pdus) \in {t, Hold(d, t)} BY Zenon DEF write_dvc_messages
<1> HIDE DEF t
<1>3. Held(t, Hold(d, t)) BY <1>1, HoldHeld, Zenon
<1> QED BY <1>1, <1>2, <1>3, Zenon DEF Held

-----------------------------------------------------------------------------
(* The one place where the channels move.                                  *)

LEMMA RequestMoves ==
    ASSUME NEW d, DvcOK(d), ~creations_outstanding(d)
    PROVE Moves(d, request_reliable_udp(d))
<1> DEFINE e == request_reliable_udp(d)
<1>1. /\ DOMAIN e = DOMAIN d /\ e.sync = "Active" /\ e.out = open_channel_ids(d)
      /\ e.chan = d.chan /\ e.next = d.next /\ e.in = d.in /\ e.early = d.early
  BY Zenon DEF request_reliable_udp, DvcOK, ChannelsOK
<1> HIDE DEF e
<1>2. ChannelsOK(e) BY <1>1, Zenon DEF DvcOK, ChannelsOK, open_channel_ids
<1>3. EarlyOK(e) BY <1>1, Zenon DEF DvcOK, EarlyOK
<1>4. AllMoved(e) BY <1>1, Zenon DEF AllMoved, creations_outstanding, open_channel_ids
<1> QED BY <1>2, <1>3, <1>4, Zenon DEF Moves, DvcOK, e

LEMMA SameMoves == ASSUME NEW d, DvcOK(d) PROVE Moves(d, d)
BY Zenon DEF Moves

\* The handler goes on, with its lock, or the loop is over.
GoesOn(s, t) == (Busy(t) /\ t.lock = s.lock) \/ Gone(t)

LEMMA SoftSyncMoves ==
    ASSUME NEW d, DvcOK(d), NEW s, Busy(s)
    PROVE Moves(d, soft_sync(d, s).d) /\ GoesOn(s, soft_sync(d, s).s)
<1>1. CASE open_channel_ids(d) = {} \/ creations_outstanding(d)
  <2>1. soft_sync(d, s) = Both(d, [s EXCEPT !.pending = TRUE]) BY <1>1, Zenon DEF soft_sync
  <2>2. Held(s, [s EXCEPT !.pending = TRUE]) BY Zenon DEF Held, Busy, HasFields
  <2> QED BY <2>1, <2>2, SameMoves, HeldBusy, SMTT(30) DEF Both, GoesOn
<1>2. CASE ~(open_channel_ids(d) = {} \/ creations_outstanding(d)) /\ d.sync # "Idle"
  <2> DEFINE t == Ended(s, "second request")
  <2>1. soft_sync(d, s) = Both(d, t) BY <1>2, Zenon DEF soft_sync
  <2>2. Gone(t) BY EndedGone, Zenon DEF Busy
  <2> HIDE DEF t
  <2>3. soft_sync(d, s).d = d /\ soft_sync(d, s).s = t BY <2>1 DEF Both
  <2> QED BY <2>2, <2>3, SameMoves, Zenon DEF GoesOn
<1>3. CASE ~(open_channel_ids(d) = {} \/ creations_outstanding(d)) /\ d.sync = "Idle"
  <2> DEFINE e == request_reliable_udp(d)
             u == [s EXCEPT !.tunnel = TRUE]
             ask == [t |-> "sync", ch |-> 0, n |-> 0, ids |-> e.out]
  <2>1. soft_sync(d, s) = Both(e, write_dvc_messages(e, u, <<ask>>))
    BY <1>3, Zenon DEF soft_sync
  <2>2. Held(s, u) BY Zenon DEF Held, Busy, HasFields
  <2>3. Busy(u) /\ u.lock = s.lock BY <2>2, HeldBusy, Zenon
  <2>4. Moves(d, e) BY <1>3, RequestMoves, Zenon
  <2> HIDE DEF e, u, ask
  <2>5. Held(u, write_dvc_messages(e, u, <<ask>>)) BY <2>3, WriteHeld, Zenon DEF Busy
  <2> QED BY <2>1, <2>3, <2>4, <2>5, HeldBusy, SMTT(30) DEF Both, GoesOn
<1> QED BY <1>1, <1>2, <1>3, Zenon

LEMMA ResumeMoves ==
    ASSUME NEW d, DvcOK(d), NEW s, Busy(s)
    PROVE Moves(d, resume_soft_sync(d, s).d) /\ GoesOn(s, resume_soft_sync(d, s).s)
<1> DEFINE u == [s EXCEPT !.pending = FALSE]
<1>1. Held(s, u) BY Zenon DEF Held, Busy, HasFields
<1>2. Busy(u) /\ u.lock = s.lock BY <1>1, HeldBusy, Zenon
<1>3. resume_soft_sync(d, s) \in {soft_sync(d, u), Both(d, s)} BY Zenon DEF resume_soft_sync
<1> HIDE DEF u
<1>4. Moves(d, soft_sync(d, u).d) /\ GoesOn(s, soft_sync(d, u).s)
  BY <1>2, SoftSyncMoves, Zenon DEF GoesOn
<1>5. Moves(d, Both(d, s).d) /\ GoesOn(s, Both(d, s).s) BY SameMoves, Zenon DEF Both, GoesOn
<1> QED BY <1>3, <1>4, <1>5, Zenon

LEMMA FinishMoves ==
    ASSUME NEW d, DvcOK(d), NEW s, Busy(s) \/ Gone(s)
    PROVE Moves(d, Finish(d, s).d) /\ SrvOK(Finish(d, s).s)
<1>1. CASE Waits(s) \/ s.run = "ended"
  <2>1. Finish(d, s) = Both(d, s) BY <1>1, Zenon DEF Finish
  <2> QED BY <2>1, SameMoves, BusyOK, SMTT(30) DEF Both, Gone
<1>2. CASE ~(Waits(s) \/ s.run = "ended") /\ s.lock = "events"
  <2> DEFINE t == [s EXCEPT !.lock = IF s.batch = << >> THEN "free" ELSE @]
  <2>1. Finish(d, s) = Both(d, t) BY <1>2, Zenon DEF Finish
  <2>2. SrvOK(t) BY <1>2, Zenon DEF SrvOK, Busy, Gone, HasFields, Waits
  <2> QED BY <2>1, <2>2, SameMoves, SMTT(30) DEF Both
<1>3. CASE ~(Waits(s) \/ s.run = "ended") /\ s.lock # "events"
  <2> DEFINE r == resume_soft_sync(d, s)
             t == [r.s EXCEPT !.lock = IF Waits(r.s) THEN @ ELSE "free"]
  <2>1. Finish(d, s) = Both(r.d, t) BY <1>3, Zenon DEF Finish
  <2>2. Busy(s) BY <1>3, Zenon DEF Gone
  <2>3. Moves(d, r.d) /\ GoesOn(s, r.s) BY <2>2, ResumeMoves, Zenon
  <2> HIDE DEF r
  <2>4. SrvOK(t) BY <2>3, Zenon DEF GoesOn, SrvOK, Busy, Gone, HasFields, Waits
  <2> QED BY <2>1, <2>3, <2>4, SMTT(30) DEF Both
<1> QED BY <1>1, <1>2, <1>3, Zenon

\* The dispatcher of events does not look for a Soft-Sync that waits.
LEMMA FinishEvents ==
    ASSUME NEW d, NEW s, s.lock = "events" \/ s.run = "ended"
    PROVE Finish(d, s).d = d
BY Zenon DEF Finish, Both

\* A call of the manager, and the writing of what it answers.
LEMMA CarryMoves ==
    ASSUME NEW d, NEW r, Stays(d, r.d), NEW s, Busy(s), NEW why
    PROVE Moves(d, Carry(r, s, why).d) /\ SrvOK(Carry(r, s, why).s)
<1>1. DvcOK(r.d) BY Zenon DEF Stays
<1>2. ASSUME NEW e, Moves(r.d, e) PROVE Moves(d, e)
  BY <1>2, Zenon DEF Moves, Stays
<1>3. CASE r.err
  <2>1. Carry(r, s, why) = Both(r.d, Ended(s, why)) BY <1>3, Zenon DEF Carry
  <2> QED BY <1>1, <1>2, <2>1, SameMoves, EndedGone, SMTT(30) DEF Both, Busy, Gone
<1>4. CASE ~r.err
  <2> DEFINE t == write_dvc_messages(r.d, s, r.pdus)
  <2>1. Carry(r, s, why) \in {Finish(r.d, s), Finish(r.d, t)} BY <1>4, Zenon DEF Carry
  <2>2. Busy(t) BY WriteHeld, HeldBusy, Zenon DEF Busy
  <2> HIDE DEF t
  <2> QED BY <1>1, <1>2, <2>1, <2>2, FinishMoves, Zenon
<1> QED BY <1>3, <1>4, Zenon

-----------------------------------------------------------------------------
(* The handlers.                                                           *)

\* What a step of the loop may do.
LoopStep == Moves(dvc, dvc') /\ SrvOK(srv')

LEMMA CarryStep ==
    ASSUME NEW r, Stays(dvc, r.d), NEW s, Busy(s), NEW why, Become(Carry(r, s, why))
    PROVE LoopStep
BY CarryMoves, Zenon DEF LoopStep, Become

LEMMA FinishStep ==
    ASSUME DvcOK(dvc), NEW s, Busy(s), Become(Finish(dvc, s))
    PROVE LoopStep
BY FinishMoves, Zenon DEF LoopStep, Become

LEMMA ResponseHeld ==
    ASSUME NEW s, HasFields(s), NEW pdu
    PROVE Held(s, on_multitransport_response(s, pdu))
BY Zenon DEF Held, HasFields, on_multitransport_response

LEMMA HandleStep ==
    ASSUME DvcOK(dvc), NEW pdu, NEW s, Busy(s), handle_x224(pdu, s)
    PROVE LoopStep
<1>1. CASE pdu.t \in {"mtok", "mtno"}
  <2>1. Become(Finish(dvc, on_multitransport_response(s, pdu))) BY <1>1, Zenon DEF handle_x224
  <2>2. Busy(on_multitransport_response(s, pdu)) BY ResponseHeld, HeldBusy, Zenon DEF Busy
  <2> QED BY <2>1, <2>2, FinishStep, Zenon
<1>2. CASE pdu.t \notin {"mtok", "mtno"}
  <2>1. PICK answers \in Replies(pdu) : Become(Carry(process(dvc, pdu, answers), s, pdu.t))
    BY <1>2, Zenon DEF handle_x224
  <2>2. Stays(dvc, process(dvc, pdu, answers).d) BY ProcessStays, Zenon
  <2> QED BY <2>1, <2>2, CarryStep, Zenon
<1> QED BY <1>1, <1>2, Zenon

LEMMA SoftSyncStep ==
    ASSUME DvcOK(dvc), NEW s, Busy(s), s.lock = "events", SoftSyncToUdp(s)
    PROVE LoopStep
<1>1. CASE s.tunnel \/ tunnels_channels(dvc)
  <2>1. Become(Finish(dvc, s)) BY <1>1, Zenon DEF SoftSyncToUdp
  <2> QED BY <2>1, FinishStep, Zenon
<1>2. CASE ~(s.tunnel \/ tunnels_channels(dvc)) /\ ~s.confirmed
  <2> DEFINE t == [s EXCEPT !.pending = TRUE]
  <2>1. Become(Finish(dvc, t)) BY <1>2, Zenon DEF SoftSyncToUdp
  <2>2. Held(s, t) BY DEF Held
  <2> HIDE DEF t
  <2> QED BY <2>1, <2>2, HeldBusy, FinishStep, Zenon
<1>3. CASE ~(s.tunnel \/ tunnels_channels(dvc)) /\ s.confirmed
  <2> DEFINE b == soft_sync(dvc, s)
  <2>1. Become(Finish(b.d, b.s)) BY <1>3, Zenon DEF SoftSyncToUdp
  <2>2. Moves(dvc, b.d) /\ GoesOn(s, b.s) BY SoftSyncMoves, Zenon
  <2> HIDE DEF b
  <2>3. Finish(b.d, b.s).d = b.d BY <2>2, FinishEvents, Zenon DEF GoesOn, Gone
  <2>4. SrvOK(Finish(b.d, b.s).s) BY <2>2, FinishMoves, Zenon DEF GoesOn, Moves
  <2> QED BY <2>1, <2>2, <2>3, <2>4, Zenon DEF Become, LoopStep
<1> QED BY <1>1, <1>2, <1>3, Zenon

LEMMA ClosedStep ==
    ASSUME DvcOK(dvc), NEW s, Busy(s), UdpTunnelClosed(s)
    PROVE LoopStep
<1>1. CASE tunnels_channels(dvc)
  <2>1. dvc' = dvc /\ srv' = Ended(s, "tunnel")
    BY <1>1, Zenon DEF UdpTunnelClosed, Become, Both
  <2>2. Gone(Ended(s, "tunnel")) BY EndedGone, Zenon DEF Busy
  <2> QED BY <2>1, <2>2, SameMoves, Zenon DEF LoopStep, Gone
<1>2. CASE ~tunnels_channels(dvc)
  <2> DEFINE t == [s EXCEPT !.tunnel = FALSE, !.pending = FALSE]
  <2>1. Become(Finish(dvc, t)) BY <1>2, Zenon DEF UdpTunnelClosed
  <2>2. Held(s, t) BY DEF Held
  <2> HIDE DEF t
  <2> QED BY <2>1, <2>2, HeldBusy, FinishStep, Zenon
<1> QED BY <1>1, <1>2, Zenon

LEMMA DispatchStep ==
    ASSUME DvcOK(dvc), NEW e, NEW s, Busy(s), s.lock = "events", dispatch(e, s)
    PROVE LoopStep
<1>1. CASE SoftSyncToUdp(s) BY <1>1, SoftSyncStep, Zenon
<1>2. CASE OpenDynamicChannel(s)
  <2>1. Become(Carry(create_channel_with_id(dvc), s, "open")) BY <1>2, Zenon DEF OpenDynamicChannel
  <2> QED BY <2>1, CreateStays, CarryStep, Zenon
<1>3. CASE CloseDynamicChannel(s, e.x)
  <2>1. Become(Carry(close_channel(dvc, e.x), s, "close")) BY <1>3, Zenon DEF CloseDynamicChannel
  <2> QED BY <2>1, CloseStays, CarryStep, Zenon
<1>4. CASE UdpTunnelClosed(s) BY <1>4, ClosedStep, Zenon
<1>5. CASE UdpTunnelData(s, e.x)
  <2>1. PICK answers \in Replies(e.x) :
            Become(Carry(process_tunnel(dvc, e.x, answers[1]), s, "tunnel data"))
    BY <1>5, Zenon DEF UdpTunnelData
  <2> QED BY <2>1, TunnelStays, CarryStep, Zenon
<1>6. CASE SendMessages(s, e.x)
  <2>1. PICK pdus : Become(Carry(Done(dvc, pdus), s, "output")) BY <1>6, Zenon DEF SendMessages
  <2>2. Stays(dvc, Done(dvc, pdus).d) BY DoneIs, SameStays, Zenon
  <2> QED BY <2>1, <2>2, CarryStep, Zenon
<1> QED BY <1>1, <1>2, <1>3, <1>4, <1>5, <1>6, Zenon DEF dispatch

-----------------------------------------------------------------------------
(* The steps.                                                              *)

QueueOK(q) == IsList(q) /\ Len(q) <= QueueRoom

\* The inductive invariant: TypeOK, with the ids not given out yet unused, so
\* that a new channel has no route, and with the shape of the queue.
IInv == DvcOK(dvc) /\ SrvOK(srv) /\ QueueOK(queue)

StepOK == LoopStep /\ QueueOK(queue')

LEMMA InitOK == Init => IInv
<1> SUFFICES ASSUME Init PROVE IInv OBVIOUS
<1> USE DEF Init
<1>1. ChannelsOK(dvc)
  BY IdsAreInts DEF NewDvc, ChannelsOK, States, open_channel_ids
<1>2. EarlyOK(dvc) BY EmptyList, DynamicAssumption DEF NewDvc, EarlyOK
<1>3. SrvOK(srv) BY Zenon DEF NewSrv, SrvOK, HasFields, Waits
<1>4. QueueOK(queue) BY EmptyList, DynamicAssumption, SMTT(30) DEF QueueOK
<1> QED BY <1>1, <1>2, <1>3, <1>4, Zenon DEF IInv, DvcOK

LEMMA IInvTypes == IInv => TypeOK
BY Zenon DEF IInv, DvcOK, ChannelsOK, EarlyOK, SrvOK, QueueOK, TypeOK

LEMMA WaitingBusy ==
    ASSUME SrvOK(srv), srv.job.direct # << >> \/ srv.job.sending # << >>
    PROVE Busy(srv)
<1>1. Nothing.direct = << >> /\ Nothing.sending = << >> BY Zenon DEF Nothing
<1>2. Waits(srv) BY <1>1, Zenon DEF Waits
<1> QED BY <1>2, Zenon DEF SrvOK, Busy

LEMMA PduStep == IInv /\ dispatch_pdu => StepOK
<1> SUFFICES ASSUME IInv, dispatch_pdu PROVE StepOK OBVIOUS
<1>1. queue' = queue /\ srv.run = "active" BY Zenon DEF dispatch_pdu
<1>2. HasFields(srv) BY Zenon DEF IInv, SrvOK
<1>3. Busy([srv EXCEPT !.lock = "pdu", !.hand = << >>]) /\ Busy([srv EXCEPT !.lock = "pdu"])
  BY <1>1, <1>2, Zenon DEF HasFields, Busy
<1>4. CASE handle_x224(srv.hand[1], [srv EXCEPT !.lock = "pdu", !.hand = << >>])
  BY <1>1, <1>3, <1>4, HandleStep, Zenon DEF IInv, StepOK
<1>5. CASE handle_x224(Head(tcp.up), [srv EXCEPT !.lock = "pdu"])
  BY <1>1, <1>3, <1>5, HandleStep, Zenon DEF IInv, StepOK
<1>6. CASE srv' = [srv EXCEPT !.hand = <<Head(tcp.up)>>] /\ dvc' = dvc
  <2>1. SrvOK(srv') BY <1>6, Zenon DEF IInv, SrvOK, HasFields, Waits
  <2> QED BY <1>1, <1>6, <2>1, SameMoves, Zenon DEF IInv, StepOK, LoopStep
<1> QED BY <1>4, <1>5, <1>6, Zenon DEF dispatch_pdu

LEMMA EventsStep == IInv /\ dispatch_server_events => StepOK
<1> SUFFICES ASSUME IInv, dispatch_server_events PROVE StepOK OBVIOUS
<1> DEFINE first == [srv EXCEPT !.lock = "events", !.batch = Tail(events)]
           later == [srv EXCEPT !.lock = "events", !.batch = Tail(@)]
<1>1. queue' = queue /\ srv.run = "active" BY Zenon DEF dispatch_server_events
<1>2. HasFields(srv) BY Zenon DEF IInv, SrvOK
<1>3. Busy(first) /\ first.lock = "events" BY <1>1, <1>2, Zenon DEF HasFields, Busy
<1>4. Busy(later) /\ later.lock = "events" BY <1>1, <1>2, Zenon DEF HasFields, Busy
<1>5. \/ dispatch(Head(events), first)
      \/ srv' = [srv EXCEPT !.batch = events] /\ dvc' = dvc
      \/ dispatch(Head(srv.batch), later)
  BY Zenon DEF dispatch_server_events
<1> HIDE DEF first, later
<1>6. CASE dispatch(Head(events), first)
  BY <1>1, <1>3, <1>6, DispatchStep, Zenon DEF IInv, StepOK
<1>7. CASE dispatch(Head(srv.batch), later)
  BY <1>1, <1>4, <1>7, DispatchStep, Zenon DEF IInv, StepOK
<1>8. CASE srv' = [srv EXCEPT !.batch = events] /\ dvc' = dvc
  <2>1. SrvOK(srv') BY <1>8, Zenon DEF IInv, SrvOK, HasFields, Waits
  <2> QED BY <1>1, <1>8, <2>1, SameMoves, Zenon DEF IInv, StepOK, LoopStep
<1> QED BY <1>5, <1>6, <1>7, <1>8, Zenon

LEMMA WriteStep == IInv /\ WriteDirect => StepOK
<1> SUFFICES ASSUME IInv, WriteDirect PROVE StepOK OBVIOUS
<1>1. queue' = queue /\ Become(Finish(dvc, Hold(dvc, srv))) BY Zenon DEF WriteDirect
<1>2. Busy(srv) BY WaitingBusy, Zenon DEF IInv, WriteDirect
<1>3. Busy(Hold(dvc, srv)) BY <1>2, HoldHeld, HeldBusy, Zenon DEF Busy
<1> QED BY <1>1, <1>3, FinishStep, Zenon DEF IInv, StepOK

LEMMA SendStep == IInv /\ send_to_tunnel => StepOK
<1> SUFFICES ASSUME IInv, send_to_tunnel PROVE StepOK OBVIOUS
<1>1. Busy(srv) BY WaitingBusy, Zenon DEF IInv, send_to_tunnel
<1>2. CASE tun = "up"
  <2> DEFINE t == [srv EXCEPT !.job.sending = Tail(@)]
             q == Append(queue, Head(srv.job.sending))
  <2>1. Len(queue) < QueueRoom /\ queue' = q /\ Become(Finish(dvc, t))
    BY <1>2, Zenon DEF send_to_tunnel
  <2>2. Held(srv, t) BY <1>1, Zenon DEF Held, Busy, HasFields
  <2>3. IsList(q) /\ Len(q) = Len(queue) + 1 BY AppendList, Zenon DEF IInv, QueueOK
  <2>4. Len(queue) \in Nat BY LenProperties, Zenon DEF IInv, QueueOK, IsList
  <2> HIDE DEF t, q
  <2>5. QueueOK(queue') BY <2>1, <2>3, <2>4, DynamicAssumption, SMTT(30) DEF QueueOK
  <2> QED BY <1>1, <2>1, <2>2, <2>5, HeldBusy, FinishStep, Zenon DEF IInv, StepOK
<1>3. CASE tun # "up"
  <2>1. srv' = Ended(srv, "tunnel") /\ dvc' = dvc /\ queue' = queue
    BY <1>3, Zenon DEF send_to_tunnel
  <2>2. Gone(srv') BY <1>1, <2>1, EndedGone, Zenon DEF Busy
  <2> QED BY <2>1, <2>2, SameMoves, Zenon DEF IInv, StepOK, LoopStep, Gone
<1> QED BY <1>2, <1>3, Zenon

LEMMA ResizeStep == IInv /\ (Resize \/ Reactivate) => StepOK
<1> SUFFICES ASSUME IInv, Resize \/ Reactivate PROVE StepOK OBVIOUS
<1>1. dvc' = dvc /\ queue' = queue BY Zenon DEF Resize, Reactivate
<1>2. CASE Resize
  <2>1. SrvOK(srv') BY <1>2, Zenon DEF Resize, IInv, SrvOK, HasFields, Waits
  <2> QED BY <1>1, <2>1, SameMoves, Zenon DEF IInv, StepOK, LoopStep
<1>3. CASE Reactivate
  <2>1. srv.run = "reactivating" /\ ~Waits(srv) BY <1>3, Zenon DEF Reactivate, IInv, SrvOK
  <2>2. \/ srv' = [srv EXCEPT !.run = "active"]
        \/ srv' = on_multitransport_response(srv, Head(tcp.up))
        \/ srv' = srv
    BY <1>3, Zenon DEF Reactivate
  <2>3. SrvOK(srv')
    BY <2>1, <2>2, Zenon DEF IInv, SrvOK, HasFields, Waits, on_multitransport_response
  <2> QED BY <1>1, <2>3, SameMoves, Zenon DEF IInv, StepOK, LoopStep
<1> QED BY <1>2, <1>3, Zenon

LEMMA TunnelTaskStep ==
    IInv /\ (TunnelSends \/ TunnelUnused \/ TunnelLost) => StepOK
<1> SUFFICES ASSUME IInv, TunnelSends \/ TunnelUnused \/ TunnelLost PROVE StepOK OBVIOUS
<1>1. dvc' = dvc /\ srv' = srv BY Zenon DEF TunnelSends, TunnelUnused, TunnelLost, Down
<1>2. LoopStep BY <1>1, SameMoves, Zenon DEF IInv, LoopStep
<1>3. CASE TunnelSends
  <2>1. queue # << >> /\ queue' = Tail(queue) BY <1>3, Zenon DEF TunnelSends
  <2>2. IsList(Tail(queue)) /\ Len(Tail(queue)) < Len(queue)
    BY <2>1, TailList, Zenon DEF IInv, QueueOK
  <2>3. Len(queue) \in Nat /\ Len(Tail(queue)) \in Nat
    BY <2>2, LenProperties, Zenon DEF IInv, QueueOK, IsList
  <2>4. QueueOK(queue') BY <2>1, <2>2, <2>3, DynamicAssumption, SMTT(30) DEF IInv, QueueOK
  <2> QED BY <1>2, <2>4, Zenon DEF StepOK
<1>4. CASE TunnelUnused \/ TunnelLost
  <2>1. queue' = << >> BY <1>4, Zenon DEF TunnelUnused, TunnelLost, Down
  <2>2. QueueOK(queue') BY <2>1, EmptyList, DynamicAssumption, SMTT(30) DEF QueueOK
  <2> QED BY <1>2, <2>2, Zenon DEF StepOK
<1> QED BY <1>3, <1>4, Zenon

LEMMA OtherStep ==
    ASSUME IInv, dvc' = dvc, srv' = srv, queue' = queue
    PROVE StepOK
BY SameMoves, Zenon DEF IInv, StepOK, LoopStep

LEMMA NextOK == IInv /\ [Next]_vars => StepOK
<1> SUFFICES ASSUME IInv, [Next]_vars PROVE StepOK OBVIOUS
<1>1. CASE UNCHANGED vars BY <1>1, OtherStep, Zenon DEF vars
<1>2. CASE serve_tunnel \/ TunnelReceives
  BY <1>2, OtherStep, Zenon DEF serve_tunnel, TunnelReceives
<1>3. CASE RecordingStarts \/ RecordingStops \/ tick
  BY <1>3, OtherStep, Zenon DEF RecordingStarts, RecordingStops, tick
<1>4. CASE ClientReads \/ ClientReadsTunnel
  BY <1>4, OtherStep, Zenon DEF ClientReads, ClientReadsTunnel
<1>5. CASE \E id \in Ids : HasOutput(id) \/ ClientSends(id) \/ ClientCloses(id)
  BY <1>5, OtherStep, Zenon DEF HasOutput, ClientSends, ClientCloses
<1>6. CASE \E how \in {"ok", "no"} : ClientConfirms(how)
  BY <1>6, OtherStep, Zenon DEF ClientConfirms
<1> QED
  BY <1>1, <1>2, <1>3, <1>4, <1>5, <1>6, PduStep, EventsStep, WriteStep, SendStep,
     ResizeStep, TunnelTaskStep, Zenon DEF Next

LEMMA InvariantKept == Spec => []IInv
<1>1. IInv /\ [Next]_vars => IInv'
  BY NextOK, Zenon DEF StepOK, LoopStep, Moves, IInv
<1> QED BY <1>1, InitOK, PTL DEF Spec

\* Whatever the client sends, and in whichever order the tasks of the client
\* loop come to it: a channel with a route through the tunnel is open, and
\* closing one takes its routes with it, so that a channel created later never
\* finds one (remove_by_channel_id, process_soft_sync_response); a handler that
\* waits for the writer or the tunnel has the lock (write_dvc_messages); the
\* frames held back before the Soft-Sync Response are within their limit and
\* none is left when it has come (process_tunnel); the tunnel's queue is within
\* its room (send_to_tunnel).
THEOREM TypesKept == Spec => []TypeOK
BY InvariantKept, IInvTypes, PTL

\* When the Soft-Sync Request goes out, every channel that is open, or that the
\* client was asked to create, is moved into the tunnel: the request waits for
\* every creation that is outstanding (soft_sync, resume_soft_sync).
THEOREM NoneBehind == Spec => NoneLeftBehind
<1>1. IInv /\ [Next]_vars =>
        [dvc.sync = "Idle" /\ dvc'.sync = "Active" =>
            \A id \in Ids : dvc'.chan[id] \in {"Opened", "Creation", "Pending"}
                => id \in dvc'.out]_vars
  BY NextOK, Zenon DEF StepOK, LoopStep, Moves, AllMoved
<1> QED BY <1>1, InvariantKept, PTL DEF Spec, NoneLeftBehind
=============================================================================

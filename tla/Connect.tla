------------------------------ MODULE Connect ------------------------------
(***************************************************************************)
(* The RDP connection sequence: the client's connector                     *)
(* (crates/ironrdp-connector) and the server's acceptor                    *)
(* (crates/ironrdp-acceptor), each a state machine driven one step at a    *)
(* time by crates/ironrdp-async, talking over one TCP stream; and the part *)
(* of crates/ironrdp-server that takes over an accepted connection, serves *)
(* what the client sends and resizes the desktop by the                    *)
(* Deactivation-Reactivation Sequence, which runs the second half of the   *)
(* acceptor again while the client's traffic is in flight.                 *)
(*                                                                         *)
(* A step that returns an error ends that side without writing what the    *)
(* step had put in its buffer, and the other side then reads the end of    *)
(* the stream. A configuration says what the two ends were set up with:    *)
(* the client's half covers the connector and the other clients its        *)
(* comments describe (no message channel, channels joined one by one,      *)
(* input sent right after the Confirm Active).                             *)
(***************************************************************************)
EXTENDS Integers, Sequences, FiniteSets, SequencesExt

CONSTANTS
    Configs,     \* what the two ends may be set up with (see Config)
    MinDim,      \* MIN_DESKTOP_DIM
    MaxDim,      \* MAX_DESKTOP_DIM
    Resizes,     \* the sizes the display resizes to, in order
    MaxSends     \* bound on the PDUs the client sends of its own accord

VARIABLES
    cfg,         \* the configuration of this connection
    client,      \* the connector, and the client's session after it
    server,      \* the acceptor, and the server's connection after it
    up,          \* client to server, in order
    down         \* server to client, in order

vars == <<cfg, client, server, up, down>>

IO == 3          \* the I/O channel; the user channel is the one below
User == 2
Hybrids == {"hybrid", "hybrid_ex"}
Inputs == {"fast", "slow"}

(***************************************************************************)
(* A configuration. The client: the protocols it offers, the static        *)
(* channels and the size it asks for, its early capability flags, whether  *)
(* it asks for a message channel and which tunnel flags it announces;      *)
(* whether it sends input before the Font Map (eager), answers the tunnel  *)
(* request later (late), already knows the link (sync), joins channels it  *)
(* need not (extra), where, if anywhere, it stops responding (stall), and  *)
(* which auto-reconnect cookie its Client Info carries: none, one of this  *)
(* server's last two, or another. The server: its protocols, channels and  *)
(* size, the largest size its acceptor follows the client to, if any       *)
(* (cap), whether it offers a tunnel and probes the link, and what checks  *)
(* the credentials, which are good or not. Of both: whether the display    *)
(* takes the size the client confirms (follows). It does not when the      *)
(* client's Bitmap capability rules a resize out, when the desktop is of a *)
(* fixed size, or when the X server refuses the size.                      *)
(***************************************************************************)
IsConfig(c) ==
    /\ c.offer \subseteq {"ssl"} \cup Hybrids
    /\ c.security \subseteq {"ssl"} \cup Hybrids
    /\ c.early \subseteq {"skip", "netchar", "layout", "errinfo"}
    /\ c.flags \subseteq {"fecr", "soft_sync"}
    /\ c.flags # {} => c.message
    /\ {c.message, c.eager, c.late, c.sync, c.tunnel, c.probe, c.good,
        c.follows} \subseteq BOOLEAN
    /\ c.check \in {"none", "acceptor", "validator"}
    /\ c.stall \in {"never", "tunnel", "resize"}
    /\ c.cookie \in {"none", "stale", "fresh"}

ASSUME ConfigAssumption == \A c \in Configs : IsConfig(c)

-----------------------------------------------------------------------------
(***************************************************************************)
(* What both drivers do (framed.rs): a step that fails drops the           *)
(* connection with the output it had buffered; a read at the end of the    *)
(* stream fails; a PDU that does not match the hint is read and lost.      *)
(***************************************************************************)
ServerEnds(why) == server' = [server EXCEPT !.at = "Ended", !.why = why]

ClientEnds(why) == client' = [client EXCEPT !.at = "Ended", !.why = why]

\* The PDU at the head of each stream, if there is one.
NextUp == IF up = << >> THEN {} ELSE {Head(up)}
NextDown == IF down = << >> THEN {} ELSE {Head(down)}

\* A step of the server that waits for a PDU, and one that writes.
ServerReads(at) ==
    /\ server.at = at
    /\ up' = Tail(up)
    /\ UNCHANGED <<cfg, client, down>>

ServerWrites(at, out) ==
    /\ server.at = at
    /\ down' = down \o out
    /\ UNCHANGED <<cfg, client, up>>

\* A step of the client that waits for a PDU, and may answer it, and one
\* that only writes.
ClientReads(at, out) ==
    /\ client.at = at
    /\ down' = Tail(down)
    /\ up' = up \o out
    /\ UNCHANGED <<cfg, server>>

ClientWrites(at, out) ==
    /\ client.at = at
    /\ up' = up \o out
    /\ UNCHANGED <<cfg, server, down>>

ServerGoes(at) == server' = [server EXCEPT !.at = at]

ClientGoes(at) == client' = [client EXCEPT !.at = at]

\* A PDU: what it is, the MCS channel it travels on, what it carries.
Pdu(kind, ch, body) == [kind |-> kind, ch |-> ch, body |-> body]
Plain(kind) == Pdu(kind, 0, 0)
OnIo(kind, body) == Pdu(kind, IO, body)

NewClient ==
    [at |-> "SendRequest", why |-> "none", proto |-> {}, ids |-> << >>,
     msg |-> {}, tunnels |-> FALSE, skip |-> FALSE, joins |-> {},
     step |-> 1, size |-> <<0, 0>>, tunnel |-> "none", sent |-> << >>]

NewServer ==
    [at |-> "InitiationWaitRequest", why |-> "none", proto |-> {},
     requested |-> {}, ids |-> << >>, known |-> {}, msg |-> {},
     early |-> {}, flags |-> {}, size |-> cfg.own, asked |-> <<0, 0>>,
     display |-> cfg.own,
     joining |-> {}, joined |-> {}, channel |-> 0, step |-> 1,
     re |-> FALSE, request_sent |-> FALSE, kept |-> << >>,
     aside |-> << >>, creds |-> FALSE, channels |-> FALSE,
     request |-> FALSE, confirmed |-> FALSE, handled |-> << >>,
     resized |-> 0]

Init ==
    /\ cfg \in Configs
    /\ client = NewClient
    /\ server = NewServer
    /\ up = << >>
    /\ down = << >>

-----------------------------------------------------------------------------
(***************************************************************************)
(* Connection initiation and security.                                     *)
(***************************************************************************)
\* ClientConnector: the Connection Request with the enabled protocols.
encode_connection_request ==
    /\ ClientWrites("SendRequest", <<Pdu("request", 0, cfg.offer)>>)
    /\ ClientGoes("WaitConfirm")

InitiationWaitRequest ==
    \E pdu \in NextUp :
        /\ ServerReads("InitiationWaitRequest")
        /\ server' = [server EXCEPT !.at = "InitiationSendConfirm",
                                    !.requested = pdu.body]

\* The strongest protocol both ends have; none (Standard RDP Security) when
\* the server asks for none; otherwise no answer: an empty result.
Select(offer, security) ==
    LET both == offer \cap security IN
    IF "hybrid_ex" \in both THEN {{"hybrid_ex"}}
    ELSE IF "hybrid" \in both THEN {{"hybrid"}}
    ELSE IF "ssl" \in both THEN {{"ssl"}}
    ELSE IF security = {} THEN {{}} ELSE {}

\* The answer. With no common protocol the step encodes a failure (or, for a
\* client that sent no negotiation data, an empty confirm) and returns an
\* error, so the driver writes nothing.
InitiationSendConfirm ==
    \/ \E protocol \in Select(server.requested, cfg.security) :
           /\ ServerWrites("InitiationSendConfirm",
                  <<Pdu("confirm", 0, protocol)>>)
           /\ server' = [server EXCEPT !.at = "SecurityUpgrade",
                                       !.proto = protocol]
    \/ /\ Select(server.requested, cfg.security) = {}
       /\ ServerWrites("InitiationSendConfirm", << >>)
       /\ ServerEnds("mismatch")

\* The client takes a protocol it offered, Standard RDP Security only if it
\* offered nothing else.
WaitConfirm ==
    \E pdu \in NextDown :
        /\ ClientReads("WaitConfirm", << >>)
        /\ IF IF pdu.body = {} THEN cfg.offer = {}
              ELSE pdu.body \cap cfg.offer # {}
           THEN client' = [client EXCEPT !.at = "EnhancedSecurityUpgrade",
                                         !.proto = pdu.body]
           ELSE ClientEnds("protocol")

\* The TLS handshake, and the state after it: CredSSP when it was selected.
\* What the handshake itself exchanges is external.
EnhancedSecurityUpgrade ==
    /\ ClientWrites("EnhancedSecurityUpgrade", << >>)
    /\ ClientGoes(IF client.proto \cap Hybrids # {} THEN "Credssp"
                  ELSE "BasicSettingsSendInitial")

SecurityUpgrade ==
    /\ ServerWrites("SecurityUpgrade", << >>)
    /\ ServerGoes(IF server.proto \cap Hybrids # {} THEN "Credssp"
                  ELSE "BasicSettingsWaitInitial")

\* CredSSP: the client's messages as one and the server's answers as one
\* (the rounds are the library's). HYBRID_EX ends in an Early User
\* Authorization Result whatever the outcome; HYBRID may drop a failed
\* client with or without the library's error.
perform_credssp ==
    /\ ClientWrites("Credssp", <<Plain("credssp")>>)
    /\ ClientGoes("CredsspResult")

perform_credssp_step ==
    /\ up # << >>
    /\ server.at = "Credssp"
    /\ up' = Tail(up)
    /\ UNCHANGED <<cfg, client>>
    /\ IF cfg.good /\ cfg.check # "none"
       THEN /\ down' = Append(down, Pdu("credssp", 0, TRUE))
            /\ ServerGoes("BasicSettingsWaitInitial")
       ELSE /\ \/ down' = Append(down, Pdu("credssp", 0, FALSE))
               \/ "hybrid" \in server.proto /\ UNCHANGED down
            /\ ServerEnds("credssp")

CredsspResult ==
    \E pdu \in NextDown :
        /\ ClientReads("CredsspResult", << >>)
        /\ IF pdu.body THEN ClientGoes("BasicSettingsSendInitial")
           ELSE ClientEnds("denied")

-----------------------------------------------------------------------------
(***************************************************************************)
(* Basic settings, and the channels.                                       *)
(***************************************************************************)
SendInitial ==
    /\ ClientWrites("BasicSettingsSendInitial",
           <<Pdu("initial", 0, [names |-> cfg.names, size |-> cfg.want,
                  early |-> cfg.early, message |-> cfg.message,
                  flags |-> cfg.flags])>>)
    /\ ClientGoes("BasicSettingsWaitResponse")

validate_desktop_size(size) ==
    IF \A d \in 1..2 : size[d] \in MinDim..MaxDim THEN {size} ELSE {}

Clamp(size, max) ==
    [d \in 1..2 |-> IF size[d] < max[d] THEN size[d] ELSE max[d]]

\* The size the session starts at: the client's, no larger than the
\* configured ceiling, if the server follows it and it is a valid size.
DesktopSize(want) ==
    LET honored == UNION {validate_desktop_size(Clamp(want, m)) : m \in cfg.cap}
    IN IF honored = {} THEN cfg.own ELSE CHOOSE size \in honored : TRUE

\* One id after the I/O channel for every channel the client asks for, known
\* to the server or not, in the client's order; then the message channel.
ChannelIds(names) == [i \in 1..Len(names) |-> IO + i]

\* The channels attached to a processor of the server, by id.
Attached(names, ids) ==
    {[id |-> ids[i], name |-> names[i]] :
        i \in {j \in DOMAIN ids : names[j] \in cfg.has}}

BasicSettingsWaitInitial ==
    \E pdu \in NextUp : LET ids == ChannelIds(pdu.body.names) IN
        /\ ServerReads("BasicSettingsWaitInitial")
        /\ server' = [server EXCEPT
               !.at = "BasicSettingsSendResponse",
               !.ids = ids,
               !.known = Attached(pdu.body.names, ids),
               !.msg = IF pdu.body.message THEN {IO + 1 + Len(ids)} ELSE {},
               !.early = pdu.body.early,
               !.flags = pdu.body.flags,
               !.size = DesktopSize(pdu.body.size)]

BasicSettingsSendResponse ==
    /\ ServerWrites("BasicSettingsSendResponse",
           <<Pdu("response", 0, [ids |-> server.ids, msg |-> server.msg,
                  skip |-> "skip" \in server.early,
                  tunnels |-> cfg.tunnel])>>)
    /\ server' = [server EXCEPT
           !.at = "WaitErectDomainRequest",
           !.joining = IF "skip" \in server.early THEN {}
                       ELSE {User, IO} \cup ToSet(server.ids) \cup server.msg]

\* The client gives its channels the ids by position.
BasicSettingsWaitResponse ==
    \E pdu \in NextDown :
        /\ ClientReads("BasicSettingsWaitResponse", << >>)
        /\ client' = [client EXCEPT !.at = "SendErectDomainRequest",
               !.ids = pdu.body.ids, !.msg = pdu.body.msg,
               !.tunnels = pdu.body.tunnels, !.skip = pdu.body.skip]

SendErectDomainRequest ==
    /\ ClientWrites("SendErectDomainRequest", <<Plain("erect")>>)
    /\ ClientGoes("SendAttachUserRequest")

SendAttachUserRequest ==
    /\ ClientWrites("SendAttachUserRequest", <<Plain("attach")>>)
    /\ ClientGoes("WaitAttachUserConfirm")

WaitErectDomainRequest ==
    \E pdu \in NextUp :
        /\ ServerReads("WaitErectDomainRequest")
        /\ ServerGoes("WaitAttachUserRequest")

WaitAttachUserRequest ==
    \E pdu \in NextUp :
        /\ ServerReads("WaitAttachUserRequest")
        /\ ServerGoes("SendAttachUserConfirm")

\* All joined at once when the joins are skipped; RdpSecurityCommencement
\* is a state the acceptor only passes through.
SendAttachUserConfirm ==
    /\ ServerWrites("SendAttachUserConfirm", <<Pdu("attached", 0, User)>>)
    /\ ServerGoes(IF "skip" \in server.early THEN "SecureSettingsExchange"
                  ELSE "WaitChannelJoinRequest")

WaitAttachUserConfirm ==
    \E pdu \in NextDown :
        /\ ClientReads("WaitAttachUserConfirm", << >>)
        /\ IF client.skip THEN ClientGoes("SecureSettingsExchange")
           ELSE client' = [client EXCEPT
                    !.at = "SendChannelJoinRequest",
                    !.joins = {pdu.body, IO} \cup ToSet(client.ids)
                                             \cup client.msg]

\* All the join requests in one batch; cfg.extra first, for the clients that
\* ask for a channel twice or for one that does not exist.
SendChannelJoinRequest ==
    LET asked == cfg.extra \o SetToSeq(client.joins) IN
    /\ ClientWrites("SendChannelJoinRequest",
           [i \in 1..Len(asked) |-> Pdu("join", 0, asked[i])])
    /\ client' = [client EXCEPT !.at = "WaitChannelJoinConfirm",
                                !.joins = @ \cup ToSet(cfg.extra)]

\* A channel already joined gets no answer, an unknown one a refusal.
WaitChannelJoinRequest ==
    \E pdu \in NextUp :
        /\ server.at = "WaitChannelJoinRequest"
        /\ up' = Tail(up)
        /\ UNCHANGED <<cfg, client>>
        /\ \/ /\ pdu.body \in server.joined
              /\ UNCHANGED <<server, down>>
           \/ /\ pdu.body \notin server.joined \cup server.joining
              /\ down' = Append(down, Pdu("joined", 0, pdu.body))
              /\ UNCHANGED server
           \/ /\ pdu.body \in server.joining \ server.joined
              /\ server' = [server EXCEPT !.at = "SendChannelJoinConfirm",
                     !.joining = @ \ {pdu.body}, !.channel = pdu.body]
              /\ UNCHANGED down

SendChannelJoinConfirm ==
    /\ ServerWrites("SendChannelJoinConfirm",
           <<Pdu("joined", 0, server.channel)>>)
    /\ server' = [server EXCEPT
           !.joined = @ \cup {server.channel},
           !.at = IF server.joining = {} THEN "SecureSettingsExchange"
                  ELSE "WaitChannelJoinRequest"]

WaitChannelJoinConfirm ==
    \E pdu \in NextDown :
        /\ ClientReads("WaitChannelJoinConfirm", << >>)
        /\ IF pdu.body \notin client.joins THEN ClientEnds("protocol")
           ELSE client' = [client EXCEPT
                    !.joins = @ \ {pdu.body},
                    !.at = IF client.joins = {pdu.body}
                           THEN "SecureSettingsExchange"
                           ELSE "WaitChannelJoinConfirm"]

-----------------------------------------------------------------------------
(***************************************************************************)
(* Credentials, the link probe, licensing and the tunnel request.          *)
(***************************************************************************)
create_client_info_pdu ==
    /\ ClientWrites("SecureSettingsExchange", <<OnIo("info", 0)>>)
    /\ ClientGoes("ConnectTimeAutoDetection")

\* A bug: what the client sent is kept only when it was compared.
SecureSettingsExchange_Compared ==
    \E pdu \in NextUp :
        LET nla == server.proto \cap Hybrids # {}
            probe == cfg.probe /\ "netchar" \in server.early /\ server.msg # {}
        IN
        /\ ServerReads("SecureSettingsExchange")
        /\ IF pdu.kind # "info" THEN ServerEnds("protocol")
           ELSE IF ~nla /\ cfg.check = "acceptor" /\ ~cfg.good
           THEN ServerEnds("credentials")
           ELSE server' = [server EXCEPT
                    !.creds = ~nla /\ cfg.check = "acceptor",
                    !.at = IF probe THEN "SendRttRequest"
                           ELSE "LicensingExchange"]

\* Anything but the Client Info fails to decode. CredSSP has checked the
\* credentials already; otherwise the configured ones are compared here (the
\* error info that would refuse them is encoded and lost with the error), or
\* kept for the validator.
SecureSettingsExchange ==
    \E pdu \in NextUp :
        LET nla == server.proto \cap Hybrids # {}
            probe == cfg.probe /\ "netchar" \in server.early /\ server.msg # {}
        IN
        /\ ServerReads("SecureSettingsExchange")
        /\ IF pdu.kind # "info" THEN ServerEnds("protocol")
           ELSE IF ~nla /\ cfg.check = "acceptor" /\ ~cfg.good
           THEN ServerEnds("credentials")
           ELSE server' = [server EXCEPT
                    !.creds = ~nla,
                    !.at = IF probe THEN "SendRttRequest"
                           ELSE "LicensingExchange"]

OnMessage(kind) == Pdu(kind, CHOOSE id \in server.msg : TRUE, 0)

\* The probe's writes: the request, the timed payload (start and stop), and
\* the result.
SendRttRequest ==
    /\ ServerWrites("SendRttRequest", <<OnMessage("rtt_request")>>)
    /\ ServerGoes("WaitRttResponse")

SendBandwidthMeasure ==
    /\ ServerWrites("SendBandwidthMeasure",
           <<OnMessage("bw_start"), OnMessage("bw_stop")>>)
    /\ ServerGoes("WaitBandwidthResults")

SendResult ==
    /\ ServerWrites("SendResult", <<OnMessage("netchar_result")>>)
    /\ ServerGoes("LicensingExchange")

\* A client that knows the link answers with a sync, which ends the probe
\* with no result; anything else is read past.
WaitProbe(at, answer, next) ==
    \E pdu \in NextUp :
        /\ ServerReads(at)
        /\ ServerGoes(IF pdu.kind = answer THEN next
                      ELSE IF pdu.kind = "netchar_sync"
                      THEN "LicensingExchange" ELSE at)

WaitRttResponse ==
    WaitProbe("WaitRttResponse", "rtt_response", "SendBandwidthMeasure")

WaitBandwidthResults ==
    WaitProbe("WaitBandwidthResults", "bw_results", "SendResult")

\* The client reads here only if it has a message channel: what comes on it
\* is answered or ignored, and the first PDU on another channel is the
\* license.
ConnectTimeAutoDetection ==
    \/ /\ client.msg = {}
       /\ ClientWrites("ConnectTimeAutoDetection", << >>)
       /\ ClientGoes("LicensingExchange")
    \/ \E pdu \in NextDown :
           /\ client.msg # {}
           /\ ClientReads("ConnectTimeAutoDetection",
                  IF pdu.kind = "rtt_request"
                  THEN <<Pdu(IF cfg.sync THEN "netchar_sync"
                             ELSE "rtt_response", pdu.ch, 0)>>
                  ELSE IF pdu.kind = "bw_stop"
                  THEN <<Pdu("bw_results", pdu.ch, 0)>> ELSE << >>)
           /\ ClientGoes(IF pdu.ch \in client.msg
                         THEN "ConnectTimeAutoDetection"
                         ELSE "MultitransportBootstrapping")

advance_licensing_exchange ==
    \E pdu \in NextDown :
        /\ ClientReads("LicensingExchange", << >>)
        /\ ClientGoes("MultitransportBootstrapping")

\* The server offers a tunnel to a client that can move channels to it.
multitransport_bootstrap ==
    cfg.tunnel /\ server.msg # {} /\ server.flags = {"fecr", "soft_sync"}

LicensingExchange ==
    /\ ServerWrites("LicensingExchange", <<OnIo("license", 0)>>)
    /\ ServerGoes(IF multitransport_bootstrap
                  THEN "MultitransportBootstrapping"
                  ELSE "CapabilitiesSendServer")

MultitransportBootstrapping ==
    /\ ServerWrites("MultitransportBootstrapping",
           <<OnMessage("tunnel_request")>>)
    /\ server' = [server EXCEPT !.at = "CapabilitiesSendServer",
                                !.request_sent = TRUE]

\* A PDU of the client's own, numbered: input, static channel data or
\* something on the message channel.
Numbered(kind, ch) == Pdu(kind, ch, Len(client.sent) + 1)

Sent(kind, to) == Append(client.sent, [kind |-> kind, to |-> to])

\* What the client answers to the tunnel request: nothing, unless it failed
\* or Soft-Sync was agreed.
Responds(ok) == ~ok \/ (client.tunnels /\ "soft_sync" \in cfg.flags)

Response(ok) ==
    IF Responds(ok)
    THEN <<Numbered(IF ok THEN "tunnel_ok" ELSE "tunnel_failed",
                    CHOOSE id \in client.msg : TRUE)>>
    ELSE << >>

Answered(ok) ==
    [client EXCEPT !.tunnel = IF ok THEN "ok" ELSE "failed",
                   !.sent = IF Responds(ok) THEN Sent("message", "") ELSE @]

\* The application's handler brings the tunnel up or not; if it fails with an
\* error the client reports a failure and gives the connection up.
MultitransportPending ==
    /\ cfg.stall # "tunnel"
    /\ \/ \E ok \in BOOLEAN :
              /\ ~cfg.late
              /\ ClientWrites("MultitransportPending", Response(ok))
              /\ client' = [Answered(ok) EXCEPT
                                 !.at = "MultitransportBootstrapping"]
       \/ /\ cfg.late
          /\ ClientWrites("MultitransportPending", << >>)
          /\ client' = [client EXCEPT !.at = "MultitransportBootstrapping",
                                      !.tunnel = "pending"]
       \/ /\ ClientWrites("MultitransportPending", Response(FALSE))
          /\ client' = [Answered(FALSE) EXCEPT !.at = "Ended",
                                               !.why = "handler"]

\* A client that brings the tunnel up in the background answers once it has.
RespondsLate ==
    \E ok \in BOOLEAN :
        /\ client.tunnel = "pending"
        /\ client.at # "Ended"
        /\ ClientWrites(client.at, Response(ok))
        /\ client' = Answered(ok)

-----------------------------------------------------------------------------
(***************************************************************************)
(* Capabilities and finalization, in the connection sequence and again in  *)
(* every Deactivation-Reactivation Sequence.                               *)
(***************************************************************************)
CapabilitiesSendServer ==
    /\ ServerWrites("CapabilitiesSendServer", <<OnIo("demand", server.size)>>)
    /\ ServerGoes(IF "layout" \in server.early THEN "MonitorLayoutSend"
                  ELSE "CapabilitiesWaitConfirm")

MonitorLayoutSend ==
    /\ ServerWrites("MonitorLayoutSend", <<OnIo("layout", server.size)>>)
    /\ ServerGoes("CapabilitiesWaitConfirm")

\* ConnectionActivationSequence: the size in the Demand Active is the one the
\* client uses; a Deactivate All is passed over, an error info is the end.
Activation(pdu) ==
    IF pdu.kind = "demand"
    THEN [client EXCEPT !.at = "ConnectionFinalization", !.step = 1,
                        !.size = pdu.body]
    ELSE IF pdu.kind = "deactivate"
    THEN [client EXCEPT !.at = "CapabilitiesExchange"]
    ELSE [client EXCEPT !.at = "Ended", !.why = "denied"]

\* The Confirm Active, with that size in its Bitmap capability.
Confirm(pdu) ==
    IF pdu.kind = "demand" THEN <<OnIo("confirm", pdu.body)>> ELSE << >>

\* The client, after licensing: a tunnel request on the message channel, or
\* the Demand Active on the I/O channel.
ClientBootstrapping ==
    \E pdu \in NextDown :
        /\ ClientReads("MultitransportBootstrapping",
               IF pdu.ch \in client.msg THEN << >> ELSE Confirm(pdu))
        /\ IF pdu.ch \in client.msg THEN ClientGoes("MultitransportPending")
           ELSE client' = Activation(pdu)

CapabilitiesExchange ==
    \E pdu \in NextDown :
        /\ ClientReads("CapabilitiesExchange", Confirm(pdu))
        /\ client' = Activation(pdu)

\* The four PDUs each end sends, in order.
Finalization == <<"synchronize", "cooperate", "request_control", "font_list">>
Confirmation == <<"synchronize", "cooperate", "granted_control", "font_map">>

\* ConnectionFinalizationSequence: four PDUs one after the other, then read
\* until the Font Map.
ConnectionFinalization ==
    /\ ClientWrites("ConnectionFinalization",
           <<OnIo(Finalization[client.step], 0)>>)
    /\ client' = IF client.step = Len(Finalization)
                 THEN [client EXCEPT !.at = "WaitForResponse"]
                 ELSE [client EXCEPT !.step = @ + 1]

WaitForResponse ==
    \E pdu \in NextDown :
        /\ ClientReads("WaitForResponse", << >>)
        /\ IF pdu.kind = "font_map" THEN ClientGoes("Active")
           ELSE IF pdu.kind \in ToSet(Confirmation) \cup {"layout"}
           THEN UNCHANGED client ELSE ClientEnds("protocol")

\* Is this a PDU that decodes as a Share Control PDU?
IsShareControl(pdu) == pdu.ch = IO

\* The wait for the Confirm Active. Fast-path input does not match the hint
\* and is lost in the driver; what comes on the message channel is kept;
\* anything that does not decode is dropped, but only in a reactivation, and
\* any other Share Control PDU ends the connection.
CapabilitiesWaitConfirm ==
    \E pdu \in NextUp :
        /\ ServerReads("CapabilitiesWaitConfirm")
        /\ IF pdu.kind = "fast" THEN UNCHANGED server
           ELSE IF pdu.ch \in server.msg
           THEN server' = [server EXCEPT !.kept = Append(@, pdu)]
           ELSE IF pdu.kind = "confirm"
           THEN server' = [server EXCEPT !.at = "FinalizationWait",
                             !.step = 1, !.aside = << >>, !.asked = pdu.body]
           ELSE IF pdu.kind = "ultimatum" \/ IsShareControl(pdu) \/ ~server.re
           THEN ServerEnds("protocol")
           ELSE UNCHANGED server

\* A bug: only what comes last, while the Font List is awaited, is kept.
set_aside_Late(pdu) ==
    IF pdu.ch \in server.msg
    THEN [server EXCEPT !.kept = Append(@, pdu)]
    ELSE IF server.step = Len(Finalization)
    THEN [server EXCEPT !.aside = Append(@, pdu)]
    ELSE server

\* Keep a PDU that is not the one waited for.
set_aside(pdu) ==
    IF pdu.ch \in server.msg
    THEN [server EXCEPT !.kept = Append(@, pdu)]
    ELSE [server EXCEPT !.aside = Append(@, pdu)]

FinalizationWait ==
    \E pdu \in NextUp :
        /\ ServerReads("FinalizationWait")
        /\ server' = IF pdu.kind # Finalization[server.step]
                     THEN set_aside(pdu)
                     ELSE IF server.step < Len(Finalization)
                     THEN [server EXCEPT !.step = @ + 1]
                     ELSE [server EXCEPT !.at = "FinalizationSend",
                                         !.step = 1]

FinalizationSend ==
    /\ ServerWrites("FinalizationSend",
           <<OnIo(Confirmation[server.step], 0)>>)
    /\ server' = IF server.step < Len(Confirmation)
                 THEN [server EXCEPT !.step = @ + 1]
                 ELSE [server EXCEPT !.at = "Accepted"]

-----------------------------------------------------------------------------
(***************************************************************************)
(* The session: what the server does with the connection it accepted, and  *)
(* what the client sends.                                                  *)
(***************************************************************************)
\* One PDU of the client, by the channel it came on: input to the input
\* handler, the message channel's to the tunnel or auto-detect code, static
\* channel data to the processor attached to the channel, if the channels
\* are in place; anything else is passed over.
handle(s, pdu) ==
    LET done(to) == [s EXCEPT !.handled = Append(@, [n |-> pdu.body, to |-> to])]
        here == {c \in s.known : s.channels /\ c.id = pdu.ch}
    IN IF pdu.kind \in Inputs THEN done("")
       ELSE IF pdu.ch \in s.msg
       THEN [done("") EXCEPT
                !.confirmed = @ \/ (pdu.kind = "tunnel_ok" /\ s.request)]
       ELSE IF here # {} THEN done((CHOOSE c \in here : TRUE).name)
       ELSE s

\* A new connection forgets the last one's tunnel and request; a
\* reactivation keeps them.
ResetTunnel(s) ==
    IF s.re THEN s
    ELSE [s EXCEPT !.confirmed = FALSE, !.request = s.request_sent]

Replay(s) == FoldLeft(handle, [s EXCEPT !.channels = TRUE], s.kept)

\* A bug: the reset comes last.
TakeOver_ResetLast(s) == ResetTunnel(Replay(FoldLeft(handle, s, s.aside)))

\* The backlog, the reset and the message channel PDUs, in that order.
TakeOver(s) == Replay(ResetTunnel(FoldLeft(handle, s, s.aside)))

\* A cookie of a TLS server's own, the current one or the one before, stands
\* for the credentials; any other makes this an ordinary logon.
is_auto_reconnect == cfg.cookie = "fresh" /\ cfg.security # {}

\* A bug: the display keeps its size.
request_initial_size_Kept == server.display

\* The size of the display, once it has been asked for the client's.
request_initial_size == IF cfg.follows THEN server.asked ELSE server.display

\* The validator, when one is configured, sees the credentials of the Client
\* Info once, unless the cookie stands for them; they are not there in a
\* reactivation. Then the session takes over what the acceptor kept, and its
\* encoder is made for the size the display has by then.
client_accepted ==
    LET denied == /\ server.creds /\ cfg.check = "validator"
                  /\ ~is_auto_reconnect /\ ~cfg.good
        taken == TakeOver(server)
    IN
    /\ ServerWrites("Accepted",
           IF denied /\ "errinfo" \in server.early
           THEN <<OnIo("errinfo", 0)>> ELSE << >>)
    /\ IF denied THEN ServerEnds("denied")
       ELSE server' = [server EXCEPT
                !.at = "Active", !.creds = FALSE,
                !.kept = << >>, !.aside = << >>, !.channels = TRUE,
                !.handled = taken.handled, !.request = taken.request,
                !.confirmed = taken.confirmed,
                !.display = request_initial_size]

\* Only a disconnect at the user's request comes from the client.
dispatch_pdu ==
    \E pdu \in NextUp :
        /\ ServerReads("Active")
        /\ IF pdu.kind = "ultimatum" THEN ServerEnds("left")
           ELSE server' = handle(server, pdu)

\* The display changed size: Deactivate All, and the acceptor again from the
\* capabilities on, with the channels out of the server's hands until then.
new_deactivation_reactivation ==
    /\ server.resized < Len(Resizes)
    /\ ServerWrites("Active", <<OnIo("deactivate", 0)>>)
    /\ server' = [server EXCEPT
           !.at = "CapabilitiesSendServer", !.re = TRUE,
           !.size = Resizes[server.resized + 1], !.resized = @ + 1,
           !.display = Resizes[server.resized + 1],
           !.request_sent = FALSE, !.kept = << >>, !.channels = FALSE]

\* The server ends the session and says so.
Disconnect ==
    /\ ServerWrites("Active", <<Plain("ultimatum")>>)
    /\ ServerEnds("quit")

\* The client's session: a Deactivate All starts a reactivation (the driver
\* is the application's), an error info or an ultimatum is the end.
ClientActive ==
    \E pdu \in NextDown :
        /\ ClientReads("Active", << >>)
        /\ IF pdu.kind = "deactivate"
           THEN ClientGoes(IF cfg.stall = "resize" THEN "Stalled"
                           ELSE "CapabilitiesExchange")
           ELSE ClientEnds(IF pdu.kind = "errinfo" THEN "denied"
                           ELSE "ultimatum")

\* What the client sends of its own accord once it is connected, input
\* already after the Confirm Active.
ClientSends(kind, ch, to) ==
    /\ Len(client.sent) < MaxSends
    /\ ClientWrites(client.at, <<Numbered(kind, ch)>>)
    /\ client' = [client EXCEPT !.sent = Sent(kind, to)]

SendsInput ==
    /\ \/ client.at = "Active"
       \/ cfg.eager /\ client.at \in {"ConnectionFinalization", "WaitForResponse"}
    /\ \/ ClientSends("fast", 0, "")
       \/ ClientSends("slow", IO, "")

SendsData ==
    /\ client.at = "Active"
    /\ \/ \E i \in DOMAIN client.ids :
              ClientSends("data", client.ids[i], cfg.names[i])
       \/ \E id \in client.msg : ClientSends("message", id, "")

Leaves ==
    /\ ClientWrites("Active", <<Plain("ultimatum")>>)
    /\ ClientEnds("left")

-----------------------------------------------------------------------------
\* The states that read: at the end of the stream they fail.
ServerWaits == {"InitiationWaitRequest", "Credssp", "BasicSettingsWaitInitial",
    "WaitErectDomainRequest", "WaitAttachUserRequest",
    "WaitChannelJoinRequest", "SecureSettingsExchange", "WaitRttResponse",
    "WaitBandwidthResults", "CapabilitiesWaitConfirm", "FinalizationWait",
    "Active"}

ClientWaits == {"WaitConfirm", "CredsspResult", "BasicSettingsWaitResponse",
    "WaitAttachUserConfirm", "WaitChannelJoinConfirm",
    "ConnectTimeAutoDetection", "LicensingExchange",
    "MultitransportBootstrapping", "CapabilitiesExchange",
    "WaitForResponse", "Active"}

ServerEof ==
    /\ client.at = "Ended"
    /\ up = << >>
    /\ server.at \in ServerWaits
    /\ ServerEnds("eof")
    /\ UNCHANGED <<cfg, client, up, down>>

ClientEof ==
    /\ server.at = "Ended"
    /\ down = << >>
    /\ client.at \in ClientWaits
    /\ ClientEnds("eof")
    /\ UNCHANGED <<cfg, server, up, down>>

\* A bug: the bound covers the first pass only.
FinalizeTimeout_Once ==
    /\ ~server.re
    /\ server.at \in ServerWaits \ {"InitiationWaitRequest", "Credssp", "Active"}
    /\ ServerEnds("timeout")
    /\ UNCHANGED <<cfg, client, up, down>>

\* FINALIZE_TIMEOUT bounds every pass of the acceptor after the security
\* upgrade, the first and each reactivation's.
FinalizeTimeout ==
    /\ server.at \in ServerWaits \ {"InitiationWaitRequest", "Credssp", "Active"}
    /\ ServerEnds("timeout")
    /\ UNCHANGED <<cfg, client, up, down>>

ServerStep ==
    \/ InitiationWaitRequest \/ InitiationSendConfirm \/ SecurityUpgrade
    \/ perform_credssp_step \/ BasicSettingsWaitInitial
    \/ BasicSettingsSendResponse \/ WaitErectDomainRequest
    \/ WaitAttachUserRequest \/ SendAttachUserConfirm
    \/ WaitChannelJoinRequest \/ SendChannelJoinConfirm
    \/ SecureSettingsExchange \/ SendRttRequest \/ WaitRttResponse
    \/ SendBandwidthMeasure \/ WaitBandwidthResults \/ SendResult
    \/ LicensingExchange \/ MultitransportBootstrapping
    \/ CapabilitiesSendServer \/ MonitorLayoutSend
    \/ CapabilitiesWaitConfirm \/ FinalizationWait \/ FinalizationSend
    \/ client_accepted \/ dispatch_pdu \/ ServerEof

ClientStep ==
    \/ encode_connection_request \/ WaitConfirm \/ EnhancedSecurityUpgrade
    \/ perform_credssp \/ CredsspResult \/ SendInitial
    \/ BasicSettingsWaitResponse \/ SendErectDomainRequest
    \/ SendAttachUserRequest \/ WaitAttachUserConfirm
    \/ SendChannelJoinRequest \/ WaitChannelJoinConfirm
    \/ create_client_info_pdu \/ ConnectTimeAutoDetection
    \/ advance_licensing_exchange \/ ClientBootstrapping
    \/ MultitransportPending \/ CapabilitiesExchange
    \/ ConnectionFinalization \/ WaitForResponse \/ ClientActive
    \/ ClientEof

Next ==
    \/ ServerStep \/ ClientStep \/ FinalizeTimeout
    \/ new_deactivation_reactivation \/ Disconnect
    \/ RespondsLate \/ SendsInput \/ SendsData \/ Leaves

Spec == Init /\ [][Next]_vars

\* Both drivers run until they have nothing to read; the timer fires.
FairSpec ==
    Spec /\ WF_vars(ServerStep) /\ WF_vars(ClientStep) /\ WF_vars(FinalizeTimeout)

-----------------------------------------------------------------------------
(***************************************************************************)
(* Properties.                                                             *)
(***************************************************************************)

\* Whenever no resize is under way both ends take the session to have the
\* same size, the one of the Demand Active, through the clamp in
\* BasicSettingsWaitInitial and through each Deactivation-Reactivation
\* Sequence; and the encoder of client_accepted draws at that size, unless the
\* acceptor followed the client to a size that the display did not follow it
\* to (of which server.rs:4334 says the updates do not fit), and then until
\* the first resize.
SizeAgreed ==
    /\ client.at = "Active"
    /\ server.at = "Active"
    /\ \A i \in DOMAIN down : down[i].kind # "deactivate"
    => /\ client.size = server.size
       /\ \A d \in 1..2 : server.size[d] \in MinDim..MaxDim
       /\ server.resized = 0 =>
              \A max \in cfg.cap :
                  \/ server.size = cfg.own
                  \/ \A d \in 1..2 : server.size[d] <= max[d]
       /\ cfg.follows \/ cfg.cap = {} \/ server.resized > 0 =>
              server.display = client.size

\* The rank of a selected protocol.
Rank(proto) ==
    IF "hybrid_ex" \in proto THEN 3 ELSE IF "hybrid" \in proto THEN 2
    ELSE IF "ssl" \in proto THEN 1 ELSE 0

\* Two ends in a session agree on it: on the protocol, which is the strongest
\* one both were set up with; on the message channel, whose id the acceptor
\* counts up to in BasicSettingsWaitInitial and which no other channel has;
\* and on the size.
Agreement ==
    /\ client.at = "Active" /\ server.at # "Ended" =>
        /\ client.proto = server.proto
        /\ \A p \in cfg.offer \cap cfg.security : Rank({p}) <= Rank(server.proto)
        /\ client.msg = server.msg
        /\ Cardinality({User, IO} \cup ToSet(client.ids) \cup client.msg)
               = 2 + Len(client.ids) + Cardinality(client.msg)
    /\ SizeAgreed

\* No session runs on the wrong credentials when anything is there to check
\* them: CredSSP, the acceptor's comparison, or the validator in
\* client_accepted, which sees them only on the first activation. The one way
\* around is a cookie that verifies, and it gets past the validator alone:
\* where the acceptor compares, or CredSSP was selected, it does not count.
OnlyTheRightOnes ==
    server.at = "Active" /\ cfg.check # "none" =>
        \/ cfg.good
        \/ /\ cfg.check = "validator" /\ server.proto \cap Hybrids = {}
           /\ cfg.cookie = "fresh" /\ cfg.security # {}

\* The numbers of the PDUs of some kinds: sent, handled, and on the way.
Numbers(kinds) ==
    SelectSeq([n \in 1..Len(client.sent) |-> n],
              LAMBDA n : client.sent[n].kind \in kinds)

Handled(kinds) ==
    SelectSeq([i \in 1..Len(server.handled) |-> server.handled[i].n],
              LAMBDA n : client.sent[n].kind \in kinds)

Bodies(pdus, kinds) ==
    LET them == SelectSeq(pdus, LAMBDA p : p.kind \in kinds)
    IN [i \in 1..Len(them) |-> them[i].body]

MessageKinds == {"message", "tunnel_ok", "tunnel_failed"}

\* What the client says on the message channel is handled once and in order,
\* whether it comes before the Confirm Active, during the finalization, in
\* the session or in the middle of a reactivation: the acceptor keeps it for
\* the server (connection.rs, CapabilitiesWaitConfirm; finalization.rs,
\* set_aside) and client_accepted replays it.
MessagesKept ==
    server.at # "Ended" =>
        Numbers({"message"}) =
            Handled({"message"}) \o Bodies(server.kept, MessageKinds)
                                 \o Bodies(up, MessageKinds)

\* Input is never reordered or repeated, and until the first resize none is
\* lost, not even what comes before the Font List: the finalization sets it
\* aside and handle_input_backlog hands it over before anything newer.
InputKept ==
    LET there == Handled(Inputs) \o Bodies(server.aside, Inputs)
                                 \o Bodies(up, Inputs)
    IN server.at # "Ended" =>
           /\ \A i, j \in DOMAIN there : i < j => there[i] < there[j]
           /\ server.resized = 0 => there = Numbers(Inputs)

\* The server counts on the tunnel exactly when the client has said it is up:
\* once the answer is read, whether it came early or late, and through every
\* reactivation (client_accepted resets the tunnel's state, then replays the
\* answers kept for it).
TunnelAgreed ==
    /\ server.confirmed => client.tunnel = "ok"
    /\ client.tunnel = "ok" /\ server.at = "Active"
           /\ Bodies(up, {"tunnel_ok"}) = << >> => server.confirmed

\* Static channel data reaches the processor of the channel it was meant for
\* or none: the acceptor numbers the channels of the client's list, the ones
\* it does not know included (BasicSettingsWaitInitial), and the connector
\* pairs the numbers with its own list by position.
RightChannel ==
    \A i \in DOMAIN server.handled :
        server.handled[i].to = client.sent[server.handled[i].n].to

\* What the client sends is handled once, in order and by the right handler,
\* at whatever point of the sequence it comes.
ClientHeard == MessagesKept /\ InputKept /\ RightChannel

\* Neither end hangs on the other: the server ends up in a session or with
\* the connection closed even if the client stops responding, and so does a
\* client that does not.
Settles ==
    /\ <>[](server.at \in {"Active", "Ended"})
    /\ cfg.stall = "never" =>
           <>[](/\ client.at \in {"Active", "Ended"}
                /\ client.at = "Ended" <=> server.at = "Ended")
=============================================================================

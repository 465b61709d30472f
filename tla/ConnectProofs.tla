--------------------------- MODULE ConnectProofs ---------------------------
(***************************************************************************)
(* No session on the wrong credentials, whatever the two ends were set up  *)
(* with, but for the cookie that stands for them. The configuration never  *)
(* changes, so the only case to look at is the one where something checks  *)
(* the credentials and they are wrong. Then the server is never anywhere   *)
(* but where the inductive invariant Refused says: CredSSP is the end of   *)
(* the connection, so whoever is beyond it did not negotiate it; the       *)
(* acceptor's own comparison is the end too, so whoever is beyond the      *)
(* Client Info has a validator, and either the credentials waiting for it, *)
(* the first time, or a cookie that got the client past it before; and in  *)
(* the session only the cookie is left. What is replayed to the session in *)
(* client_accepted touches none of this, since the session takes nothing   *)
(* over but what was handled and the state of the tunnel.                  *)
(***************************************************************************)
EXTENDS Connect, TLAPS

\* Up to the end of CredSSP.
Opening == {"InitiationWaitRequest", "InitiationSendConfirm", "SecurityUpgrade", "Credssp"}

\* From there to the Client Info.
Settings ==
    {"BasicSettingsWaitInitial", "BasicSettingsSendResponse",
     "WaitErectDomainRequest", "WaitAttachUserRequest", "SendAttachUserConfirm",
     "WaitChannelJoinRequest", "SendChannelJoinConfirm", "SecureSettingsExchange"}

\* From there to the session.
Informed ==
    {"SendRttRequest", "WaitRttResponse", "SendBandwidthMeasure",
     "WaitBandwidthResults", "SendResult", "LicensingExchange",
     "MultitransportBootstrapping", "CapabilitiesSendServer", "MonitorLayoutSend",
     "CapabilitiesWaitConfirm", "FinalizationWait", "FinalizationSend", "Accepted"}

\* Something checks the credentials, and they are wrong.
Wrong == cfg.check # "none" /\ ~cfg.good

\* A server that has let the client in by the cookie, if at all.
Refused ==
    /\ {"at", "proto", "creds"} \subseteq DOMAIN server
    /\ server.at \in Opening \cup Settings \cup Informed \cup {"Active", "Ended"}
    /\ server.at \in Settings \cup Informed \cup {"Active"} =>
           server.proto \cap Hybrids = {}
    /\ server.at \in Informed \cup {"Active"} => cfg.check = "validator"
    /\ server.at \in Informed => server.creds = TRUE \/ is_auto_reconnect
    /\ server.at = "Active" => is_auto_reconnect

IInv == cfg \in Configs /\ (Wrong => Refused)

-----------------------------------------------------------------------------
LEMMA InitIInv == Init => IInv
BY DEF Init, NewServer, IInv, Refused, Opening, Settings, Informed

\* The client, its streams and its end leave the server alone.
LEMMA ClientFrame ==
    ASSUME ClientStep \/ RespondsLate \/ SendsInput \/ SendsData \/ Leaves
    PROVE UNCHANGED <<cfg, server>>
<1> USE DEF ClientReads, ClientWrites
<1>1. CASE ClientStep
  <2>1. CASE encode_connection_request BY <2>1, Zenon DEF encode_connection_request
  <2>2. CASE WaitConfirm BY <2>2, Zenon DEF WaitConfirm
  <2>3. CASE EnhancedSecurityUpgrade BY <2>3, Zenon DEF EnhancedSecurityUpgrade
  <2>4. CASE perform_credssp BY <2>4, Zenon DEF perform_credssp
  <2>5. CASE CredsspResult BY <2>5, Zenon DEF CredsspResult
  <2>6. CASE SendInitial BY <2>6, Zenon DEF SendInitial
  <2>7. CASE BasicSettingsWaitResponse BY <2>7, Zenon DEF BasicSettingsWaitResponse
  <2>8. CASE SendErectDomainRequest BY <2>8, Zenon DEF SendErectDomainRequest
  <2>9. CASE SendAttachUserRequest BY <2>9, Zenon DEF SendAttachUserRequest
  <2>10. CASE WaitAttachUserConfirm BY <2>10, Zenon DEF WaitAttachUserConfirm
  <2>11. CASE SendChannelJoinRequest BY <2>11, Zenon DEF SendChannelJoinRequest
  <2>12. CASE WaitChannelJoinConfirm BY <2>12, Zenon DEF WaitChannelJoinConfirm
  <2>13. CASE create_client_info_pdu BY <2>13, Zenon DEF create_client_info_pdu
  <2>14. CASE ConnectTimeAutoDetection BY <2>14, Zenon DEF ConnectTimeAutoDetection
  <2>15. CASE advance_licensing_exchange BY <2>15, Zenon DEF advance_licensing_exchange
  <2>16. CASE ClientBootstrapping BY <2>16, Zenon DEF ClientBootstrapping
  <2>17. CASE MultitransportPending BY <2>17, Zenon DEF MultitransportPending
  <2>18. CASE CapabilitiesExchange BY <2>18, Zenon DEF CapabilitiesExchange
  <2>19. CASE ConnectionFinalization BY <2>19, Zenon DEF ConnectionFinalization
  <2>20. CASE WaitForResponse BY <2>20, Zenon DEF WaitForResponse
  <2>21. CASE ClientActive BY <2>21, Zenon DEF ClientActive
  <2>22. CASE ClientEof BY <2>22, Zenon DEF ClientEof
  <2> QED BY <1>1, <2>1, <2>2, <2>3, <2>4, <2>5, <2>6, <2>7, <2>8, <2>9, <2>10,
             <2>11, <2>12, <2>13, <2>14, <2>15, <2>16, <2>17, <2>18, <2>19, <2>20,
             <2>21, <2>22, Zenon DEF ClientStep
<1>2. CASE RespondsLate BY <1>2, Zenon DEF RespondsLate
<1>3. CASE SendsInput BY <1>3, Zenon DEF SendsInput, ClientSends
<1>4. CASE SendsData BY <1>4, Zenon DEF SendsData, ClientSends
<1>5. CASE Leaves BY <1>5, Zenon DEF Leaves
<1> QED BY <1>1, <1>2, <1>3, <1>4, <1>5, Zenon

\* The configuration is chosen once.
LEMMA ConfigKept == [Next]_vars => cfg' = cfg
<1> SUFFICES ASSUME [Next]_vars PROVE cfg' = cfg OBVIOUS
<1> USE DEF ServerReads, ServerWrites
<1>1. CASE InitiationWaitRequest BY <1>1, Zenon DEF InitiationWaitRequest
<1>2. CASE InitiationSendConfirm BY <1>2, Zenon DEF InitiationSendConfirm
<1>3. CASE SecurityUpgrade BY <1>3, Zenon DEF SecurityUpgrade
<1>4. CASE perform_credssp_step BY <1>4, Zenon DEF perform_credssp_step
<1>5. CASE BasicSettingsWaitInitial BY <1>5, Zenon DEF BasicSettingsWaitInitial
<1>6. CASE BasicSettingsSendResponse BY <1>6, Zenon DEF BasicSettingsSendResponse
<1>7. CASE WaitErectDomainRequest BY <1>7, Zenon DEF WaitErectDomainRequest
<1>8. CASE WaitAttachUserRequest BY <1>8, Zenon DEF WaitAttachUserRequest
<1>9. CASE SendAttachUserConfirm BY <1>9, Zenon DEF SendAttachUserConfirm
<1>10. CASE WaitChannelJoinRequest BY <1>10, Zenon DEF WaitChannelJoinRequest
<1>11. CASE SendChannelJoinConfirm BY <1>11, Zenon DEF SendChannelJoinConfirm
<1>12. CASE SecureSettingsExchange BY <1>12, Zenon DEF SecureSettingsExchange
<1>13. CASE SendRttRequest BY <1>13, Zenon DEF SendRttRequest
<1>14. CASE WaitRttResponse BY <1>14, Zenon DEF WaitRttResponse, WaitProbe
<1>15. CASE SendBandwidthMeasure BY <1>15, Zenon DEF SendBandwidthMeasure
<1>16. CASE WaitBandwidthResults BY <1>16, Zenon DEF WaitBandwidthResults, WaitProbe
<1>17. CASE SendResult BY <1>17, Zenon DEF SendResult
<1>18. CASE LicensingExchange BY <1>18, Zenon DEF LicensingExchange
<1>19. CASE MultitransportBootstrapping BY <1>19, Zenon DEF MultitransportBootstrapping
<1>20. CASE CapabilitiesSendServer BY <1>20, Zenon DEF CapabilitiesSendServer
<1>21. CASE MonitorLayoutSend BY <1>21, Zenon DEF MonitorLayoutSend
<1>22. CASE CapabilitiesWaitConfirm BY <1>22, Zenon DEF CapabilitiesWaitConfirm
<1>23. CASE FinalizationWait BY <1>23, Zenon DEF FinalizationWait
<1>24. CASE FinalizationSend BY <1>24, Zenon DEF FinalizationSend
<1>25. CASE client_accepted BY <1>25, Zenon DEF client_accepted
<1>26. CASE dispatch_pdu BY <1>26, Zenon DEF dispatch_pdu
<1>27. CASE ServerEof BY <1>27, Zenon DEF ServerEof
<1>28. CASE FinalizeTimeout BY <1>28, Zenon DEF FinalizeTimeout
<1>29. CASE new_deactivation_reactivation BY <1>29, Zenon DEF new_deactivation_reactivation
<1>30. CASE Disconnect BY <1>30, Zenon DEF Disconnect
<1>31. CASE ClientStep \/ RespondsLate \/ SendsInput \/ SendsData \/ Leaves
    BY <1>31, ClientFrame, Zenon
<1>32. CASE UNCHANGED vars BY <1>32, Zenon DEF vars
<1> QED
  BY ONLY [Next]_vars, <1>1, <1>2, <1>3, <1>4, <1>5, <1>6, <1>7, <1>8, <1>9, <1>10,
          <1>11, <1>12, <1>13, <1>14, <1>15, <1>16, <1>17, <1>18, <1>19,
          <1>20, <1>21, <1>22, <1>23, <1>24, <1>25, <1>26, <1>27, <1>28,
          <1>29, <1>30, <1>31, <1>32, Zenon
  DEF Next, ServerStep

-----------------------------------------------------------------------------
\* What the session does with a PDU leaves the connection as it was.
LEMMA HandleKeeps ==
    ASSUME NEW pdu, {"at", "proto", "creds"} \subseteq DOMAIN server
    PROVE LET h == handle(server, pdu) IN
          /\ DOMAIN h = DOMAIN server
          /\ h.at = server.at /\ h.proto = server.proto /\ h.creds = server.creds
BY Zenon DEF handle

\* With wrong credentials no step of the server lets the client in, but for
\* the cookie.
LEMMA RefusedStep == cfg \in Configs /\ Wrong /\ Refused /\ [Next]_vars => Refused'
<1> SUFFICES ASSUME cfg \in Configs, Wrong, Refused, [Next]_vars PROVE Refused' OBVIOUS
<1>a. cfg' = cfg /\ (is_auto_reconnect' <=> is_auto_reconnect)
  BY ConfigKept, Zenon DEF is_auto_reconnect
<1>b. ASSUME UNCHANGED server PROVE Refused'
  BY <1>a, <1>b, Zenon DEF Refused
<1>c. ASSUME NEW why, ServerEnds(why) PROVE Refused'
  BY <1>a, <1>c, Zenon DEF Refused, ServerEnds, Opening, Settings, Informed
<1> USE DEF ServerReads, ServerWrites, ServerGoes
<1>1. CASE InitiationWaitRequest
  BY <1>a, <1>b, <1>c, <1>1, Zenon DEF InitiationWaitRequest, Wrong, Refused, Opening, Settings, Informed
<1>2. CASE InitiationSendConfirm
  BY <1>a, <1>b, <1>c, <1>2, Zenon DEF InitiationSendConfirm, Wrong, Refused, Opening, Settings, Informed
<1>3. CASE SecurityUpgrade
  BY <1>a, <1>b, <1>c, <1>3, Zenon DEF SecurityUpgrade, Wrong, Refused, Opening, Settings, Informed
<1>4. CASE perform_credssp_step
  BY <1>a, <1>b, <1>c, <1>4, Zenon DEF perform_credssp_step, Wrong, Refused, Opening, Settings, Informed
<1>5. CASE BasicSettingsWaitInitial
  BY <1>a, <1>b, <1>c, <1>5, SMTT(30) DEF BasicSettingsWaitInitial, Wrong, Refused, Opening, Settings, Informed
<1>6. CASE BasicSettingsSendResponse
  BY <1>a, <1>b, <1>c, <1>6, Zenon DEF BasicSettingsSendResponse, Wrong, Refused, Opening, Settings, Informed
<1>7. CASE WaitErectDomainRequest
  BY <1>a, <1>b, <1>c, <1>7, Zenon DEF WaitErectDomainRequest, Wrong, Refused, Opening, Settings, Informed
<1>8. CASE WaitAttachUserRequest
  BY <1>a, <1>b, <1>c, <1>8, Zenon DEF WaitAttachUserRequest, Wrong, Refused, Opening, Settings, Informed
<1>9. CASE SendAttachUserConfirm
  BY <1>a, <1>b, <1>c, <1>9, Zenon DEF SendAttachUserConfirm, Wrong, Refused, Opening, Settings, Informed
<1>10. CASE WaitChannelJoinRequest
  BY <1>a, <1>b, <1>c, <1>10, Zenon DEF WaitChannelJoinRequest, Wrong, Refused, Opening, Settings, Informed
<1>11. CASE SendChannelJoinConfirm
  BY <1>a, <1>b, <1>c, <1>11, Zenon DEF SendChannelJoinConfirm, Wrong, Refused, Opening, Settings, Informed
<1>12. CASE SecureSettingsExchange
  <2>1. server.proto \cap Hybrids = {}
    BY <1>12, Zenon DEF SecureSettingsExchange, Refused, Settings
  <2>2. \/ ServerEnds("protocol")
        \/ ServerEnds("credentials")
        \/ /\ cfg.check # "acceptor"
           /\ \E at \in {"SendRttRequest", "LicensingExchange"} :
                 server' = [server EXCEPT !.creds = TRUE, !.at = at]
    BY <1>12, <2>1, Zenon DEF SecureSettingsExchange, Wrong
  <2>3. cfg.check = "acceptor" \/ cfg.check = "validator"
    BY ConfigAssumption, Zenon DEF IsConfig, Wrong
  <2>4. ASSUME cfg.check = "validator", NEW at \in {"SendRttRequest", "LicensingExchange"},
               server' = [server EXCEPT !.creds = TRUE, !.at = at]
        PROVE Refused'
    BY <1>a, <2>1, <2>4, Zenon DEF Refused, Opening, Settings, Informed
  <2> QED BY <2>2, <2>3, <2>4, <1>c, Zenon
<1>13. CASE SendRttRequest
  BY <1>a, <1>b, <1>c, <1>13, Zenon DEF SendRttRequest, Wrong, Refused, Opening, Settings, Informed
<1>14. CASE WaitRttResponse
  BY <1>a, <1>b, <1>c, <1>14, Zenon DEF WaitRttResponse, WaitProbe, Wrong, Refused, Opening, Settings, Informed
<1>15. CASE SendBandwidthMeasure
  BY <1>a, <1>b, <1>c, <1>15, Zenon DEF SendBandwidthMeasure, Wrong, Refused, Opening, Settings, Informed
<1>16. CASE WaitBandwidthResults
  BY <1>a, <1>b, <1>c, <1>16, Zenon DEF WaitBandwidthResults, WaitProbe, Wrong, Refused, Opening, Settings, Informed
<1>17. CASE SendResult
  BY <1>a, <1>b, <1>c, <1>17, Zenon DEF SendResult, Wrong, Refused, Opening, Settings, Informed
<1>18. CASE LicensingExchange
  BY <1>a, <1>b, <1>c, <1>18, Zenon DEF LicensingExchange, Wrong, Refused, Opening, Settings, Informed
<1>19. CASE MultitransportBootstrapping
  BY <1>a, <1>b, <1>c, <1>19, Zenon DEF MultitransportBootstrapping, Wrong, Refused, Opening, Settings, Informed
<1>20. CASE CapabilitiesSendServer
  BY <1>a, <1>b, <1>c, <1>20, Zenon DEF CapabilitiesSendServer, Wrong, Refused, Opening, Settings, Informed
<1>21. CASE MonitorLayoutSend
  BY <1>a, <1>b, <1>c, <1>21, Zenon DEF MonitorLayoutSend, Wrong, Refused, Opening, Settings, Informed
<1>22. CASE CapabilitiesWaitConfirm
  <2>1. PICK pdu : \/ UNCHANGED server \/ ServerEnds("protocol")
                   \/ server' = [server EXCEPT !.kept = Append(@, pdu)]
                   \/ server' = [server EXCEPT !.at = "FinalizationWait",
                                    !.step = 1, !.aside = << >>, !.asked = pdu.body]
    BY <1>22, Zenon DEF CapabilitiesWaitConfirm
  <2>2. server.at = "CapabilitiesWaitConfirm"
    BY <1>22, Zenon DEF CapabilitiesWaitConfirm
  <2>3. CASE server' = [server EXCEPT !.kept = Append(@, pdu)]
    BY <1>a, <2>3 DEF Refused
  <2>4. CASE server' = [server EXCEPT !.at = "FinalizationWait",
                                    !.step = 1, !.aside = << >>, !.asked = pdu.body]
    <3>1. /\ DOMAIN server' = DOMAIN server /\ server'.at = "FinalizationWait"
          /\ server'.proto = server.proto /\ server'.creds = server.creds
      BY <2>4 DEF Refused
    <3> QED BY <1>a, <2>2, <3>1, Zenon DEF Refused, Opening, Settings, Informed
  <2> QED BY <1>b, <1>c, <2>1, <2>3, <2>4, Zenon
<1>23. CASE FinalizationWait
  BY <1>a, <1>b, <1>c, <1>23 DEF FinalizationWait, set_aside, Wrong, Refused, Opening, Settings, Informed
<1>24. CASE FinalizationSend
  BY <1>a, <1>b, <1>c, <1>24, Zenon DEF FinalizationSend, Wrong, Refused, Opening, Settings, Informed
<1>25. CASE client_accepted
  <2>1. /\ server.at = "Accepted" /\ server.at \in Informed
        /\ server.proto \cap Hybrids = {} /\ cfg.check = "validator"
    BY <1>25, Zenon DEF client_accepted, Refused, Informed
  <2>2. CASE ~is_auto_reconnect
    <3>1. server.creds BY <2>1, <2>2, Zenon DEF Refused
    <3>2. ServerEnds("denied")
      BY <1>25, <2>1, <2>2, <3>1, Zenon DEF client_accepted, Wrong
    <3> QED BY <3>2, <1>c, Zenon
  <2>3. CASE is_auto_reconnect
    <3>1. server' =
              [server EXCEPT !.at = "Active", !.creds = FALSE,
                  !.kept = << >>, !.aside = << >>, !.channels = TRUE,
                  !.handled = TakeOver(server).handled,
                  !.request = TakeOver(server).request,
                  !.confirmed = TakeOver(server).confirmed,
                  !.display = request_initial_size]
      BY <1>25, <2>3, Zenon DEF client_accepted
    <3>2. /\ DOMAIN server' = DOMAIN server
          /\ server'.at = "Active" /\ server'.proto = server.proto
      BY <3>1, Zenon DEF Refused
    <3> QED BY <1>a, <2>1, <2>3, <3>2, Zenon DEF Refused, Opening, Settings, Informed
  <2> QED BY <2>2, <2>3, Zenon
<1>26. CASE dispatch_pdu
  <2>1. PICK pdu : ServerEnds("left") \/ server' = handle(server, pdu)
    BY <1>26, Zenon DEF dispatch_pdu
  <2>2. ASSUME server' = handle(server, pdu) PROVE Refused'
    <3>1. /\ DOMAIN server' = DOMAIN server /\ server'.at = server.at
          /\ server'.proto = server.proto /\ server'.creds = server.creds
      BY <2>2, HandleKeeps, Zenon DEF Refused
    <3> QED BY <1>a, <3>1, Zenon DEF Refused
  <2> QED BY <2>1, <2>2, <1>c, Zenon
<1>27. CASE ServerEof BY <1>27, <1>c, Zenon DEF ServerEof
<1>28. CASE FinalizeTimeout BY <1>28, <1>c, Zenon DEF FinalizeTimeout
<1>29. CASE new_deactivation_reactivation
  BY <1>a, <1>29, Zenon DEF new_deactivation_reactivation, Refused, Opening, Settings, Informed
<1>30. CASE Disconnect BY <1>30, <1>c, Zenon DEF Disconnect
<1>31. CASE ClientStep \/ RespondsLate \/ SendsInput \/ SendsData \/ Leaves
  BY <1>31, <1>b, ClientFrame, Zenon
<1>32. CASE UNCHANGED vars BY <1>32, <1>b, Zenon DEF vars
<1> QED
  BY ONLY [Next]_vars, <1>1, <1>2, <1>3, <1>4, <1>5, <1>6, <1>7, <1>8, <1>9, <1>10,
          <1>11, <1>12, <1>13, <1>14, <1>15, <1>16, <1>17, <1>18, <1>19,
          <1>20, <1>21, <1>22, <1>23, <1>24, <1>25, <1>26, <1>27, <1>28,
          <1>29, <1>30, <1>31, <1>32, Zenon
  DEF Next, ServerStep

LEMMA NextIInv == IInv /\ [Next]_vars => IInv'
BY ConfigKept, RefusedStep, Zenon DEF IInv, Wrong

\* No session runs on the wrong credentials when CredSSP, the acceptor's
\* comparison or the validator of client_accepted is there to check them,
\* but for the auto-reconnect cookie, which gets past the validator and past
\* nothing else: whatever the client and the server are set up with, whatever
\* comes before the session, and through every reactivation.
THEOREM CredentialsRight == Spec => []OnlyTheRightOnes
<1>1. IInv => OnlyTheRightOnes
  BY Zenon DEF IInv, Wrong, Refused, OnlyTheRightOnes, is_auto_reconnect
<1> QED BY InitIInv, NextIInv, <1>1, PTL DEF Spec
=============================================================================

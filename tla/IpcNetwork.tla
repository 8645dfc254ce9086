----------------------------- MODULE IpcNetwork -----------------------------
(***************************************************************************)
(* The requests made by the wrappers of the network: ac, http, ssl,        *)
(* sockets, uds, nwm and the ps crypto service. One definition per stretch *)
(* of a source file, one row per request that it composes; IpcWire says    *)
(* what a row is.                                                          *)
(***************************************************************************)
EXTENDS IpcWire

\* services/ac.c
AcuConnection ==
  {Leaves({0}, Cmd("ACU_CreateDefaultConfig", \h1, 0, 0, {}, {})),
   Cmd("ACU_ConnectAsync", \h4, 0, 6, 3..6 \cup {1}, {Pid(1), Share(3, 1), Stat(5)}),
   Cmd("ACU_GetLastErrorCode", \hA, 0, 0, {}, {}),
   Cmd("ACU_GetLastDetailErrorCode", \hB, 0, 0, {}, {}),
   Cmd("ACU_GetStatus", \hC, 0, 0, {}, {}),
   Cmd("ACU_GetWifiStatus", \hD, 0, 0, {}, {}),
   Leaves({0}, Cmd("ACU_SetAllowApType", \h22, 1, 2, 1..3, {Stat(2)})),
   Leaves({0}, Cmd("ACU_SetNetworkArea", \h25, 1, 2, 1..3, {Stat(2)})),
   Leaves({0}, Cmd("ACU_SetRequestEulaVersion", \h2D, 2, 2, 1..4, {Stat(3)}))}

AcuNetworkAndProxy ==
  {Cmd("ACU_GetSecurityMode", \h33, 0, 0, {}, {}),
   Leaves({0}, Cmd("ACU_GetSSID", \h34, 0, 0, {}, {})),
   Cmd("ACU_GetSSIDLength", \h35, 0, 0, {}, {}),
   Cmd("ACU_GetProxyEnable", \h36, 0, 0, {}, {}),
   Leaves({0}, Cmd("ACU_GetProxyHost", \h39, 0, 0, {}, {})),
   Cmd("ACU_GetProxyPort", \h38, 0, 0, {}, {}),
   Leaves({0}, Cmd("ACU_GetProxyUserName", \h3A, 0, 0, {}, {})),
   Leaves({0}, Cmd("ACU_GetProxyPassword", \h3B, 0, 0, {}, {})),
   Cmd("ACI_LoadNetworkSetting", \h401, 1, 0, {1}, {})}

AciEssid == {Into({0}, Cmd("ACI_GetNetworkWirelessEssidSecuritySsid", \h40F, 0, 0, {}, {}))}

\* services/httpc.c
HttpcCancel == {Cmd("httpcCancelConnection", \h4, 1, 0, {1}, {})}

HttpcContexts ==
  {Cmd("HTTPC_Initialize", \h1, 1, 4, 1..2 \cup 4..5, {Pid(2), Share(4, 1)}),
   Cmd("HTTPC_Finalize", \h39, 0, 0, {}, {}),
   Cmd("HTTPC_CreateContext", \h2, 2, 2, 1..4, {Buf(3)}),
   Cmd("HTTPC_InitializeConnectionSession", \h8, 1, 2, 1..2, {Pid(2)}),
   Cmd("HTTPC_SetProxyDefault", \hE, 1, 0, {1}, {}),
   Cmd("HTTPC_CloseContext", \h3, 1, 0, {1}, {}),
   Cmd("httpcAddRequestHeaderField", \h11, 3, 4, 1..7, {Stat(4), Buf(6)}),
   Cmd("httpcAddPostDataAscii", \h12, 3, 4, 1..7, {Stat(4), Buf(6)})}

HttpcPostAndResponse ==
  {Cmd("httpcAddPostDataBinary", \h13, 3, 4, 1..7, {Stat(4), Buf(6)}),
   Cmd("httpcAddPostDataRaw", \h14, 2, 2, 1..4, {Buf(3)}),
   Cmd("httpcBeginRequest", \h9, 1, 0, {1}, {}),
   Cmd("httpcReceiveData", \hB, 2, 2, 1..4, {Buf(3)}),
   Cmd("httpcReceiveDataTimeout", \hC, 4, 2, 1..6, {Buf(5)}),
   Cmd("httpcGetRequestState", \h5, 1, 0, {1}, {}),
   Cmd("httpcGetDownloadSizeState", \h6, 1, 0, {1}, {}),
   Cmd("httpcGetResponseHeader", \h1E, 3, 4, 1..7, {Stat(4), Buf(6)})}

HttpcStatusAndCerts ==
  {Cmd("httpcGetResponseStatusCode", \h22, 1, 0, {1}, {}),
   Cmd("httpcGetResponseStatusCodeTimeout", \h23, 3, 0, 1..3, {}),
   Cmd("httpcAddTrustedRootCA", \h24, 2, 2, 1..4, {Buf(3)}),
   Cmd("httpcAddDefaultCert", \h25, 2, 0, 1..2, {}),
   Cmd("httpcSelectRootCertChain", \h26, 2, 0, 1..2, {}),
   Cmd("httpcSetClientCert", \h27, 3, 4, 1..7, {Buf(4), Buf(6)}),
   Cmd("httpcSetClientCertDefault", \h28, 2, 0, 1..2, {}),
   Cmd("httpcSetClientCertContext", \h29, 2, 0, 1..2, {}),
   Cmd("httpcSetSSLOpt", \h2B, 2, 0, 1..2, {})}

HttpcClientCerts ==
  {Cmd("httpcSetSSLClearOpt", \h2C, 2, 0, 1..2, {}),
   Cmd("httpcCreateRootCertChain", \h2D, 0, 0, {}, {}),
   Cmd("httpcDestroyRootCertChain", \h2E, 1, 0, {1}, {}),
   Cmd("httpcRootCertChainAddCert", \h2F, 2, 2, 1..4, {Buf(3)}),
   Cmd("httpcRootCertChainAddDefaultCert", \h30, 2, 0, 1..2, {}),
   Cmd("httpcRootCertChainRemoveCert", \h31, 2, 0, 1..2, {}),
   Cmd("httpcOpenClientCertContext", \h32, 2, 4, 1..6, {Buf(3), Buf(5)}),
   Cmd("httpcOpenDefaultClientCertContext", \h33, 1, 0, {1}, {}),
   Cmd("httpcCloseClientCertContext", \h34, 1, 0, {1}, {})}

HttpcKeepAliveSendsThree == {Cmd("httpcSetKeepAlive", \h37, 3, 0, 1..2, {})}
HttpcKeepAlive == {Cmd("httpcSetKeepAlive", \h37, 2, 0, 1..2, {})}

\* services/nwmext.c
NwmextControlSendsNothing == {Cmd("NWMEXT_ControlWirelessEnabled", \h8, 0, 0, {1}, {})}
NwmextControl == {Cmd("NWMEXT_ControlWirelessEnabled", \h8, 1, 0, {1}, {})}

\* services/ps.c
PsCrypto ==
  {Cmd("PS_SignRsaSha256", \h1, 9, 4, 1..13, {Stat(10), Buf(12)}),
   Cmd("PS_VerifyRsaSha256", \h2, 9, 4, 1..13, {Stat(10), Buf(12)}),
   Cmd("PS_EncryptDecryptAes", \h4, 8, 4, 1..12, {Buf(9), Buf(11)}),
   Cmd("PS_EncryptSignDecryptVerifyAesCcm", \h5, 10, 4, 1..14, {Buf(11), Buf(13)}),
   Cmd("PS_GetLocalFriendCodeSeed", \hA, 0, 0, {}, {}),
   Cmd("PS_GetDeviceId", \hB, 0, 0, {}, {}),
   Cmd("PS_GenerateRandomBytes", \hD, 1, 2, 1..3, {Buf(2)})}

\* services/soc/soc_accept.c
SocAccept == {Guarded(Into({0}, Cmd("accept", \h4, 2, 2, 1..3, {Pid(3)})))}

\* services/soc/soc_addglobalsocket.c
SocAddGlobalSocket == {Guarded(Cmd("SOCU_AddGlobalSocket", \h23, 1, 0, {1}, {}))}

\* services/soc/soc_bind.c
SocBind == {Guarded(Cmd("bind", \h5, 2, 4, 1..3 \cup 5..6, {Pid(3), Stat(5)}))}

\* services/soc/soc_closesockets.c
SocCloseSockets == {Cmd("SOCU_CloseSockets", \h21, 0, 2, {1}, {Pid(1)})}

\* services/soc/soc_connect.c
SocConnect == {Guarded(Cmd("connect", \h6, 2, 4, 1..3 \cup 5..6, {Pid(3), Stat(5)}))}

\* services/soc/soc_fcntl.c
SocFcntl == {Guarded(Cmd("fcntl", \h13, 3, 2, 1..4, {Pid(4)}))}

\* services/soc/soc_getaddrinfo.c
SocGetaddrinfo ==
  {Guarded(Into({0}, Cmd("getaddrinfo_detail", \hF, 4, 6, 1..10, {Stat(5), Stat(7), Stat(9)})))}

\* services/soc/soc_gethostbyname.c
SocGethostbyname == {Into({0}, Cmd("gethostbyname", \hD, 2, 2, 1..4, {Stat(3)}))}

\* services/soc/soc_gethostid.c
SocGethostid == {Cmd("gethostid", \h16, 0, 0, {}, {})}

\* services/soc/soc_getnameinfo.c
SocGetnameinfo == {Guarded(Into({0, 1}, Cmd("getnameinfo", \h10, 4, 2, 1..6, {Stat(5)})))}

\* services/soc/soc_getnetworkopt.c
SocGetNetworkOpt == {Into({0}, Cmd("SOCU_GetNetworkOpt", \h1A, 3, 0, 1..3, {}))}

\* services/soc/soc_getpeername.c
SocGetpeername == {Guarded(Into({0}, Cmd("getpeername", \h18, 2, 2, 1..3, {Pid(3)})))}

\* services/soc/soc_getsockname.c
SocGetsockname == {Guarded(Into({0}, Cmd("getsockname", \h17, 2, 2, 1..3, {Pid(3)})))}

\* services/soc/soc_getsockopt.c
SocGetsockopt == {Guarded(Into({0}, Cmd("getsockopt", \h11, 4, 2, 1..5, {Pid(5)})))}

\* services/soc/soc_init.c
SocInitialize ==
  {Cmd("SOCU_Initialize", \h1, 1, 4, 1..2 \cup 4..5, {Pid(2), Share(4, 1)}),
   Cmd("SOCU_Shutdown", \h19, 0, 0, {}, {})}

SocClose == {Cmd("soc_close", \hB, 1, 2, 1..2, {Pid(2)})}

\* services/soc/soc_listen.c
SocListen == {Guarded(Cmd("listen", \h3, 2, 2, 1..3, {Pid(3)}))}

\* services/soc/soc_poll.c
SocPoll == {Guarded(Into({0}, Cmd("poll", \h14, 2, 4, 1..3 \cup 5..6, {Pid(3), Stat(5)})))}

\* services/soc/soc_recvfrom.c
SocRecvfrom == {Into({0}, Cmd("socuipc_cmd7", \h7, 4, 4, 1..5 \cup 7..8, {Pid(5), Buf(7)}))}

\* services/soc/soc_sendto.c
SocSendto ==
  {Guarded(Cmd("socuipc_cmd9", \h9, 4, 6, 1..5 \cup 7..10, {Pid(5), Stat(7), Buf(9)})),
   Guarded(Cmd("socuipc_cmda", \hA, 4, 6, 1..5 \cup 7..10, {Pid(5), Stat(7), Stat(9)}))}

\* services/soc/soc_setsockopt.c
SocSetsockopt == {Guarded(Cmd("setsockopt", \h12, 4, 4, 1..5 \cup 7..8, {Pid(5), Stat(7)}))}

\* services/soc/soc_shutdown.c
SocShutdown == {Guarded(Cmd("shutdown", \hC, 2, 2, 1..3, {Pid(3)}))}

\* services/soc/soc_shutdownsockets.c
SocShutdownSockets == {Cmd("SOCU_ShutdownSockets", \h19, 0, 0, {}, {})}

\* services/soc/soc_sockatmark.c
SocSockatmark == {Guarded(Cmd("sockatmark", \h15, 1, 2, 1..2, {Pid(2)}))}

\* services/soc/soc_socket.c
SocSocket == {Guarded(Cmd("socket", \h2, 3, 2, 1..4, {Pid(4)}))}

\* services/sslc.c
SslcCertChains ==
  {Cmd("sslcipc_Initialize", \h1, 0, 2, {1}, {Pid(1)}),
   Cmd("sslcipc_CreateContext", \h2, 3, 2, 1..5, {Buf(4)}),
   Cmd("sslcOpenClientCertContext", \hD, 2, 4, 1..6, {Buf(3), Buf(5)}),
   Cmd("sslcOpenDefaultClientCertContext", \hE, 1, 0, {1}, {})} \cup
   {Cmd("sslcipc_CreateCertChain", \h3 + type * 5, 0, 0, {}, {}) : type \in 0..1} \cup
   {Cmd("sslcipc_DestroyCertChain", \h4 + type * 5, 1, 0, {1}, {}) : type \in 0..1} \cup
   {Cmd("sslcipc_CertChainAddCert", \h5 + type * 5, 2, 2, 1..4, {Buf(3)}) : type \in 0..1} \cup
   {Cmd("sslcipc_CertChainAddDefaultCert", \h6 + type * 5, 2, 0, 1..2, {}) : type \in 0..1} \cup
   {Cmd("sslcipc_CertChainRemoveCert", \h7 + type * 5, 2, 0, 1..2, {}) : type \in 0..1}

SslcContexts ==
  {Cmd("sslcCloseClientCertContext", \hF, 1, 0, {1}, {}),
   Cmd("sslcSeedRNG", \h10, 0, 0, {}, {}),
   Cmd("sslcGenerateRandomData", \h11, 1, 2, 1..3, {Buf(2)}),
   Cmd("sslcipc_InitializeConnectionSession", \h12, 1, 2, 1..2, {Pid(2)}),
   Cmd("sslcipc_StartConnection", \h13, 1, 0, {1}, {}),
   Cmd("sslcipc_StartConnectionGetOut", \h14, 1, 0, {1}, {}),
   Cmd("sslcContextGetProtocolCipher", \h1C, 3, 4, 1..7, {Buf(4), Buf(6)})} \cup
   {Guarded(Cmd("sslcipc_DataTransfer", \h15 + type, 2, 2, 1..4, {Buf(3)})) : type \in 0..2} \cup
   {Guarded(Cmd("sslcipc_ContextSetValue", \h18 + type, 2, 0, 1..2, {})) : type \in 0..3}

SslcCertificates ==
  {Cmd("sslcContextGetState", \h1D, 1, 0, {1}, {}),
   Cmd("sslcipc_DestroyContext", \h1E, 1, 0, {1}, {}),
   Cmd("sslcipc_ContextInitSharedmem", \h1F, 2, 2, 1..4, {Share(3, 1)}),
   Cmd("sslcAddCert", \h20, 2, 2, 1..4, {Buf(3)})}

\* services/uds.c
UdsSession ==
  {Cmd("udsipc_InitializeWithVersion", \h1B, 12, 2, 1..14, {Share(13, 1)}),
   Cmd("udsipc_Shutdown", \h3, 0, 0, {}, {}),
   Cmd("udsEjectClient", \h5, 1, 0, {1}, {}),
   Cmd("udsEjectSpectator", \h6, 0, 0, {}, {}),
   Cmd("udsUpdateNetworkAttribute", \h7, 2, 0, 1..2, {})}

UdsNetwork ==
  {Cmd("udsDestroyNetwork", \h8, 0, 0, {}, {}),
   Cmd("udsDisconnectNetwork", \hA, 0, 0, {}, {}),
   Cmd("udsGetConnectionStatus", \hB, 0, 0, {}, {})}

UdsNode == {Cmd("udsGetNodeInformation", \hD, 1, 0, {1}, {})}

UdsBeacons ==
  {Cmd("udsipc_RecvBeaconBroadcastData", \hF, 16, 4, 1..20, {Share(17, 1), Buf(19)}),
   Cmd("udsSetApplicationData", \h10, 1, 2, 1..3, {Stat(2)}),
   Into({0}, Cmd("udsGetApplicationData", \h11, 1, 0, {1}, {}))}

UdsBindAndConnect ==
  {Cmd("udsipc_Bind", \h12, 4, 0, 1..4, {}),
   Cmd("udsipc_Unbind", \h13, 1, 0, {1}, {}),
   Into({0}, Cmd("udsPullPacket", \h14, 3, 0, 1..3, {})),
   Cmd("udsSendTo", \h17, 6, 2, 1..8, {Stat(7)}),
   Cmd("udsGetChannel", \h1A, 0, 0, {}, {}),
   Cmd("udsipc_BeginHostingNetwork", \h1D, 1, 4, 1..5, {Stat(2), Stat(4)}),
   Cmd("udsipc_ConnectToNetwork", \h1E, 2, 4, 1..6, {Stat(3), Stat(5)})}

UdsBeaconData ==
  {Into({0}, Cmd("udsipc_DecryptBeaconData", \h1F, 0, 6, 1..6, {Stat(1), Stat(3), Stat(5)})),
   Cmd("udsipc_SetProbeResponseParam", \h21, 2, 0, 1..2, {}),
   Cmd("udsipc_ScanOnConnection", \h22, 16, 2, 1..18, {Buf(17)})}

NetworkRequests == UNION {AcuConnection, AcuNetworkAndProxy, AciEssid, HttpcCancel,
    HttpcContexts, HttpcPostAndResponse, HttpcStatusAndCerts,
    HttpcClientCerts, HttpcKeepAlive, NwmextControl, PsCrypto,
    SocAccept, SocAddGlobalSocket, SocBind, SocCloseSockets,
    SocConnect, SocFcntl, SocGetaddrinfo, SocGethostbyname,
    SocGethostid, SocGetnameinfo, SocGetNetworkOpt, SocGetpeername,
    SocGetsockname, SocGetsockopt, SocInitialize, SocClose, SocListen,
    SocPoll, SocRecvfrom, SocSendto, SocSetsockopt, SocShutdown,
    SocShutdownSockets, SocSockatmark, SocSocket, SslcCertChains,
    SslcContexts, SslcCertificates, UdsSession, UdsNetwork, UdsNode,
    UdsBeacons, UdsBindAndConnect, UdsBeaconData}
=============================================================================

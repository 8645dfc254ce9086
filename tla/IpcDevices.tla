----------------------------- MODULE IpcDevices -----------------------------
(***************************************************************************)
(* The requests made by the wrappers of devices: hid, infrared, the        *)
(* microcontroller, nfc and the ptm power services. One definition per     *)
(* stretch of a source file, one row per request that it composes; IpcWire *)
(* says what a row is.                                                     *)
(***************************************************************************)
EXTENDS IpcWire

\* services/hid.c
HidSensors ==
  {Cmd("HIDUSER_GetHandles", \hA, 0, 0, {}, {}),
   Cmd("HIDUSER_EnableAccelerometer", \h11, 0, 0, {}, {}),
   Cmd("HIDUSER_DisableAccelerometer", \h12, 0, 0, {}, {}),
   Cmd("HIDUSER_EnableGyroscope", \h13, 0, 0, {}, {}),
   Cmd("HIDUSER_DisableGyroscope", \h14, 0, 0, {}, {}),
   Cmd("HIDUSER_GetGyroscopeRawToDpsCoefficient", \h15, 0, 0, {}, {}),
   Cmd("HIDUSER_GetSoundVolume", \h17, 0, 0, {}, {})}

\* services/ir.c
IruTransfers ==
  {Cmd("IRU_Initialize", \h1, 0, 0, {}, {}),
   Cmd("IRU_Shutdown", \h2, 0, 0, {}, {}),
   Cmd("IRU_StartSendTransfer", \h3, 1, 2, 1..3, {Buf(2)}),
   Cmd("IRU_WaitSendTransfer", \h4, 0, 0, {}, {}),
   Cmd("IRU_StartRecvTransfer", \h5, 3, 2, 1..5, {Share(4, 1)}),
   Cmd("IRU_WaitRecvTransfer", \h6, 0, 0, {}, {}),
   Cmd("IRU_SetBitRate", \h9, 1, 0, {1}, {}),
   Cmd("IRU_GetBitRate", \hA, 0, 0, {}, {}),
   Cmd("IRU_SetIRLEDState", \hB, 1, 0, {1}, {}),
   Cmd("IRU_GetIRLEDRecvState", \hC, 0, 0, {}, {})}

IruEvents ==
  {Cmd("IRU_GetSendFinishedEvent", \hD, 0, 0, {}, {}),
   Cmd("IRU_GetRecvFinishedEvent", \hE, 0, 0, {}, {})}

\* services/irrst.c
IrrstHandles ==
  {Cmd("IRRST_GetHandles", \h1, 0, 0, {}, {}),
   Cmd("IRRST_Initialize", \h2, 2, 0, 1..2, {}),
   Cmd("IRRST_Shutdown", \h3, 0, 0, {}, {})}

\* services/mcuhwc.c
McuhwcRegisters ==
  {Cmd("MCUHWC_ReadRegister", \h1, 2, 2, 1..4, {Buf(3)}),
   Cmd("MCUHWC_WriteRegister", \h2, 2, 2, 1..4, {Buf(3)}),
   Cmd("MCUHWC_GetBatteryVoltage", \h4, 0, 0, {}, {}),
   Cmd("MCUHWC_GetBatteryLevel", \h5, 0, 0, {}, {}),
   Cmd("MCUHWC_SetPowerLedState", \h6, 2, 0, {1}, {}),
   Cmd("MCUHWC_SetWifiLedState", \h7, 0, 0, {1}, {}),
   Cmd("MCUHWC_SetInfoLedPattern", \hA, 25, 0, 1..25, {}),
   Cmd("MCUHWC_GetSoundSliderLevel", \hB, 0, 0, {}, {})}

McuhwcVersions ==
  {Cmd("MCUHWC_GetFwVerHigh", \h10, 0, 0, {}, {}),
   Cmd("MCUHWC_GetFwVerLow", \h11, 0, 0, {}, {})}

\* services/nfc.c
NfcSession ==
  {Cmd("NFC_Initialize", \h1, 1, 0, {1}, {}),
   Cmd("NFC_Shutdown", \h2, 1, 0, {1}, {}),
   Cmd("NFC_StartCommunication", \h3, 0, 0, {}, {}),
   Cmd("NFC_StopCommunication", \h4, 0, 0, {}, {}),
   Cmd("NFC_StartTagScanning", \h5, 1, 0, {1}, {}),
   Cmd("NFC_StopTagScanning", \h6, 0, 0, {}, {}),
   Cmd("nfcLoadAmiiboData", \h7, 0, 0, {}, {}),
   Cmd("nfcResetTagScanState", \h8, 0, 0, {}, {}),
   Cmd("nfcUpdateStoredAmiiboData", \h9, 0, 2, {1}, {Pid(1)}),
   Cmd("nfcGetTagState", \hD, 0, 0, {}, {}),
   Cmd("NFC_CommunicationGetStatus", \hF, 0, 0, {}, {})}

NfcAppData ==
  {Cmd("nfcGetTagInfo", \h11, 0, 0, {}, {}),
   Cmd("NFC_CommunicationGetResult", \h12, 0, 0, {}, {}),
   Cmd("nfcOpenAppData", \h13, 1, 0, {1}, {})}

NfcWriteAppData ==
  {Cmd("NFC_InitializeWriteAppData", \h14, 14, 4, 1..15 \cup 17..18, {Pid(15), Stat(17)}),
   Into({0}, Cmd("nfcReadAppData", \h15, 1, 0, {1}, {})),
   Guarded(Cmd("nfcWriteAppData", \h16, 9, 2, 1..11, {Stat(10)})),
   Cmd("nfcGetAmiiboSettings", \h17, 0, 0, {}, {}),
   Cmd("nfcGetAmiiboConfig", \h18, 0, 0, {}, {}),
   Cmd("NFC_GetAppDataInitStruct", \h19, 0, 0, {}, {}),
   Cmd("NFC_StartOtherTagScanning", \h1F, 2, 0, 1..2, {})}

NfcTagCommands ==
  {Into({0}, Cmd("nfcSendTagCommand", \h20, 4, 2, 1..6, {Stat(5)})),
   Cmd("nfcCmd21", \h21, 0, 0, {}, {}),
   Cmd("nfcCmd22", \h22, 0, 0, {}, {})}

\* services/ptmgets.c
PtmGetTime == {Cmd("PTMGETS_GetSystemTime", \h401, 0, 0, {}, {})}

\* services/ptmsets.c
PtmSetTime == {Cmd("PTMSETS_SetSystemTime", \h1, 2, 0, 1..2, {})}

\* services/ptmsysm.c
PtmsysmSleep ==
  {Cmd("PTMSYSM_RequestSleep", \h406, 0, 0, {}, {}),
   Cmd("PTMSYSM_ReplyToSleepQuery", \h402, 1, 2, 1..2, {Pid(2)}),
   Cmd("PTMSYSM_NotifySleepPreparationComplete", \h403, 1, 2, 1..2, {Pid(2)}),
   Cmd("PTMSYSM_SetWakeEvents", \h404, 4, 2, 1..5, {Pid(5)}),
   Cmd("PTMSYSM_GetWakeReason", \h405, 0, 0, {}, {}),
   Cmd("PTMSYSM_Awaken", \h408, 0, 0, {}, {}),
   Cmd("PTMSYSM_CheckNew3DS", \h40A, 0, 0, {}, {}),
   Cmd("PTMSYSM_ConfigureNew3DSCPU", \h818, 1, 0, {1}, {}),
   Cmd("PTMSYSM_ShutdownAsync", \h407, 3, 0, 1..3, {}),
   Cmd("PTMSYSM_RebootAsync", \h409, 2, 0, 1..2, {}),
   Cmd("PTMSYSM_ClearStepHistory", \h805, 0, 0, {}, {})}

PtmsysmSteps ==
  {Cmd("PTMSYSM_SetStepHistory", \h806, 3, 2, 1..5, {Buf(4)}),
   Cmd("PTMSYSM_ClearPlayHistory", \h80A, 0, 0, {}, {}),
   Cmd("PTMSYSM_SetUserTime", \h80C, 2, 0, 1..2, {}),
   Cmd("PTMSYSM_InvalidateSystemTime", \h80D, 0, 0, {}, {}),
   Cmd("PTMSYSM_GetRtcTime", \h816, 0, 0, {}, {}),
   Cmd("PTMSYSM_SetRtcTime", \h817, 2, 0, 1..2, {})}

\* services/ptmu.c
PtmuStates ==
  {Cmd("PTMU_GetShellState", \h6, 0, 0, {}, {}),
   Cmd("PTMU_GetBatteryLevel", \h7, 0, 0, {}, {}),
   Cmd("PTMU_GetBatteryChargeState", \h8, 0, 0, {}, {}),
   Cmd("PTMU_GetPedometerState", \h9, 0, 0, {}, {}),
   Cmd("PTMU_GetStepHistory", \hB, 3, 2, 1..5, {Buf(4)}),
   Cmd("PTMU_GetTotalStepCount", \hC, 0, 0, {}, {}),
   Cmd("PTMU_GetAdapterState", \h5, 0, 0, {}, {})}

DevicesRequests == UNION {HidSensors, IruTransfers, IruEvents, IrrstHandles, McuhwcRegisters,
    McuhwcVersions, NfcSession, NfcAppData, NfcWriteAppData,
    NfcTagCommands, PtmGetTime, PtmSetTime, PtmsysmSleep,
    PtmsysmSteps, PtmuStates}
=============================================================================

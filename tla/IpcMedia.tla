------------------------------ MODULE IpcMedia ------------------------------
(***************************************************************************)
(* The requests made by the wrappers of pictures and sound: cameras, csnd, *)
(* dsp, gsp, the microphone, mvd, y2r, codec and head tracking. One        *)
(* definition per stretch of a source file, one row per request that it    *)
(* composes; IpcWire says what a row is.                                   *)
(***************************************************************************)
EXTENDS IpcWire

\* services/cam.c
CamuCapture ==
  {Cmd("CAMU_StartCapture", \h1, 1, 0, {1}, {}),
   Cmd("CAMU_StopCapture", \h2, 1, 0, {1}, {}),
   Cmd("CAMU_IsBusy", \h3, 1, 0, {1}, {}),
   Cmd("CAMU_ClearBuffer", \h4, 1, 0, {1}, {}),
   Cmd("CAMU_GetVsyncInterruptEvent", \h5, 1, 0, {1}, {}),
   Cmd("CAMU_GetBufferErrorInterruptEvent", \h6, 1, 0, {1}, {}),
   Cmd("CAMU_SetReceiving", \h7, 4, 2, 1..6, {Share(5, 1)}),
   Cmd("CAMU_IsFinishedReceiving", \h8, 1, 0, {1}, {}),
   Cmd("CAMU_SetTransferLines", \h9, 4, 0, 1..4, {}),
   Cmd("CAMU_GetMaxLines", \hA, 2, 0, 1..2, {}),
   Cmd("CAMU_SetTransferBytes", \hB, 4, 0, 1..4, {}),
   Cmd("CAMU_GetTransferBytes", \hC, 1, 0, {1}, {}),
   Cmd("CAMU_GetMaxBytes", \hD, 2, 0, 1..2, {})}

CamuTrimming ==
  {Cmd("CAMU_SetTrimming", \hE, 2, 0, 1..2, {}),
   Cmd("CAMU_IsTrimming", \hF, 1, 0, {1}, {}),
   Cmd("CAMU_SetTrimmingParams", \h10, 5, 0, 1..5, {}),
   Cmd("CAMU_GetTrimmingParams", \h11, 1, 0, {1}, {}),
   Cmd("CAMU_SetTrimmingParamsCenter", \h12, 5, 0, 1..5, {}),
   Cmd("CAMU_Activate", \h13, 1, 0, {1}, {}),
   Cmd("CAMU_SwitchContext", \h14, 2, 0, 1..2, {}),
   Cmd("CAMU_SetExposure", \h15, 2, 0, 1..2, {}),
   Cmd("CAMU_SetWhiteBalance", \h16, 2, 0, 1..2, {}),
   Cmd("CAMU_SetWhiteBalanceWithoutBaseUp", \h17, 2, 0, 1..2, {}),
   Cmd("CAMU_SetSharpness", \h18, 2, 0, 1..2, {}),
   Cmd("CAMU_SetAutoExposure", \h19, 2, 0, 1..2, {}),
   Cmd("CAMU_IsAutoExposure", \h1A, 1, 0, {1}, {})}

CamuExposure ==
  {Cmd("CAMU_SetAutoWhiteBalance", \h1B, 2, 0, 1..2, {}),
   Cmd("CAMU_IsAutoWhiteBalance", \h1C, 1, 0, {1}, {}),
   Cmd("CAMU_FlipImage", \h1D, 3, 0, 1..3, {}),
   Cmd("CAMU_SetDetailSize", \h1E, 8, 0, 1..8, {}),
   Cmd("CAMU_SetSize", \h1F, 3, 0, 1..3, {}),
   Cmd("CAMU_SetFrameRate", \h20, 2, 0, 1..2, {}),
   Cmd("CAMU_SetPhotoMode", \h21, 2, 0, 1..2, {}),
   Cmd("CAMU_SetEffect", \h22, 3, 0, 1..3, {}),
   Cmd("CAMU_SetContrast", \h23, 2, 0, 1..2, {}),
   Cmd("CAMU_SetLensCorrection", \h24, 2, 0, 1..2, {}),
   Cmd("CAMU_SetOutputFormat", \h25, 3, 0, 1..3, {}),
   Cmd("CAMU_SetAutoExposureWindow", \h26, 5, 0, 1..5, {})}

CamuWindows ==
  {Cmd("CAMU_SetAutoWhiteBalanceWindow", \h27, 5, 0, 1..5, {}),
   Cmd("CAMU_SetNoiseFilter", \h28, 2, 0, 1..2, {}),
   Cmd("CAMU_SynchronizeVsyncTiming", \h29, 2, 0, 1..2, {}),
   Leaves({0}, Cmd("CAMU_GetLatestVsyncTiming", \h2A, 2, 0, 1..2, {})),
   Cmd("CAMU_GetStereoCameraCalibrationData", \h2B, 0, 0, {}, {}),
   Cmd("CAMU_SetStereoCameraCalibrationData", \h2C, 16, 0, 1..16, {}),
   Cmd("CAMU_WriteRegisterI2c", \h2D, 3, 0, 1..3, {}),
   Cmd("CAMU_WriteMcuVariableI2c", \h2E, 3, 0, 1..3, {}),
   Cmd("CAMU_ReadRegisterI2cExclusive", \h2F, 2, 0, 1..2, {}),
   Cmd("CAMU_ReadMcuVariableI2cExclusive", \h30, 2, 0, 1..2, {}),
   Cmd("CAMU_SetImageQualityCalibrationData", \h31, 6, 0, 1..6, {}),
   Cmd("CAMU_GetImageQualityCalibrationData", \h32, 0, 0, {}, {}),
   Cmd("CAMU_SetPackageParameterWithoutContext", \h33, 11, 0, 1..7, {})}

CamuPackages ==
  {Cmd("CAMU_SetPackageParameterWithContext", \h34, 5, 0, 1..2, {}),
   Cmd("CAMU_SetPackageParameterWithContextDetail", \h35, 7, 0, 1..4, {}),
   Cmd("CAMU_GetSuitableY2rStandardCoefficient", \h36, 0, 0, {}, {}),
   Cmd("CAMU_PlayShutterSound", \h38, 1, 0, {1}, {}),
   Cmd("CAMU_DriverInitialize", \h39, 0, 0, {}, {}),
   Cmd("CAMU_DriverFinalize", \h3A, 0, 0, {}, {}),
   Cmd("CAMU_GetActivatedCamera", \h3B, 0, 0, {}, {}),
   Cmd("CAMU_GetSleepCamera", \h3C, 0, 0, {}, {}),
   Cmd("CAMU_SetSleepCamera", \h3D, 0, 0, {1}, {}),
   Cmd("CAMU_SetBrightnessSynchronization", \h3E, 1, 0, {1}, {})}

\* services/csnd.c
CsndSound ==
  {Cmd("CSND_Initialize", \h1, 5, 0, 1..5, {}),
   Cmd("CSND_Shutdown", \h2, 0, 0, {}, {}),
   Cmd("CSND_ExecuteCommands", \h3, 1, 0, {1}, {}),
   Cmd("CSND_AcquireSoundChannels", \h5, 0, 0, {}, {}),
   Cmd("CSND_ReleaseSoundChannels", \h6, 0, 0, {}, {}),
   Cmd("CSND_AcquireCapUnit", \h7, 0, 0, {}, {}),
   Cmd("CSND_ReleaseCapUnit", \h8, 1, 0, {1}, {}),
   Cmd("CSND_FlushDataCache", \h9, 2, 2, 1..4, {Share(3, 1)}),
   Cmd("CSND_StoreDataCache", \hA, 2, 2, 1..4, {Share(3, 1)}),
   Cmd("CSND_InvalidateDataCache", \hB, 2, 2, 1..4, {Share(3, 1)})}

CsndReset == {Cmd("CSND_Reset", \hC, 0, 0, {}, {})}

\* services/dsp.c
DspPipesIn ==
  {Cmd("DSP_GetHeadphoneStatus", \h1F, 0, 0, {}, {}),
   Cmd("DSP_FlushDataCache", \h13, 2, 2, 1..4, {Share(3, 1)}),
   Cmd("DSP_InvalidateDataCache", \h14, 2, 2, 1..4, {Share(3, 1)}),
   Cmd("DSP_SetSemaphore", \h7, 1, 0, {1}, {}),
   Cmd("DSP_SetSemaphoreMask", \h17, 1, 0, {1}, {}),
   Cmd("DSP_GetSemaphoreHandle", \h16, 0, 0, {}, {}),
   Guarded(Cmd("DSP_LoadComponent", \h11, 3, 2, 1..5, {Buf(4)})),
   Guarded(Cmd("DSP_UnloadComponent", \h12, 0, 0, {}, {})),
   Cmd("DSP_RegisterInterruptEvents", \h15, 2, 2, 1..4, {Share(3, 1)}),
   Into({0}, Cmd("DSP_ReadPipeIfPossible", \h10, 3, 0, 1..3, {}))}

DspPipesOut ==
  {Cmd("DSP_WriteProcessPipe", \hD, 2, 2, 1..4, {Stat(3)}),
   Cmd("DSP_ConvertProcessAddressFromDspDram", \hC, 1, 0, {1}, {}),
   Cmd("DSP_RecvData", \h1, 1, 0, {1}, {}),
   Cmd("DSP_RecvDataIsReady", \h2, 1, 0, {1}, {}),
   Cmd("DSP_SendData", \h3, 2, 0, 1..2, {}),
   Cmd("DSP_SendDataIsEmpty", \h4, 1, 0, {1}, {})}

\* services/gspgpu.c
GspgpuRegisters ==
  {Guarded(Cmd("GSPGPU_WriteHWRegs", \h1, 2, 2, 1..4, {Stat(3)})),
   Guarded(Cmd("GSPGPU_WriteHWRegsWithMask", \h2, 2, 4, 1..6, {Stat(3), Stat(5)})),
   Guarded(Cmd("GSPGPU_ReadHWRegs", \h4, 2, 0, 1..2, {})),
   Cmd("GSPGPU_SetBufferSwap", \h5, 8, 0, 1..8, {}),
   Cmd("GSPGPU_FlushDataCache", \h8, 2, 2, 1..4, {Share(3, 1)}),
   Cmd("GSPGPU_InvalidateDataCache", \h9, 2, 2, 1..4, {Share(3, 1)}),
   Cmd("GSPGPU_SetLcdForceBlack", \hB, 1, 0, {1}, {}),
   Cmd("GSPGPU_TriggerCmdReqQueue", \hC, 0, 0, {}, {}),
   Cmd("GSPGPU_SetPerfLogMode", \h11, 1, 0, {1}, {}),
   Cmd("GSPGPU_GetPerfLog", \h12, 0, 0, {}, {})}

GspgpuInterruptsAndRights ==
  {Cmd("GSPGPU_RegisterInterruptRelayQueue", \h13, 1, 2, 1..3, {Share(2, 1)}),
   Cmd("GSPGPU_UnregisterInterruptRelayQueue", \h14, 0, 0, {}, {}),
   Guarded(Cmd("GSPGPU_AcquireRight", \h16, 1, 2, 1..3, {Share(2, 1)})),
   Guarded(Cmd("GSPGPU_ReleaseRight", \h17, 0, 0, {}, {})),
   Cmd("GSPGPU_ImportDisplayCaptureInfo", \h18, 0, 0, {}, {}),
   Cmd("GSPGPU_SaveVramSysArea", \h19, 0, 0, {}, {}),
   Cmd("GSPGPU_RestoreVramSysArea", \h1A, 0, 0, {}, {}),
   Cmd("GSPGPU_ResetGpuCore", \h1B, 0, 0, {}, {}),
   Cmd("GSPGPU_SetLedForceOff", \h1C, 1, 0, {1}, {})}

\* services/gsplcd.c
GsplcdBacklights ==
  {Cmd("GSPLCD_PowerOnAllBacklights", \hF, 0, 0, {}, {}),
   Cmd("GSPLCD_PowerOffAllBacklights", \h10, 0, 0, {}, {}),
   Cmd("GSPLCD_PowerOnBacklight", \h11, 1, 0, {1}, {}),
   Cmd("GSPLCD_PowerOffBacklight", \h12, 1, 0, {1}, {}),
   Cmd("GSPLCD_SetLedForceOff", \h13, 1, 0, {1}, {}),
   Cmd("GSPLCD_GetVendors", \h14, 0, 0, {}, {}),
   Cmd("GSPLCD_GetBrightness", \h15, 1, 0, {1}, {}),
   Cmd("GSPLCD_SetBrightness", \hB, 2, 0, 1..2, {}),
   Cmd("GSPLCD_SetBrightnessRaw", \hA, 2, 0, 1..2, {})}

\* services/mic.c
MicSampling ==
  {Cmd("MICU_MapSharedMem", \h1, 1, 2, 1..3, {Share(2, 1)}),
   Cmd("MICU_UnmapSharedMem", \h2, 0, 0, {}, {}),
   Cmd("MICU_StartSampling", \h3, 5, 0, 1..5, {}),
   Cmd("MICU_AdjustSampling", \h4, 1, 0, {1}, {}),
   Cmd("MICU_StopSampling", \h5, 0, 0, {}, {}),
   Cmd("MICU_IsSampling", \h6, 0, 0, {}, {}),
   Cmd("MICU_GetEventHandle", \h7, 0, 0, {}, {}),
   Cmd("MICU_SetGain", \h8, 1, 0, {1}, {}),
   Cmd("MICU_GetGain", \h9, 0, 0, {}, {}),
   Cmd("MICU_SetPower", \hA, 1, 0, {1}, {}),
   Cmd("MICU_GetPower", \hB, 0, 0, {}, {}),
   Cmd("MICU_SetClamp", \hD, 1, 0, {1}, {}),
   Cmd("MICU_GetClamp", \hE, 0, 0, {}, {})}

MicClamp == {Cmd("MICU_SetAllowShellClosed", \hF, 1, 0, {1}, {})}

\* services/mvd.c
MvdWork ==
  {Cmd("MVDSTD_Initialize", \h1, 2, 2, 1..4, {Share(3, 1)}),
   Cmd("MVDSTD_Shutdown", \h2, 0, 0, {}, {}),
   Cmd("MVDSTD_CalculateWorkBufSize", \h3, 12, 0, 1..12, {}),
   Cmd("MVDSTD_cmd5", \h5, 4, 0, 1..4, {}),
   Cmd("MVDSTD_cmd7", \h7, 0, 0, {}, {}),
   Cmd("MVDSTD_ProcessNALUnit", \h8, 5, 2, 1..7, {Share(6, 1)}),
   Cmd("MVDSTD_ControlFrameRendering", \h9, 1, 2, 1..3, {Share(2, 1)}),
   Cmd("MVDSTD_cmd18", \h18, 0, 0, {}, {}),
   Cmd("MVDSTD_cmd19", \h19, 0, 0, {}, {}),
   Cmd("MVDSTD_cmd1a", \h1A, 0, 0, {}, {}),
   Cmd("MVDSTD_cmd1b", \h1B, 1, 0, {1}, {})}

MvdBuffers ==
  {Cmd("MVDSTD_cmd1c", \h1C, 0, 0, {}, {}),
   Cmd("MVDSTD_SetConfig", \h1E, 1, 4, 1..5, {Share(2, 1), Buf(4)}),
   Cmd("mvdstdSetupOutputBuffers", \h1F, 36, 2, 1..38, {Share(37, 1)}),
   Cmd("mvdstdOverrideOutputBuffers", \h21, 4, 0, 1..4, {})}

\* services/y2r.c
Y2ruFormats ==
  {Cmd("Y2RU_SetInputFormat", \h1, 1, 0, {1}, {}),
   Cmd("Y2RU_GetInputFormat", \h2, 0, 0, {}, {}),
   Cmd("Y2RU_SetOutputFormat", \h3, 1, 0, {1}, {}),
   Cmd("Y2RU_GetOutputFormat", \h4, 0, 0, {}, {}),
   Cmd("Y2RU_SetRotation", \h5, 1, 0, {1}, {}),
   Cmd("Y2RU_GetRotation", \h6, 0, 0, {}, {}),
   Cmd("Y2RU_SetBlockAlignment", \h7, 1, 0, {1}, {}),
   Cmd("Y2RU_GetBlockAlignment", \h8, 0, 0, {}, {}),
   Cmd("Y2RU_SetSpacialDithering", \h9, 1, 0, {1}, {}),
   Cmd("Y2RU_GetSpacialDithering", \hA, 0, 0, {}, {}),
   Cmd("Y2RU_SetTemporalDithering", \hB, 1, 0, {1}, {}),
   Cmd("Y2RU_GetTemporalDithering", \hC, 0, 0, {}, {}),
   Cmd("Y2RU_SetTransferEndInterrupt", \hD, 1, 0, {1}, {})}

Y2ruTransfers ==
  {Cmd("Y2RU_GetTransferEndInterrupt", \hE, 0, 0, {}, {}),
   Cmd("Y2RU_GetTransferEndEvent", \hF, 0, 0, {}, {}),
   Cmd("Y2RU_SetSendingY", \h10, 4, 2, 1..6, {Share(5, 1)}),
   Cmd("Y2RU_SetSendingU", \h11, 4, 2, 1..6, {Share(5, 1)}),
   Cmd("Y2RU_SetSendingV", \h12, 4, 2, 1..6, {Share(5, 1)}),
   Cmd("Y2RU_SetSendingYUYV", \h13, 4, 2, 1..6, {Share(5, 1)}),
   Cmd("Y2RU_IsDoneSendingYUYV", \h14, 0, 0, {}, {}),
   Cmd("Y2RU_IsDoneSendingY", \h15, 0, 0, {}, {}),
   Cmd("Y2RU_IsDoneSendingU", \h16, 0, 0, {}, {}),
   Cmd("Y2RU_IsDoneSendingV", \h17, 0, 0, {}, {})}

Y2ruReceiving ==
  {Cmd("Y2RU_SetReceiving", \h18, 4, 2, 1..6, {Share(5, 1)}),
   Cmd("Y2RU_IsDoneReceiving", \h19, 0, 0, {}, {}),
   Cmd("Y2RU_SetInputLineWidth", \h1A, 1, 0, {1}, {}),
   Cmd("Y2RU_GetInputLineWidth", \h1B, 0, 0, {}, {}),
   Cmd("Y2RU_SetInputLines", \h1C, 1, 0, {1}, {}),
   Cmd("Y2RU_GetInputLines", \h1D, 0, 0, {}, {}),
   Cmd("Y2RU_SetCoefficients", \h1E, 4, 0, 1..4, {}),
   Cmd("Y2RU_GetCoefficients", \h1F, 0, 0, {}, {}),
   Cmd("Y2RU_SetStandardCoefficient", \h20, 1, 0, {1}, {}),
   Cmd("Y2RU_GetStandardCoefficient", \h21, 1, 0, {1}, {}),
   Cmd("Y2RU_SetAlpha", \h22, 1, 0, {1}, {}),
   Cmd("Y2RU_GetAlpha", \h23, 0, 0, {}, {}),
   Cmd("Y2RU_SetDitheringWeightParams", \h24, 8, 0, 1..8, {})}

Y2ruDithering ==
  {Cmd("Y2RU_GetDitheringWeightParams", \h25, 0, 0, {}, {}),
   Cmd("Y2RU_StartConversion", \h26, 0, 0, {}, {}),
   Cmd("Y2RU_StopConversion", \h27, 0, 0, {}, {}),
   Cmd("Y2RU_IsBusyConversion", \h28, 0, 0, {}, {}),
   Cmd("Y2RU_SetConversionParams", \h29, 7, 0, 1..3, {}),
   Cmd("Y2RU_PingProcess", \h2A, 0, 0, {}, {}),
   Cmd("Y2RU_DriverInitialize", \h2B, 0, 0, {}, {}),
   Cmd("Y2RU_DriverFinalize", \h2C, 0, 0, {}, {})}

\* services/cdcchk.c
CdcchkRegisters ==
  {Into({0}, Cmd("CDCCHK_ReadRegisters1", \h1, 3, 0, 1..3, {})),
   Into({0}, Cmd("CDCCHK_ReadRegisters2", \h2, 3, 0, 1..3, {})),
   Cmd("CDCCHK_WriteRegisters1", \h3, 3, 2, 1..5, {Stat(4)}),
   Cmd("CDCCHK_WriteRegisters2", \h4, 3, 2, 1..5, {Stat(4)}),
   Cmd("CDCCHK_ReadNtrPmicRegister", \h5, 1, 0, {1}, {}),
   Cmd("CDCCHK_WriteNtrPmicRegister", \h6, 2, 0, 1..2, {}),
   Cmd("CDCCHK_SetI2sVolume", \h7, 2, 0, 1..2, {})}

\* services/qtm.c
QtmuTracking ==
  {Cmd("QTMU_GetRawTrackingDataEx", \h1, 2, 0, 1..2, {}),
   Cmd("QTMU_GetTrackingDataEx", \h2, 2, 0, 1..2, {})}

QtmuLeds ==
  {Cmd("QTMU_EnableManualIrLedControl", \h3, 0, 0, {}, {}),
   Cmd("QTMU_DisableManualIrLedControl", \h4, 0, 0, {}, {}),
   Cmd("QTMU_SetIrLedStatus", \h5, 1, 0, {1}, {})}

QtmsStatus ==
  {Cmd("QTMU_IsCurrentAppBlacklisted", \h6, 0, 0, {}, {}),
   Cmd("QTMS_SetCentralBarrierPosition", \h401, 1, 0, {1}, {}),
   Cmd("QTMS_GetCameraLuminance", \h402, 0, 0, {}, {}),
   Cmd("QTMS_EnableAutoBarrierControl", \h403, 0, 0, {}, {}),
   Cmd("QTMS_DisableAutoBarrierControl", \h404, 0, 0, {}, {}),
   Cmd("QTMS_SetBarrierPosition", \h405, 1, 0, {1}, {}),
   Cmd("QTMS_GetCurrentBarrierPosition", \h406, 0, 0, {}, {}),
   Cmd("QTMS_SetIrLedStatusOverride", \h407, 1, 0, {1}, {}),
   Cmd("QTMS_SetCalibrationData", \h408, 7, 0, 1..7, {}),
   Cmd("QTMS_GetQtmStatus", \h409, 0, 0, {}, {})}

QtmspPower ==
  {Cmd("QTMS_SetQtmStatus", \h40A, 1, 0, {1}, {}),
   Cmd("QTMSP_NotifyTopLcdModeChange", \h801, 1, 0, {1}, {}),
   Cmd("QTMSP_NotifyTopLcdPowerOn", \h802, 0, 0, {}, {}),
   Cmd("QTMSP_IsExpanderInUse", \h803, 0, 0, {}, {}),
   Cmd("QTMSP_NotifyTopLcdPowerOff", \h804, 0, 0, {}, {})}

\* services/qtmc.c
QtmcHardware ==
  {Cmd("QTMC_StartHardwareCheck", \h1, 0, 0, {}, {}),
   Cmd("QTMC_StopHardwareCheck", \h2, 0, 0, {}, {}),
   Cmd("QTMC_SetBarrierPattern", \h3, 1, 0, {1}, {}),
   Cmd("QTMC_WaitAndCheckExpanderWorking", \h4, 0, 0, {}, {}),
   Cmd("QTMC_SetIrLedStatusOverride", \h5, 1, 0, {1}, {})}

MediaRequests == UNION {CamuCapture, CamuTrimming, CamuExposure, CamuWindows, CamuPackages,
    CsndSound, CsndReset, DspPipesIn, DspPipesOut, GspgpuRegisters,
    GspgpuInterruptsAndRights, GsplcdBacklights, MicSampling,
    MicClamp, MvdWork, MvdBuffers, Y2ruFormats, Y2ruTransfers,
    Y2ruReceiving, Y2ruDithering, CdcchkRegisters, QtmuTracking,
    QtmuLeds, QtmsStatus, QtmspPower, QtmcHardware}
=============================================================================

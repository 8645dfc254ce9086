----------------------------- MODULE IpcTitles -----------------------------
(***************************************************************************)
(* The requests made by the wrappers of titles and programs: am, the       *)
(* loader, nim, ns, pm, the service manager, APT and err:f. One definition *)
(* per stretch of a source file, one row per request that it composes;     *)
(* IpcWire says what a row is.                                             *)
(***************************************************************************)
EXTENDS IpcWire

\* services/am.c
AmTitlesAndTickets ==
  {Cmd("AM_GetTitleCount", \h1, 1, 0, {1}, {}),
   Cmd("AM_GetTitleList", \h2, 2, 2, 1..4, {Buf(3)}),
   Cmd("AM_GetTitleInfo", \h3, 2, 4, 1..6, {Buf(3), Buf(5)}),
   Cmd("AM_DeleteUserTitle", \h4, 3, 0, 1..3, {}),
   Cmd("AM_GetTitleProductCode", \h5, 3, 0, 1..3, {}),
   Cmd("AM_GetTitleExtDataId", \h6, 3, 0, 1..3, {}),
   Cmd("AM_DeleteTicket", \h7, 2, 0, 1..2, {}),
   Cmd("AM_GetTicketCount", \h8, 0, 0, {}, {}),
   Cmd("AM_GetTicketList", \h9, 2, 2, 1..4, {Buf(3)})}

AmDeviceAndImports ==
  {Cmd("AM_GetDeviceId", \hA, 0, 0, {}, {}),
   Cmd("AM_GetNumPendingTitles", \hB, 1, 0, {1}, {}),
   Cmd("AM_GetPendingTitleList", \hC, 2, 2, 1..4, {Buf(3)}),
   Cmd("AM_GetPendingTitleInfo", \hD, 2, 4, 1..6, {Buf(3), Buf(5)}),
   Cmd("AM_DeletePendingTitle", \hE, 3, 0, 1..3, {}),
   Cmd("AM_GetNumImportContentContexts", \hF, 3, 0, 1..3, {}),
   Cmd("AM_GetImportContentContextList", \h10, 4, 2, 1..6, {Buf(5)}),
   Cmd("AM_GetImportContentContexts", \h11, 4, 4, 1..8, {Buf(5), Buf(7)})}

AmContentContexts ==
  {Cmd("AM_DeleteImportContentContexts", \h12, 4, 2, 1..6, {Buf(5)}),
   Cmd("AM_NeedsCleanup", \h13, 1, 0, {1}, {}),
   Cmd("AM_DoCleanup", \h14, 1, 0, {1}, {}),
   Cmd("AM_DeleteAllPendingTitles", \h15, 1, 0, {1}, {}),
   Cmd("AM_DeleteAllTemporaryTitles", \h16, 0, 0, {}, {}),
   Cmd("AM_InitializeExternalTitleDatabase", \h18, 2, 0, 1..2, {}),
   Cmd("AM_QueryAvailableExternalTitleDatabase", \h19, 1, 0, {1}, {}),
   Cmd("AM_CalculateTwlBackupSize", \h1A, 3, 0, 1..3, {}),
   Guarded(Cmd("AM_ExportTwlBackup", \h1B, 5, 4, 1..9, {Buf(6), Buf(8)}))}

AmTwlAndImportLists ==
  {Cmd("AM_ImportTwlBackup", \h1C, 2, 4, 1..6, {Move(3, 1), Buf(5)}),
   Cmd("AM_DeleteAllTwlUserTitles", \h1D, 0, 0, {}, {}),
   Cmd("AM_ReadTwlBackupInfo", \h1E, 3, 8, 1..11, {Move(4, 1), Buf(6), Buf(8), Buf(10)}),
   Cmd("AM_DeleteAllExpiredTitles", \h1F, 1, 0, {1}, {}),
   Cmd("AM_GetTWLPartitionInfo", \h20, 0, 0, {}, {}),
   Cmd("AM_GetPersonalizedTicketInfos", \h21, 1, 2, 1..3, {Buf(2)}),
   Cmd("AM_DeleteAllImportTitleContexts", \h22, 2, 0, 1..2, {}),
   Cmd("AM_GetNumImportTitleContexts", \h23, 2, 0, 1..2, {}),
   Cmd("AM_GetImportTitleContextList", \h24, 3, 2, 1..5, {Buf(4)})}

AmRightsAndInfos ==
  {Cmd("AM_CheckContentRights", \h25, 3, 0, 1..3, {}),
   Cmd("AM_GetTicketLimitInfo", \h26, 1, 4, 1..5, {Buf(2), Buf(4)}),
   Cmd("AM_GetDemoLaunchInfo", \h27, 1, 4, 1..5, {Buf(2), Buf(4)}),
   Cmd("AM_ReadTwlBackupInfoEx", \h28, 4, 8, 1..12, {Move(5, 1), Buf(7), Buf(9), Buf(11)}),
   Cmd("AM_DeleteUserTitles", \h29, 2, 2, 1..4, {Buf(3)}),
   Cmd("AM_GetNumExistingContentInfos", \h2A, 3, 0, 1..3, {}),
   Cmd("AM_ListExistingContentInfos", \h2B, 5, 2, 1..7, {Buf(6)}),
   Cmd("AM_GetTitleInfosIgnorePlatform", \h2C, 2, 4, 1..6, {Buf(3), Buf(5)})}

AmCiaInfo ==
  {Cmd("AM_CheckContentRightsIgnorePlatform", \h2D, 3, 0, 1..3, {}),
   Cmd("AM_InstallFirm", \h401, 2, 0, 1..2, {}),
   Cmd("AM_StartCiaInstall", \h402, 1, 0, {1}, {}),
   Cmd("AM_StartTempCiaInstall", \h403, 0, 0, {}, {}),
   Cmd("AM_CancelCIAInstall", \h404, 0, 2, 1..2, {Move(1, 1)}),
   Cmd("AM_FinishCiaInstall", \h405, 0, 2, 1..2, {Move(1, 1)}),
   Cmd("AM_FinishCiaInstallWithoutCommit", \h406, 0, 2, 1..2, {Move(1, 1)}),
   Cmd("AM_CommitImportTitles", \h407, 3, 2, 1..5, {Buf(4)}),
   Cmd("AM_GetCiaFileInfo", \h408, 1, 2, 1..3, {Share(2, 1)})}

AmCiaContents ==
  {Cmd("AM_GetCiaIcon", \h409, 0, 4, 1..4, {Share(1, 1), Buf(3)}),
   Leaves({0}, Cmd("AM_GetCiaDependencies", \h40A, 0, 2, 1..2, {Share(1, 1)})),
   Cmd("AM_GetCiaMetaOffset", \h40B, 0, 2, 1..2, {Share(1, 1)}),
   Cmd("AM_GetCiaCoreVersion", \h40C, 0, 2, 1..2, {Share(1, 1)}),
   Cmd("AM_GetCiaRequiredSpace", \h40D, 1, 2, 1..3, {Share(2, 1)}),
   Cmd("AM_CommitImportTitlesAndInstallFirmAuto", \h40E, 3, 2, 1..5, {Buf(4)}),
   Cmd("AM_InstallFirmAuto", \h40F, 0, 0, {}, {}),
   Cmd("AM_DeleteTitle", \h410, 3, 0, 1..3, {}),
   Cmd("AM_GetTwlTitleListForReboot", \h411, 1, 4, 1..5, {Buf(2), Buf(4)})}

AmUpdaterMutex ==
  {Cmd("AM_GetSystemUpdaterMutex", \h412, 0, 0, {}, {}),
   Cmd("AM_GetCiaMetaSize", \h413, 0, 2, 1..2, {Share(1, 1)}),
   Cmd("AM_GetCiaMetaSection", \h414, 1, 4, 1..5, {Share(2, 1), Buf(4)}),
   Cmd("AM_CheckDemoLaunchRight", \h415, 2, 0, 1..2, {}),
   Cmd("AM_GetInternalTitleLocationInfo", \h416, 3, 0, 1..3, {}),
   Cmd("AM_MigrateAGBToSAV", \h417, 3, 0, 1..3, {}),
   Cmd("AM_StartCiaInstallOverwrite", \h418, 1, 0, {1}, {}),
   Cmd("AM_StartSystemCiaInstall", \h419, 0, 0, {}, {}),
   Cmd("AMNET_InstallTicketBegin", \h801, 0, 0, {}, {}),
   Cmd("AMNET_InstallTicketAbort", \h802, 0, 2, 1..2, {Move(1, 1)})}

AmInstallTicket ==
  {Cmd("AMNET_InstallTicketFinish", \h803, 0, 2, 1..2, {Move(1, 1)}),
   Cmd("AMNET_InstallTitleBegin", \h804, 4, 0, 1..4, {}),
   Cmd("AMNET_InstallTitleStop", \h805, 0, 0, {}, {}),
   Cmd("AMNET_InstallTitleResume", \h806, 3, 0, 1..3, {}),
   Cmd("AMNET_InstallTitleAbort", \h807, 0, 0, {}, {}),
   Cmd("AMNET_InstallTitleFinish", \h808, 0, 0, {}, {}),
   Cmd("AMNET_CommitImportTitles", \h809, 3, 2, 1..5, {Buf(4)}),
   Cmd("AMNET_InstallTmdBegin", \h80A, 0, 0, {}, {}),
   Cmd("AMNET_InstallTmdAbort", \h80B, 0, 2, 1..2, {Move(1, 1)}),
   Cmd("AMNET_InstallTmdFinish", \h80C, 1, 2, 1..3, {Move(2, 1)})}

AmInstallContents ==
  {Cmd("AMNET_CreateImportContentContexts", \h80D, 1, 2, 1..3, {Buf(2)}),
   Cmd("AMNET_InstallContentBegin", \h80E, 1, 0, {1}, {}),
   Cmd("AMNET_InstallContentStop", \h80F, 0, 2, 1..2, {Move(1, 1)}),
   Cmd("AMNET_InstallContentResume", \h810, 1, 0, {1}, {}),
   Cmd("AMNET_InstallContentCancel", \h811, 0, 2, 1..2, {Move(1, 1)}),
   Cmd("AMNET_InstallContentFinish", \h812, 0, 2, 1..2, {Move(1, 1)}),
   Cmd("AMNET_GetNumCurrentImportContentContexts", \h813, 0, 0, {}, {}),
   Cmd("AMNET_GetCurrentImportContentContextsList", \h814, 1, 2, 1..3, {Buf(2)}),
   Cmd("AMNET_GetCurrentImportContentContexts", \h815, 1, 4, 1..5, {Buf(2), Buf(4)})}

AmSigning ==
  {Cmd("AMNET_Sign", \h816, 5, 6, 1..11, {Buf(6), Buf(8), Buf(10)}),
   Cmd("AMNET_GetCTCert", \h818, 1, 2, 1..3, {Buf(2)}),
   Cmd("AMNET_ImportCertificates", \h819, 4, 8, 1..12, {Buf(5), Buf(7), Buf(9), Buf(11)}),
   Cmd("AMNET_ImportCertificate", \h81A, 1, 2, 1..3, {Buf(2)}),
   Cmd("AMNET_CommitImportTitlesAndInstallFirmAuto", \h81B, 3, 2, 1..5, {Buf(4)}),
   Cmd("AMNET_DeleteTicket", \h81C, 4, 0, 1..4, {}),
   Cmd("AMNET_GetTitleNumTicketIds", \h81D, 2, 0, 1..2, {}),
   Cmd("AMNET_GetTitleTicketIds", \h81E, 4, 2, 1..6, {Buf(5)})}

AmTicketCounts ==
  {Cmd("AMNET_GetTitleNumTickets", \h81F, 2, 0, 1..2, {}),
   Cmd("AMNET_GetTicketInfos", \h820, 4, 2, 1..6, {Buf(5)}),
   Cmd("AMNET_ExportLicenseTicket", \h821, 5, 2, 1..7, {Buf(6)}),
   Cmd("AMNET_GetNumCurrentContentInfos", \h822, 0, 0, {}, {}),
   Cmd("AMNET_FindCurrentContentInfos", \h823, 1, 4, 1..5, {Buf(2), Buf(4)}),
   Cmd("AMNET_ListCurrentContentInfos", \h824, 2, 2, 1..4, {Buf(3)}),
   Cmd("AMNET_CalculateContextRequiredSize", \h825, 4, 2, 1..6, {Buf(5)}),
   Cmd("AMNET_UpdateImportContentContexts", \h826, 1, 2, 1..3, {Buf(2)}),
   Cmd("AMNET_DeleteAllDemoLaunchInfos", \h827, 0, 0, {}, {})}

AmDlcOverwrite ==
  {Cmd("AMNET_InstallTitleBeginForOverwrite", \h828, 3, 0, 1..3, {}),
   Cmd("AMNET_ExportTicketWrapped", \h829, 6, 4, 1..10, {Buf(7), Buf(9)}),
   Cmd("AMAPP_GetDLCContentInfoCount", \h1001, 3, 0, 1..3, {}),
   Cmd("AMAPP_FindDLCContentInfos", \h1002, 4, 4, 1..8, {Buf(5), Buf(7)}),
   Cmd("AMAPP_ListDLCContentInfos", \h1003, 5, 2, 1..7, {Buf(6)}),
   Cmd("AMAPP_DeleteDLCContents", \h1004, 4, 2, 1..6, {Buf(5)}),
   Cmd("AMAPP_GetDLCTitleInfos", \h1005, 2, 4, 1..6, {Buf(3), Buf(5)}),
   Cmd("AMAPP_GetDLCOrLicenseNumTickets", \h1006, 2, 0, 1..2, {})}

AmDlcAndPatches ==
  {Cmd("AMAPP_ListDLCOrLicenseTicketInfos", \h1007, 4, 2, 1..6, {Buf(5)}),
   Cmd("AMAPP_GetDLCOrLicenseItemRights", \h1008, 7, 2, 1..9, {Buf(8)}),
   Cmd("AMAPP_IsDLCTitleInUse", \h1009, 3, 0, 1..3, {}),
   Cmd("AMAPP_QueryAvailableExternalTitleDatabase", \h100A, 0, 0, {}, {}),
   Cmd("AMAPP_GetNumExistingDLCContentInfos", \h100B, 3, 0, 1..3, {}),
   Cmd("AMAPP_ListExistingDLCContentInfos", \h100C, 5, 2, 1..7, {Buf(6)}),
   Cmd("AMAPP_GetPatchTitleInfos", \h100D, 2, 4, 1..6, {Buf(3), Buf(5)})}

\* services/ampxi.c
AmPxiInstall ==
  {Cmd("AMPXI_WriteTWLSavedata", \h46, 6, 2, 1..8, {Pxi(7)}),
   Cmd("AMPXI_InstallTitlesFinish", \h2A, 3, 2, 1..5, {Pxi(4)})}

\* services/loader.c
LoaderPrograms ==
  {Cmd("LOADER_LoadProcess", \h1, 2, 0, 1..2, {}),
   Cmd("LOADER_RegisterProgram", \h2, 8, 0, 1..8, {}),
   Cmd("LOADER_UnregisterProgram", \h3, 2, 0, 1..2, {}),
   LeavesOnFailure({0}, Cmd("LOADER_GetProgramInfo", \h4, 2, 0, 1..2, {}))}

\* services/nim.c
NimsQueries ==
  {Cmd("NIMS_GetInitializeResult", \h3F, 0, 0, {}, {}),
   Cmd("NIMS_RegisterSelf", \h3C, 0, 2, 1..2, {Pid(1), Move(2, 1)}),
   Cmd("NIMS_ConnectNoTicketDownload", \h57, 2, 2, 1..4, {Buf(3)})}

NimsAttributes ==
  {Cmd("NIMS_SetAttribute", \hB, 2, 4, 1..6, {Stat(3), Stat(5)}),
   Cmd("NIMS_WantUpdate", \hA, 0, 0, {}, {})}

NimsDownloads ==
  {Guarded(Cmd("NIMS_RegisterTask", \h55, 9, 6, 1..6 \cup 9..10 \cup 12..15, {Pid(10), Stat(12), Stat(14)})),
   Cmd("NIMS_IsTaskRegistered", \h6, 2, 0, 1..2, {}),
   Cmd("NIMS_UnregisterTask", \h5, 2, 2, 1..3, {Pid(3)}),
   Cmd("NIMS_StartDownload", \h42, 9, 0, 1..6 \cup {9}, {}),
   Cmd("NIMS_StartDownloadSimple", \h1, 8, 0, 1..6, {}),
   Cmd("NIMS_GetProgress", \h3, 0, 0, {}, {}),
   Cmd("NIMS_CancelDownload", \h2, 0, 0, {}, {})}

\* services/ns.c
NsLaunch ==
  {Cmd("NS_LaunchFIRM", \h1, 3, 0, 1..2, {}),
   Cmd("NS_LaunchTitle", \h2, 3, 0, 1..3, {}),
   Cmd("NS_TerminateTitle", \h3, 0, 0, {}, {}),
   Cmd("NS_LaunchApplicationFIRM", \h5, 3, 0, 1..3, {}),
   Cmd("NS_RebootToTitle", \h10, 6, 0, 1..6, {}),
   Cmd("NS_TerminateProcessTID", \h11, 4, 0, 1..4, {}),
   Cmd("NS_RebootSystem", \h16, 0, 0, {}, {})}

\* services/pmapp.c
PmappLaunch ==
  {Cmd("PMAPP_LaunchTitle", \h1, 5, 0, 1..5, {}),
   Cmd("PMAPP_LaunchFIRMSetParams", \h2, 2, 2, 1..4, {Buf(3)}),
   Cmd("PMAPP_TerminateCurrentApplication", \h3, 2, 0, 1..2, {}),
   Cmd("PMAPP_TerminateTitle", \h4, 4, 0, 1..4, {}),
   Cmd("PMAPP_TerminateProcess", \h5, 3, 0, 1..3, {}),
   Cmd("PMAPP_PrepareForReboot", \h6, 2, 2, 1..4, {Pid(3)}),
   Cmd("PMAPP_GetFIRMLaunchParams", \h7, 1, 2, 1..3, {Buf(2)}),
   Cmd("PMAPP_GetTitleExheaderFlags", \h8, 4, 0, 1..4, {}),
   Cmd("PMAPP_SetFIRMLaunchParams", \h9, 1, 2, 1..3, {Buf(2)})}

PmappLimits ==
  {Cmd("PMAPP_SetAppResourceLimit", \hA, 5, 0, 1..5, {}),
   Cmd("PMAPP_GetAppResourceLimit", \hB, 5, 0, 1..5, {}),
   Cmd("PMAPP_UnregisterProcess", \hC, 0, 0, 1..2, {}),
   Cmd("PMAPP_LaunchTitleUpdate", \hD, 9, 0, 1..9, {})}

\* services/pmdbg.c
PmdbgLaunch ==
  {Cmd("PMDBG_LaunchAppDebug", \h1, 5, 0, 1..5, {}),
   Cmd("PMDBG_LaunchApp", \h2, 5, 0, 1..5, {}),
   Cmd("PMDBG_RunQueuedProcess", \h3, 0, 0, {}, {})}

\* services/pxipm.c
PxipmPrograms ==
  {Cmd("PXIPM_GetProgramInfo", \h1, 2, 2, 1..4, {Pxi(3)}),
   Cmd("PXIPM_RegisterProgram", \h2, 8, 0, 1..8, {}),
   Cmd("PXIPM_UnregisterProgram", \h3, 2, 0, 1..2, {})}

\* services/srvpm.c
SrvpmProcesses ==
  {Cmd("SRVPM_PublishToProcess", \h1, 1, 2, 1..3, {Share(2, 1)}),
   Cmd("SRVPM_PublishToAll", \h2, 1, 0, {1}, {}),
   Cmd("SRVPM_RegisterProcess", \h3, 2, 2, 1..4, {Stat(3)}),
   Cmd("SRVPM_UnregisterProcess", \h4, 1, 0, {1}, {})}

\* srv.c
SrvServices ==
  {Cmd("srvRegisterClient", \h1, 0, 2, {1}, {Pid(1)}),
   Cmd("srvEnableNotification", \h2, 0, 0, {}, {}),
   Cmd("srvRegisterService", \h3, 4, 0, 1..4, {}),
   Cmd("srvUnregisterService", \h4, 3, 0, 1..3, {}),
   Cmd("srvGetServiceHandleDirect", \h5, 4, 0, 1..4, {}),
   Cmd("srvRegisterPort", \h6, 3, 2, 1..5, {Share(4, 1)}),
   Cmd("srvUnregisterPort", \h7, 3, 0, 1..3, {}),
   Cmd("srvGetPort", \h8, 4, 0, 1..4, {}),
   Cmd("srvWaitForPortRegistered", \h8, 4, 0, 1..4, {}),
   Cmd("srvSubscribe", \h9, 1, 0, {1}, {})}

SrvNotifications ==
  {Cmd("srvUnsubscribe", \hA, 1, 0, {1}, {}),
   Cmd("srvReceiveNotification", \hB, 0, 0, {}, {}),
   Cmd("srvPublishToSubscriber", \hC, 2, 0, 1..2, {}),
   Cmd("srvPublishAndGetSubscriber", \hD, 1, 0, {1}, {}),
   Cmd("srvIsServiceRegistered", \hE, 3, 0, 1..3, {})}

\* services/apt.c
AptLockAndInquiry ==
  {Cmd("APT_GetLockHandle", \h1, 1, 0, {1}, {}),
   Cmd("APT_Initialize", \h2, 2, 0, 1..2, {}),
   Cmd("APT_Finalize", \h4, 1, 0, {1}, {}),
   Cmd("APT_HardwareResetAsync", \h4E, 0, 0, {}, {}),
   Cmd("APT_Enable", \h3, 1, 0, {1}, {}),
   Cmd("APT_GetAppletManInfo", \h5, 1, 0, {1}, {}),
   Cmd("APT_GetAppletInfo", \h6, 1, 0, {1}, {}),
   Cmd("APT_GetAppletProgramInfo", \h4D, 2, 0, 1..2, {}),
   Cmd("APT_GetProgramID", \h58, 0, 2, {1}, {Pid(1)}),
   Cmd("APT_IsRegistered", \h9, 1, 0, {1}, {}),
   Cmd("APT_InquireNotification", \hB, 1, 0, {1}, {})}

AptHomeAndUtility ==
  {Cmd("APT_PrepareToJumpToHomeMenu", \h2B, 0, 0, {}, {}),
   Cmd("APT_JumpToHomeMenu", \h2C, 1, 4, 1..5, {Share(2, 1), Stat(4)}),
   Cmd("APT_PrepareToJumpToApplication", \h23, 1, 0, {1}, {}),
   Cmd("APT_JumpToApplication", \h24, 1, 4, 1..5, {Share(2, 1), Stat(4)}),
   Cmd("APT_SleepSystem", \h42, 2, 0, 1..2, {}),
   Cmd("APT_NotifyToWait", \h43, 1, 0, {1}, {}),
   Into({0}, Cmd("APT_AppletUtility", \h4B, 3, 2, 1..5, {Stat(4)}))}

AptParametersAndStart ==
  {Into({0}, Cmd("APT_GlanceParameter", \hE, 2, 0, 1..2, {})),
   Into({0}, Cmd("APT_ReceiveParameter", \hD, 2, 0, 1..2, {})),
   Cmd("APT_SendParameter", \hC, 4, 4, 1..8, {Share(5, 1), Stat(7)}),
   Cmd("APT_CancelParameter", \hF, 4, 0, 1..4, {}),
   Cmd("APT_SendCaptureBufferInfo", \h40, 1, 2, 1..3, {Stat(2)}),
   Cmd("APT_ReplySleepQuery", \h3E, 2, 0, 1..2, {}),
   Cmd("APT_ReplySleepNotificationComplete", \h3F, 1, 0, {1}, {}),
   Cmd("APT_PrepareToCloseApplication", \h22, 1, 0, {1}, {}),
   Cmd("APT_CloseApplication", \h27, 1, 4, 1..5, {Share(2, 1), Stat(4)})}

AptTimeLimit ==
  {Cmd("APT_SetAppCpuTimeLimit", \h4F, 2, 0, 1..2, {}),
   Cmd("APT_GetAppCpuTimeLimit", \h50, 1, 0, {1}, {}),
   Cmd("APT_CheckNew3DS_System", \h102, 0, 0, {}, {})}

AptApplicationJump ==
  {Cmd("APT_PrepareToDoApplicationJump", \h31, 4, 0, 1..4, {}),
   Cmd("APT_DoApplicationJump", \h32, 2, 4, 1..6, {Stat(3), Stat(5)}),
   Cmd("APT_PrepareToStartLibraryApplet", \h18, 1, 0, {1}, {}),
   Cmd("APT_StartLibraryApplet", \h1E, 2, 4, 1..6, {Share(3, 1), Stat(5)}),
   Cmd("APT_PrepareToStartSystemApplet", \h19, 1, 0, {1}, {}),
   Cmd("APT_StartSystemApplet", \h1F, 2, 4, 1..6, {Share(3, 1), Stat(5)}),
   Cmd("APT_GetSharedFont", \h44, 0, 0, {}, {}),
   Into({0, 1}, Cmd("APT_ReceiveDeliverArg", \h35, 2, 0, 1..2, {}))}

\* errf.c
ErrfThrow == {Cmd("ERRF_Throw", \h1, 32, 0, 1..32, {})}

ErrfUserString == {Guarded(Cmd("ERRF_SetUserString", \h2, 1, 2, 1..3, {Stat(2)}))}

TitlesRequests == UNION {AmTitlesAndTickets, AmDeviceAndImports, AmContentContexts,
    AmTwlAndImportLists, AmRightsAndInfos, AmCiaInfo, AmCiaContents,
    AmUpdaterMutex, AmInstallTicket, AmInstallContents, AmSigning,
    AmTicketCounts, AmDlcOverwrite, AmDlcAndPatches, AmPxiInstall,
    LoaderPrograms, NimsQueries, NimsAttributes, NimsDownloads,
    NsLaunch, PmappLaunch, PmappLimits, PmdbgLaunch, PxipmPrograms,
    SrvpmProcesses, SrvServices, SrvNotifications, AptLockAndInquiry,
    AptHomeAndUtility, AptParametersAndStart, AptTimeLimit,
    AptApplicationJump, ErrfThrow, ErrfUserString}
=============================================================================

---------------------------- MODULE IpcAccounts ----------------------------
(***************************************************************************)
(* The requests made by the wrappers of accounts, friends, BOSS, news, the *)
(* network daemons and the configuration. One definition per stretch of a  *)
(* source file, one row per request that it composes; IpcWire says what a  *)
(* row is.                                                                 *)
(***************************************************************************)
EXTENDS IpcWire

\* services/act.c
ActSession ==
  {Cmd("ACT_Initialize", \h1, 2, 4, 1..3 \cup 5..6, {Pid(3), Share(5, 1)}),
   Cmd("ACT_ResultToErrorCode", \h2, 1, 0, {1}, {}),
   Cmd("ACT_GetLastResponseResult", \h3, 0, 0, {}, {}),
   Cmd("ACT_Cancel", \h4, 0, 0, {}, {}),
   Cmd("ACT_GetCommonInfo", \h5, 2, 2, 1..4, {Buf(3)}),
   Cmd("ACT_GetAccountInfo", \h6, 3, 2, 1..5, {Buf(4)}),
   Cmd("ACT_GetAsyncResult", \h7, 2, 2, 1..4, {Buf(3)}),
   Cmd("ACT_GetMiiImage", \h8, 3, 2, 1..5, {Buf(4)}),
   Cmd("ACT_SetNfsPassword", \h9, 6, 0, 1..6, {})}

ActUpdatesAndTokens ==
  {Cmd("ACT_SetIsApplicationUpdateRequired", \hA, 1, 0, {1}, {}),
   Cmd("ACT_AcquireEulaList", \hB, 1, 2, 1..3, {Share(2, 1)}),
   Cmd("ACT_AcquireTimezoneList", \hC, 2, 2, 1..4, {Share(3, 1)}),
   Cmd("ACT_GenerateUuid", \hD, 1, 0, {1}, {}),
   Cmd("ACT_GetUuid", \hE, 2, 0, 1..2, {}),
   Cmd("ACT_FindSlotNoByUuid", \hF, 5, 0, 1..5, {}),
   Cmd("ACT_Save", \h10, 0, 0, {}, {}),
   Cmd("ACT_GetTransferableId", \h11, 2, 0, 1..2, {}),
   Cmd("ACT_AcquireNexServiceToken", \h12, 4, 2, 1..6, {Share(5, 1)}),
   Cmd("ACT_GetNexServiceToken", \h13, 0, 2, 1..2, {Buf(1)})}

ActIndependentTokens ==
  {Cmd("ACT_AcquireIndependentServiceToken", \h14, 14, 2, 1..16, {Share(15, 1)}),
   Cmd("ACT_GetIndependentServiceToken", \h15, 0, 2, 1..2, {Buf(1)}),
   Cmd("ACT_AcquireAccountInfo", \h16, 2, 2, 1..4, {Share(3, 1)}),
   Cmd("ACT_AcquireAccountIdByPrincipalId", \h17, 2, 4, 1..6, {Share(3, 1), Stat(5)}),
   Cmd("ACT_AcquirePrincipalIdByAccountId", \h18, 1, 4, 1..5, {Share(2, 1), Stat(4)}),
   Cmd("ACT_AcquireMii", \h19, 1, 4, 1..5, {Share(2, 1), Stat(4)}),
   Cmd("ACT_AcquireAccountInfoRaw", \h1A, 1, 2, 1..3, {Share(2, 1)}),
   Cmd("ACT_GetCachedIndependentServiceToken", \h1C, 13, 2, 1..15, {Buf(14)})}

ActAccountCommit ==
  {Cmd("ACT_InquireMailAddressAvailability", \h1D, 0, 4, 1..4, {Share(1, 1), Buf(3)}),
   Cmd("ACT_AcquireEula", \h1E, 2, 2, 1..4, {Share(3, 1)}),
   Cmd("ACT_AcquireEulaLanguageList", \h1F, 1, 2, 1..3, {Share(2, 1)}),
   Cmd("ACT_AcquireIndependentServiceTokenV2", \h20, 14, 2, 1..16, {Share(15, 1)}),
   Cmd("ACT_GetIndependentServiceTokenV2", \h21, 0, 2, 1..2, {Buf(1)}),
   Cmd("ACT_GetCachedIndependentServiceTokenV2", \h22, 13, 2, 1..15, {Buf(14)}),
   Cmd("ACTA_SwapAccounts", \h401, 2, 0, 1..2, {}),
   Cmd("ACTA_CreateConsoleAccount", \h402, 0, 0, {}, {}),
   Cmd("ACTA_CommitConsoleAccount", \h403, 1, 0, {1}, {})}

ActServerUnbinding ==
  {Cmd("ACTA_UnbindServerAccount", \h404, 2, 0, 1..2, {}),
   Cmd("ACTA_DeleteConsoleAccount", \h405, 1, 0, {1}, {}),
   Cmd("ACTA_LoadConsoleAccount", \h406, 9, 0, 1..9, {}),
   Cmd("ACTA_UnloadConsoleAccount", \h407, 0, 0, {}, {}),
   Cmd("ACTA_EnableAccountPasswordCache", \h408, 2, 0, 1..2, {}),
   Cmd("ACTA_SetDefaultAccount", \h409, 1, 0, {1}, {}),
   Cmd("ACTA_ReplaceAccountId", \h40A, 1, 0, {1}, {}),
   Cmd("ACTA_GetSupportContext", \h40B, 1, 0, {1}, {}),
   Cmd("ACTA_SetHostServerSettings", \h40C, 4, 0, 1..4, {}),
   Cmd("ACTA_SetDefaultHostServerSettings", \h40D, 3, 0, 1..3, {})}

ActHostsAndMii ==
  {Cmd("ACTA_SetHostServerSettingsStr", \h40E, 11, 0, 1..11, {}),
   Cmd("ACTA_SetDefaultHostServerSettingsStr", \h40F, 10, 0, 1..10, {}),
   Cmd("ACTA_SetPersistentIdHead", \h410, 1, 0, {}, {}),
   Cmd("ACTA_SetTransferableIdCounter", \h411, 1, 0, {1}, {}),
   Cmd("ACTA_UpdateMiiData", \h412, 31, 0, 1..31, {}),
   Cmd("ACTA_UpdateMiiImage", \h413, 3, 2, 1..5, {Buf(4)}),
   Cmd("ACTA_InquireAccountIdAvailability", \h414, 6, 2, 1..8, {Share(7, 1)}),
   Cmd("ACTA_BindToNewServerAccount", \h415, 59, 4, 1..63, {Share(60, 1), Buf(62)})}

ActServerBinding ==
  {Cmd("ACTA_BindToExistentServerAccount", \h416, 11, 4, 1..15, {Share(12, 1), Buf(14)}),
   Cmd("ACTA_InquireBindingToExistentServerAccount", \h417, 11, 4, 1..15, {Share(12, 1), Buf(14)}),
   Cmd("ACTA_DeleteServerAccount", \h418, 1, 2, 1..3, {Share(2, 1)}),
   Cmd("ACTA_AcquireAccountTokenEx", \h41A, 7, 2, 1..9, {Share(8, 1)}),
   Cmd("ACTA_AgreeEula", \h41B, 5, 2, 1..7, {Share(6, 1)}),
   Cmd("ACTA_SyncAccountInfo", \h41C, 1, 2, 1..3, {Share(2, 1)}),
   Cmd("ACTA_InvalidateAccountToken", \h41D, 2, 0, 1..2, {}),
   Cmd("ACTA_UpdateAccountPassword", \h41E, 6, 2, 1..8, {Share(7, 1)}),
   Cmd("ACTA_ReissueAccountPassword", \h41F, 1, 2, 1..3, {Share(2, 1)})}

ActPasswordInput ==
  {Cmd("ACTA_SetAccountPasswordInput", \h420, 6, 0, 1..6, {}),
   Cmd("ACTA_UploadMii", \h421, 1, 2, 1..3, {Share(2, 1)}),
   Cmd("ACTA_InactivateDeviceAssociation", \h422, 1, 2, 1..3, {Share(2, 1)}),
   Cmd("ACTA_ValidateMailAddress", \h423, 2, 2, 1..4, {Share(3, 1)}),
   Cmd("ACTA_SendPostingApprovalMail", \h424, 1, 4, 1..5, {Share(2, 1), Buf(4)}),
   Cmd("ACTA_SendConfirmationMail", \h425, 1, 2, 1..3, {Share(2, 1)}),
   Cmd("ACTA_SendConfirmationMailForPin", \h426, 1, 4, 1..5, {Share(2, 1), Buf(4)}),
   Cmd("ACTA_SendMasterKeyMailForPin", \h427, 2, 4, 1..6, {Share(3, 1), Buf(5)}),
   Cmd("ACTA_ApproveByCreditCard", \h428, 1, 4, 1..5, {Share(2, 1), Stat(4)})}

ActMailAndCards ==
  {Cmd("ACTA_SendCoppaCodeMail", \h429, 2, 2, 1..4, {Share(3, 1)}),
   Cmd("ACTA_SetIsMiiUpdated", \h42A, 2, 0, 1..2, {}),
   Cmd("ACTA_ReserveTransfer", \h42B, 7, 4, 1..11, {Share(8, 1), Buf(10)}),
   Cmd("ACTA_CompleteTransfer", \h42C, 1, 2, 1..3, {Share(2, 1)}),
   Cmd("ACTA_InactivateAccountDeviceAssociation", \h42D, 1, 2, 1..3, {Share(2, 1)}),
   Cmd("ACTA_SetNetworkTime", \h42E, 2, 0, 1..2, {}),
   Cmd("ACTA_UpdateAccountInfo", \h42F, 2, 4, 1..6, {Share(3, 1), Buf(5)}),
   Cmd("ACTA_UpdateAccountMailAddress", \h430, 1, 4, 1..5, {Share(2, 1), Buf(4)}),
   Cmd("ACTA_DeleteDeviceAssociation", \h431, 1, 2, 1..3, {Share(2, 1)})}

ActServerDeletion ==
  {Cmd("ACTA_DeleteAccountDeviceAssociation", \h432, 1, 2, 1..3, {Share(2, 1)}),
   Cmd("ACTA_CancelTransfer", \h433, 1, 2, 1..3, {Share(2, 1)}),
   Cmd("ACTA_ReloadAndBlockSaveData", \h434, 0, 3, 1..3, {Share(1, 2)}),
   Cmd("ACTA_ReserveServerAccountDeletion", \h435, 1, 2, 1..3, {Share(2, 1)})}

\* services/frd.c
FrdMyself ==
  {Cmd("FRD_HasLoggedIn", \h1, 0, 0, {}, {}),
   Cmd("FRD_IsOnline", \h2, 0, 0, {}, {}),
   Cmd("FRD_Login", \h3, 0, 2, 1..2, {Share(1, 1)}),
   Cmd("FRD_Logout", \h4, 0, 0, {}, {}),
   Cmd("FRD_GetMyFriendKey", \h5, 0, 0, {}, {}),
   Cmd("FRD_GetMyPreference", \h6, 0, 0, {}, {}),
   Cmd("FRD_GetMyProfile", \h7, 0, 0, {}, {}),
   Into({0}, Cmd("FRD_GetMyPresence", \h8, 0, 0, {}, {})),
   Cmd("FRD_GetMyScreenName", \h9, 0, 0, {}, {}),
   Cmd("FRD_GetMyMii", \hA, 0, 0, {}, {})}

FrdFriendKeys ==
  {Cmd("FRD_GetMyLocalAccountId", \hB, 0, 0, {}, {}),
   Cmd("FRD_GetMyPlayingGame", \hC, 0, 0, {}, {}),
   Cmd("FRD_GetMyFavoriteGame", \hD, 0, 0, {}, {}),
   Cmd("FRD_GetMyNcPrincipalId", \hE, 0, 0, {}, {}),
   Cmd("FRD_GetMyComment", \hF, 0, 0, {}, {}),
   Into({0}, Cmd("FRD_GetMyPassword", \h10, 1, 0, {1}, {})),
   Into({0}, Cmd("FRD_GetFriendKeyList", \h11, 2, 0, 1..2, {}))}

FrdPresence ==
  {Into({0}, Cmd("FRD_GetFriendPresence", \h12, 1, 2, 1..3, {Stat(2)})),
   Into({0}, Cmd("FRD_GetMiiScreenName", \h13, 5, 2, 1..7, {Stat(6)})),
   Cmd("FRD_GetFriendMii", \h14, 1, 4, 1..5, {Stat(2), Buf(4)}),
   Into({0}, Cmd("FRD_GetFriendProfile", \h15, 1, 2, 1..3, {Stat(2)})),
   Into({0}, Cmd("FRD_GetFriendRelationship", \h16, 1, 2, 1..3, {Stat(2)}))}

FrdAttributes ==
  {Into({0}, Cmd("FRD_GetFriendAttributeFlags", \h17, 1, 2, 1..3, {Stat(2)})),
   Cmd("FRD_GetFriendPlayingGame", \h18, 1, 4, 1..5, {Stat(2), Buf(4)}),
   Into({0}, Cmd("FRD_GetFriendFavoriteGame", \h19, 1, 2, 1..3, {Stat(2)})),
   Cmd("FRD_GetFriendInfo", \h1A, 3, 4, 1..7, {Stat(4), Buf(6)}),
   Cmd("FRD_IsInFriendList", \h1B, 2, 0, 1..2, {}),
   Into({0}, Cmd("FRD_UnscrambleLocalFriendCode", \h1C, 1, 2, 1..3, {Stat(2)}))}

FrdGameMode ==
  {Cmd("FRD_UpdateGameModeDescription", \h1D, 0, 2, 1..2, {Stat(1)}),
   Cmd("FRD_UpdateMyPresence", \h1E, 11, 2, 1..13, {Stat(12)}),
   Cmd("FRD_SendInvitation", \h1F, 1, 2, 1..2, {Stat(1)}),
   Cmd("FRD_AttachToEventNotification", \h20, 0, 2, 1..2, {Share(1, 1)}),
   Cmd("FRD_SetNotificationMask", \h21, 1, 0, {1}, {}),
   Into({0}, Cmd("FRD_GetEventNotification", \h22, 1, 0, {1}, {})),
   Cmd("FRD_GetLastResponseResult", \h23, 0, 0, {}, {}),
   Cmd("FRD_PrincipalIdToFriendCode", \h24, 1, 0, {1}, {}),
   Cmd("FRD_FriendCodeToPrincipalId", \h25, 2, 0, 2..3, {})}

FrdValidity ==
  {Cmd("FRD_IsValidFriendCode", \h26, 2, 0, 1..2, {}),
   Cmd("FRD_ResultToErrorCode", \h27, 1, 0, {1}, {}),
   Cmd("FRD_RequestGameAuthentication", \h28, 9, 4, 1..10 \cup 12..13, {Pid(10), Share(12, 1)}),
   Into({0}, Cmd("FRD_GetGameAuthenticationData", \h29, 0, 0, {}, {})),
   Cmd("FRD_RequestServiceLocator", \h2A, 8, 4, 1..9 \cup 11..12, {Pid(9), Share(11, 1)}),
   Into({0}, Cmd("FRD_GetServiceLocatorData", \h2B, 0, 0, {}, {})),
   Cmd("FRD_DetectNatProperties", \h2C, 0, 2, 1..2, {Share(1, 1)}),
   Cmd("FRD_GetNatProperties", \h2D, 0, 0, {}, {})}

FrdApproach ==
  {Cmd("FRD_GetServerTimeDifference", \h2E, 0, 0, {}, {}),
   Cmd("FRD_AllowHalfAwake", \h2F, 1, 0, {1}, {}),
   Cmd("FRD_GetServerTypes", \h30, 0, 0, {}, {}),
   Into({0}, Cmd("FRD_GetFriendComment", \h31, 2, 2, 1..4, {Stat(3)})),
   Cmd("FRD_SetClientSdkVersion", \h32, 1, 2, 1..2, {Pid(2)}),
   Into({0}, Cmd("FRD_GetMyApproachContext", \h33, 0, 0, {}, {})),
   Cmd("FRD_AddFriendWithApproach", \h34, 1, 6, 1..7, {Share(2, 1), Stat(4), Stat(6)})}

FrdaOffline ==
  {Into({0}, Cmd("FRD_DecryptApproachContext", \h35, 2, 2, 1..4, {Stat(3)})),
   Cmd("FRD_GetExtendedNatProperties", \h36, 0, 0, {}, {}),
   Cmd("FRDA_CreateLocalAccount", \h401, 4, 0, 1..4, {}),
   Cmd("FRDA_DeleteLocalAccount", \h402, 1, 0, {1}, {}),
   Cmd("FRDA_LoadLocalAccount", \h403, 1, 0, {1}, {}),
   Cmd("FRDA_UnloadLocalAccount", \h404, 0, 0, {}, {}),
   Cmd("FRDA_Save", \h405, 0, 0, {}, {}),
   Cmd("FRDA_AddFriendOnline", \h406, 1, 2, 1..3, {Share(2, 1)}),
   Cmd("FRDA_AddFriendOffline", \h407, 54, 0, 1..54, {}),
   Cmd("FRDA_UpdateMiiScreenName", \h408, 11, 0, 1..11, {})}

FrdaRemoval ==
  {Cmd("FRDA_RemoveFriend", \h409, 4, 0, 1..3, {}),
   Cmd("FRDA_UpdatePlayingGame", \h40A, 4, 0, 1..4, {}),
   Cmd("FRDA_UpdatePreference", \h40B, 3, 0, 1..3, {}),
   Cmd("FRDA_UpdateMii", \h40C, 32, 0, 1..32, {}),
   Cmd("FRDA_UpdateFavoriteGame", \h40D, 4, 0, 1..4, {}),
   Cmd("FRDA_SetNcPrincipalId", \h40E, 1, 0, {1}, {}),
   Cmd("FRDA_UpdateComment", \h40F, 9, 0, 1..9, {}),
   Cmd("FRDA_IncrementMoveCount", \h410, 0, 0, {}, {})}

\* services/frdn.c
FrdnDaemon ==
  {Cmd("FRDN_GetHandleOfNdmStatusChangedEvent", \h1, 0, 0, {}, {}),
   Cmd("FRDN_Resume", \h2, 0, 0, {}, {}),
   Cmd("FRDN_SuspendAsync", \h3, 0, 0, {1}, {}),
   Cmd("FRDN_QueryStatus", \h4, 0, 0, {}, {})}

\* services/boss.c
BossSessionAndTasks ==
  {Cmd("bossipc_InitializeSession", \h1, 2, 2, 1..3, {Pid(3)}),
   Cmd("bossipc_InitializeSession", \h401, 2, 2, 1..3, {Pid(3)}),
   Cmd("bossSetStorageInfo", \h2, 4, 0, 1..4, {}),
   Cmd("bossUnregisterStorage", \h3, 0, 0, {}, {}),
   Cmd("bossRegisterTask", \hB, 3, 2, 1..5, {Buf(4)}),
   Cmd("bossipc_UnregisterTask", \hC, 2, 2, 1..4, {Buf(3)}),
   Cmd("bossSendProperty", \h14, 2, 2, 1..4, {Buf(3)}),
   Cmd("bossStartTaskImmediate", \h1D, 1, 2, 1..3, {Buf(2)}),
   Cmd("bossipc_CancelTask", \h1E, 1, 2, 1..3, {Buf(2)})}

BossTaskState ==
  {Cmd("bossGetTaskState", \h20, 2, 2, 1..4, {Buf(3)}),
   Cmd("bossDeleteNsData", \h26, 1, 0, {1}, {}),
   Cmd("bossGetNsDataHeaderInfo", \h27, 3, 2, 1..5, {Buf(4)}),
   Cmd("bossReadNsData", \h28, 4, 2, 1..6, {Buf(5)}),
   Cmd("bossStartBgImmediate", \h33, 1, 2, 1..3, {Buf(2)}),
   Cmd("bossGetTaskProperty0", \h34, 1, 2, 1..3, {Buf(2)})}

\* services/news.c
NewsNotifications ==
  {Cmd("NEWS_AddNotification", \h1, 3, 6, 1..9, {Buf(4), Buf(6), Buf(8)}),
   Cmd("NEWS_AddNotification", \h1, 3, 8, 1..11, {Pid(4), Buf(6), Buf(8), Buf(10)}),
   Cmd("NEWS_GetTotalNotifications", \h5, 0, 0, {}, {}),
   Cmd("NEWS_SetNotificationHeader", \h7, 2, 2, 1..4, {Buf(3)}),
   Cmd("NEWS_GetNotificationHeader", \hB, 2, 2, 1..4, {Buf(3)}),
   Cmd("NEWS_SetNotificationMessage", \h8, 2, 2, 1..4, {Buf(3)}),
   Cmd("NEWS_GetNotificationMessage", \hC, 2, 2, 1..4, {Buf(3)}),
   Cmd("NEWS_SetNotificationImage", \h9, 2, 2, 1..4, {Buf(3)}),
   Cmd("NEWS_GetNotificationImage", \hD, 2, 2, 1..4, {Buf(3)})}

\* services/ndm.c
NdmDaemons ==
  {Cmd("NDMU_EnterExclusiveState", \h1, 1, 2, 1..2, {Pid(2)}),
   Cmd("NDMU_LeaveExclusiveState", \h2, 0, 2, {1}, {Pid(1)}),
   Cmd("NDMU_GetExclusiveState", \h3, 0, 0, {}, {}),
   Cmd("NDMU_LockState", \h4, 0, 2, {1}, {Pid(1)}),
   Cmd("NDMU_UnlockState", \h5, 0, 2, {1}, {Pid(1)}),
   Cmd("NDMU_SuspendDaemons", \h6, 1, 0, {1}, {}),
   Cmd("NDMU_ResumeDaemons", \h7, 1, 0, {1}, {}),
   Cmd("NDMU_SuspendScheduler", \h8, 1, 0, {1}, {}),
   Cmd("NDMU_ResumeScheduler", \h9, 0, 0, {}, {}),
   Cmd("NDMU_GetCurrentState", \hA, 0, 0, {}, {}),
   Cmd("NDMU_QueryStatus", \hD, 1, 0, {1}, {})}

NdmIntervals ==
  {Cmd("NDMU_SetScanInterval", \h10, 1, 0, {1}, {}),
   Cmd("NDMU_GetScanInterval", \h11, 0, 0, {}, {}),
   Cmd("NDMU_GetRetryInterval", \h13, 0, 0, {}, {}),
   Cmd("NDMU_ResetDaemons", \h15, 0, 0, {}, {}),
   Cmd("NDMU_GetDefaultDaemons", \h16, 0, 0, {}, {}),
   Cmd("NDMU_ClearMacFilter", \h17, 0, 0, {}, {})}

\* services/cfgu.c
CfguInfoAndBlocks ==
  {Cmd("CFGU_SecureInfoGetRegion", \h2, 0, 0, {}, {}),
   Cmd("CFGU_GenHashConsoleUnique", \h3, 1, 0, {1}, {}),
   Cmd("CFGU_GetRegionCanadaUSA", \h4, 0, 0, {}, {}),
   Cmd("CFGU_GetSystemModel", \h5, 0, 0, {}, {}),
   Cmd("CFGU_GetModelNintendo2DS", \h6, 0, 0, {}, {}),
   Cmd("CFGU_GetCountryCodeString", \h9, 1, 0, {1}, {}),
   Cmd("CFGU_GetCountryCodeID", \hA, 1, 0, {1}, {}),
   Cmd("CFGU_IsNFCSupported", \hB, 0, 0, {}, {}),
   Cmd("CFGU_GetConfigInfoBlk2", \h1, 2, 2, 1..4, {Buf(3)}),
   Cmd("CFG_GetConfigInfoBlk4", \h401, 2, 2, 1..4, {Buf(3)})}

CfguSavegame ==
  {Cmd("CFG_GetConfigInfoBlk8", \h801, 2, 2, 1..4, {Buf(3)}),
   Cmd("CFG_SetConfigInfoBlk4", \h402, 2, 2, 1..4, {Buf(3)}),
   Cmd("CFG_SetConfigInfoBlk8", \h802, 2, 2, 1..4, {Buf(3)}),
   Cmd("CFG_UpdateConfigSavegame", \h803, 0, 0, {}, {})}

CfgiSecureInfo ==
  {Cmd("CFGI_RestoreLocalFriendCodeSeed", \h80D, 0, 0, {}, {}),
   Cmd("CFGI_RestoreSecureInfo", \h812, 0, 0, {}, {}),
   Cmd("CFGI_DeleteConfigSavefile", \h805, 0, 0, {}, {}),
   Cmd("CFGI_FormatConfig", \h806, 0, 0, {}, {}),
   Cmd("CFGI_ClearParentalControls", \h40F, 0, 0, {}, {}),
   Cmd("CFGI_VerifySigLocalFriendCodeSeed", \h80E, 0, 0, {}, {}),
   Cmd("CFGI_VerifySigSecureInfo", \h813, 0, 0, {}, {}),
   Cmd("CFGI_SecureInfoGetSerialNumber", \h408, 1, 2, 1..3, {Buf(2)}),
   Cmd("CFGI_GetLocalFriendCodeSeedData", \h404, 1, 2, 1..3, {Buf(2)}),
   Cmd("CFGI_GetLocalFriendCodeSeed", \h405, 0, 0, {}, {}),
   Cmd("CFGI_GetSecureInfoData", \h814, 1, 2, 1..3, {Buf(2)})}

CfgiSignature == {Cmd("CFGI_GetSecureInfoSignature", \h815, 1, 2, 1..3, {Buf(2)})}

AccountsRequests == UNION {ActSession, ActUpdatesAndTokens, ActIndependentTokens,
    ActAccountCommit, ActServerUnbinding, ActHostsAndMii,
    ActServerBinding, ActPasswordInput, ActMailAndCards,
    ActServerDeletion, FrdMyself, FrdFriendKeys, FrdPresence,
    FrdAttributes, FrdGameMode, FrdValidity, FrdApproach, FrdaOffline,
    FrdaRemoval, FrdnDaemon, BossSessionAndTasks, BossTaskState,
    NewsNotifications, NdmDaemons, NdmIntervals, CfguInfoAndBlocks,
    CfguSavegame, CfgiSecureInfo, CfgiSignature}
=============================================================================

-------------------------------- MODULE MCIpc --------------------------------
(***************************************************************************)
(* The requests of all the wrappers, made one after the other in any order *)
(* by one thread.  The wrappers that break a rule are named, rule by rule. *)
(***************************************************************************)
EXTENDS IpcCall, IpcFiles, IpcTitles, IpcAccounts, IpcNetwork, IpcMedia, IpcDevices

MCCalls == UNION {FilesRequests, TitlesRequests, AccountsRequests,
                  NetworkRequests, MediaRequests, DevicesRequests}

(* send words that they do not store, or store only for long enough data *)
MCSendsStale ==
  {"ACTA_SetPersistentIdHead", "CAMU_SetPackageParameterWithoutContext",
   "CAMU_SetPackageParameterWithContext", "CAMU_SetPackageParameterWithContextDetail",
   "FRDA_RemoveFriend", "FRD_FriendCodeToPrincipalId", "FRD_SendInvitation",
   "FSPXI_OpenDirectory", "FSUSER_UpdateSha256Context", "MCUHWC_SetPowerLedState",
   "NIMS_RegisterTask", "NIMS_StartDownload", "NIMS_StartDownloadSimple", "NS_LaunchFIRM",
   "PXIDEV_SPIMultiWriteRead", "Y2RU_SetConversionParams"}

(* store parameters that their header does not send *)
MCLosesWords ==
  {"CAMU_SetSleepCamera", "FRDN_SuspendAsync", "FRD_FriendCodeToPrincipalId",
   "FSPXI_GetNandCid", "FSPXI_GetSdmcCid", "FSPXI_OpenDirectory",
   "MCUHWC_SetWifiLedState", "PMAPP_UnregisterProcess"}

(* have a descriptor elsewhere than their header says, or where the kernel  *)
(* fills in the id of the process                                           *)
MCMisplaces == {"FRD_SendInvitation", "FSPXI_GetNandCid", "FSPXI_GetSdmcCid",
                "FSPXI_OpenDirectory", "NIMS_RegisterSelf"}

(* do not, or not always, put the static-buffer slots back *)
MCKeepsSlots ==
  {"ACU_CreateDefaultConfig", "ACU_GetProxyHost", "ACU_GetProxyPassword",
   "ACU_GetProxyUserName", "ACU_GetSSID", "ACU_SetAllowApType", "ACU_SetNetworkArea",
   "ACU_SetRequestEulaVersion", "AM_GetCiaDependencies", "CAMU_GetLatestVsyncTiming",
   "LOADER_GetProgramInfo"}

(* the last of the camera wrappers: those on whole packages of settings     *)
MCCamuCalls == CamuPackages

(* A parameter that the documentation gives a wrapper reaches the service:  *)
(* the header sends every word stored.  Not so for CAMU_SetSleepCamera.     *)
EveryParameterIsSent == phase = "composed" => fresh \subseteq Sent
==============================================================================

------------------------------ MODULE IpcFiles ------------------------------
(***************************************************************************)
(* The requests made by the wrappers of the file system services: fs:USER, *)
(* PxiFS, fs:REG, the game card NOR and SPI device. One definition per     *)
(* stretch of a source file, one row per request that it composes; IpcWire *)
(* says what a row is.                                                     *)
(***************************************************************************)
EXTENDS IpcWire

\* services/fs.c
FsFiles ==
  {Cmd("FSUSER_Control", \h401, 3, 4, 1..7, {Buf(4), Buf(6)}),
   Cmd("FSUSER_Initialize", \h801, 0, 2, {1}, {Pid(1)}),
   Cmd("FSUSER_OpenFile", \h802, 7, 2, 1..9, {Stat(8)}),
   Cmd("FSUSER_OpenFileDirectly", \h803, 8, 4, 1..12, {Stat(9), Stat(11)}),
   Cmd("FSUSER_DeleteFile", \h804, 5, 2, 1..7, {Stat(6)}),
   Cmd("FSUSER_RenameFile", \h805, 9, 4, 1..13, {Stat(10), Stat(12)}),
   Cmd("FSUSER_DeleteDirectory", \h806, 5, 2, 1..7, {Stat(6)})}

FsDirectories ==
  {Cmd("FSUSER_DeleteDirectoryRecursively", \h807, 5, 2, 1..7, {Stat(6)}),
   Cmd("FSUSER_CreateFile", \h808, 8, 2, 1..10, {Stat(9)}),
   Cmd("FSUSER_CreateDirectory", \h809, 6, 2, 1..8, {Stat(7)}),
   Cmd("FSUSER_RenameDirectory", \h80A, 9, 4, 1..13, {Stat(10), Stat(12)}),
   Cmd("FSUSER_OpenDirectory", \h80B, 4, 2, 1..6, {Stat(5)}),
   Guarded(Cmd("FSUSER_OpenArchive", \h80C, 3, 2, 1..5, {Stat(4)})),
   Cmd("FSUSER_ControlArchive", \h80D, 5, 4, 1..9, {Buf(6), Buf(8)})}

FsArchivesAndCards ==
  {Guarded(Cmd("FSUSER_CloseArchive", \h80E, 2, 0, 1..2, {})),
   Cmd("FSUSER_GetFreeBytes", \h812, 2, 0, 1..2, {}),
   Cmd("FSUSER_GetCardType", \h813, 0, 0, {}, {}),
   Cmd("FSUSER_GetSdmcArchiveResource", \h814, 0, 0, {}, {}),
   Cmd("FSUSER_GetNandArchiveResource", \h815, 0, 0, {}, {}),
   Cmd("FSUSER_GetSdmcFatfsError", \h816, 0, 0, {}, {}),
   Cmd("FSUSER_IsSdmcDetected", \h817, 0, 0, {}, {}),
   Cmd("FSUSER_IsSdmcWritable", \h818, 0, 0, {}, {}),
   Cmd("FSUSER_GetSdmcCid", \h819, 1, 2, 1..3, {Buf(2)}),
   Cmd("FSUSER_GetNandCid", \h81A, 1, 2, 1..3, {Buf(2)})}

FsCardSlot ==
  {Cmd("FSUSER_GetSdmcSpeedInfo", \h81B, 0, 0, {}, {}),
   Cmd("FSUSER_GetNandSpeedInfo", \h81C, 0, 0, {}, {}),
   Cmd("FSUSER_GetSdmcLog", \h81D, 1, 2, 1..3, {Buf(2)}),
   Cmd("FSUSER_GetNandLog", \h81E, 1, 2, 1..3, {Buf(2)}),
   Cmd("FSUSER_ClearSdmcLog", \h81F, 0, 0, {}, {}),
   Cmd("FSUSER_ClearNandLog", \h820, 0, 0, {}, {}),
   Cmd("FSUSER_CardSlotIsInserted", \h821, 0, 0, {}, {}),
   Cmd("FSUSER_CardSlotPowerOn", \h822, 0, 0, {}, {}),
   Cmd("FSUSER_CardSlotPowerOff", \h823, 0, 0, {}, {}),
   Cmd("FSUSER_CardSlotGetCardIFPowerStatus", \h824, 0, 0, {}, {}),
   Cmd("FSUSER_CardNorDirectCommand", \h825, 1, 0, {1}, {})}

FsCardHash ==
  {Cmd("FSUSER_CardNorDirectCommandWithAddress", \h826, 2, 0, 1..2, {}),
   Cmd("FSUSER_CardNorDirectRead", \h827, 2, 2, 1..4, {Buf(3)}),
   Cmd("FSUSER_CardNorDirectReadWithAddress", \h828, 3, 2, 1..5, {Buf(4)}),
   Cmd("FSUSER_CardNorDirectWrite", \h829, 2, 2, 1..4, {Buf(3)}),
   Cmd("FSUSER_CardNorDirectWriteWithAddress", \h82A, 3, 2, 1..5, {Buf(4)}),
   Cmd("FSUSER_CardNorDirectRead_4xIO", \h82B, 3, 2, 1..5, {Buf(4)}),
   Cmd("FSUSER_CardNorDirectCpuWriteWithoutVerify", \h82C, 2, 2, 1..4, {Buf(3)}),
   Cmd("FSUSER_CardNorDirectSectorEraseWithoutVerify", \h82D, 1, 0, {1}, {}),
   Cmd("FSUSER_GetProductInfo", \h82E, 1, 0, {1}, {})}

FsLaunchInfo ==
  {Cmd("FSUSER_GetProgramLaunchInfo", \h82F, 1, 0, {1}, {}),
   Cmd("FSUSER_SetCardSpiBaudRate", \h837, 1, 0, {1}, {}),
   Cmd("FSUSER_SetCardSpiBusMode", \h838, 1, 0, {1}, {}),
   Cmd("FSUSER_SendInitializeInfoTo9", \h839, 0, 0, {}, {}),
   Cmd("FSUSER_GetSpecialContentIndex", \h83A, 4, 0, 1..4, {}),
   Cmd("FSUSER_GetLegacyRomHeader", \h83B, 3, 2, 1..5, {Buf(4)}),
   Cmd("FSUSER_GetLegacyBannerData", \h83C, 3, 2, 1..5, {Buf(4)}),
   Cmd("FSUSER_CheckAuthorityToAccessExtSaveData", \h83D, 4, 0, 1..4, {}),
   Cmd("FSUSER_QueryTotalQuotaSize", \h83E, 3, 2, 1..5, {Buf(4)})}

FsArchiveControl ==
  {Cmd("FSUSER_AbnegateAccessRight", \h840, 1, 0, {1}, {}),
   Cmd("FSUSER_DeleteSdmcRoot", \h841, 0, 0, {}, {}),
   Cmd("FSUSER_DeleteAllExtSaveDataOnNand", \h842, 1, 0, {1}, {}),
   Cmd("FSUSER_InitializeCtrFileSystem", \h843, 0, 0, {}, {}),
   Cmd("FSUSER_CreateSeed", \h844, 0, 0, {}, {}),
   Cmd("FSUSER_GetFormatInfo", \h845, 3, 2, 1..5, {Stat(4)}),
   Cmd("FSUSER_GetLegacyRomHeader2", \h846, 4, 2, 1..6, {Buf(5)}),
   Cmd("FSUSER_GetSdmcCtrRootPath", \h848, 1, 2, 1..3, {Buf(2)}),
   Cmd("FSUSER_GetArchiveResource", \h849, 1, 0, {1}, {}),
   Cmd("FSUSER_ExportIntegrityVerificationSeed", \h84A, 0, 2, 1..2, {Buf(1)})}

FsSeeds ==
  {Cmd("FSUSER_ImportIntegrityVerificationSeed", \h84B, 0, 2, 1..2, {Buf(1)}),
   Cmd("FSUSER_FormatSaveData", \h84C, 9, 2, 1..11, {Stat(10)}),
   Cmd("FSUSER_GetLegacySubBannerData", \h84D, 4, 2, 1..6, {Buf(5)}),
   Guarded(Cmd("FSUSER_UpdateSha256Context", \h84E, 13, 2, 9..15, {Buf(14)})),
   Cmd("FSUSER_ReadSpecialFile", \h84F, 4, 2, 1..6, {Buf(5)}),
   Cmd("FSUSER_GetSpecialFileSize", \h850, 1, 0, {1}, {})}

FsExtSaveData ==
  {Cmd("FSUSER_CreateExtSaveData", \h851, 9, 2, 1..11, {Buf(10)}),
   Cmd("FSUSER_DeleteExtSaveData", \h852, 4, 0, 1..4, {}),
   Cmd("FSUSER_ReadExtSaveDataIcon", \h853, 5, 2, 1..7, {Buf(6)}),
   Cmd("FSUSER_GetExtDataBlockSize", \h854, 4, 0, 1..4, {}),
   Cmd("FSUSER_EnumerateExtSaveData", \h855, 4, 2, 1..6, {Buf(5)}),
   Cmd("FSUSER_CreateSystemSaveData", \h856, 9, 0, 1..9, {}),
   Cmd("FSUSER_DeleteSystemSaveData", \h857, 2, 0, 1..2, {}),
   Cmd("FSUSER_StartDeviceMoveAsSource", \h858, 0, 0, {}, {}),
   Cmd("FSUSER_StartDeviceMoveAsDestination", \h859, 9, 0, 1..9, {})}

FsPriorities ==
  {Cmd("FSUSER_SetArchivePriority", \h85A, 3, 0, 1..3, {}),
   Cmd("FSUSER_GetArchivePriority", \h85B, 2, 0, 1..2, {}),
   Cmd("FSUSER_SetCtrCardLatencyParameter", \h85C, 3, 0, 1..3, {}),
   Cmd("FSUSER_SwitchCleanupInvalidSaveData", \h85F, 1, 0, {1}, {}),
   Cmd("FSUSER_EnumerateSystemSaveData", \h860, 1, 2, 1..3, {Buf(2)}),
   Cmd("FSUSER_InitializeWithSdkVersion", \h861, 1, 2, 1..2, {Pid(2)}),
   Cmd("FSUSER_SetPriority", \h862, 1, 0, {1}, {}),
   Cmd("FSUSER_GetPriority", \h863, 0, 0, {}, {}),
   Cmd("FSUSER_SetSaveDataSecureValue", \h865, 5, 0, 1..5, {})}

FsSecureValues ==
  {Cmd("FSUSER_GetSaveDataSecureValue", \h866, 3, 0, 1..3, {}),
   Cmd("FSUSER_ControlSecureSave", \h867, 3, 4, 1..7, {Buf(4), Buf(6)}),
   Cmd("FSUSER_GetMediaType", \h868, 0, 0, {}, {}),
   Cmd("FSFILE_Control", \h401, 3, 4, 1..7, {Buf(4), Buf(6)}),
   Cmd("FSFILE_OpenSubFile", \h801, 4, 0, 1..4, {}),
   Cmd("FSFILE_Read", \h802, 3, 2, 1..5, {Buf(4)}),
   Cmd("FSFILE_Write", \h803, 4, 2, 1..6, {Buf(5)}),
   Cmd("FSFILE_GetSize", \h804, 0, 0, {}, {})}

FsFileHandles ==
  {Cmd("FSFILE_SetSize", \h805, 2, 0, 1..2, {}),
   Cmd("FSFILE_GetAttributes", \h806, 0, 0, {}, {}),
   Cmd("FSFILE_SetAttributes", \h807, 1, 0, {1}, {}),
   Cmd("FSFILE_Close", \h808, 0, 0, {}, {}),
   Cmd("FSFILE_Flush", \h809, 0, 0, {}, {}),
   Cmd("FSFILE_SetPriority", \h80A, 1, 0, {1}, {}),
   Cmd("FSFILE_GetPriority", \h80B, 0, 0, {}, {}),
   Cmd("FSFILE_OpenLinkFile", \h80C, 0, 0, {}, {}),
   Cmd("FSDIR_Control", \h401, 3, 4, 1..7, {Buf(4), Buf(6)}),
   Cmd("FSDIR_Read", \h801, 1, 2, 1..3, {Buf(2)})}

FsDirHandles ==
  {Cmd("FSDIR_Close", \h802, 0, 0, {}, {}),
   Cmd("FSDIR_SetPriority", \h803, 1, 0, {1}, {}),
   Cmd("FSDIR_GetPriority", \h804, 0, 0, {}, {})}

\* services/fspxi.c
FspxiFiles ==
  {Cmd("FSPXI_OpenFile", \h1, 7, 2, 1..9, {Pxi(8)}),
   Cmd("FSPXI_DeleteFile", \h2, 5, 2, 1..7, {Pxi(6)}),
   Cmd("FSPXI_RenameFile", \h3, 9, 4, 1..13, {Pxi(10), Pxi(12)}),
   Cmd("FSPXI_DeleteDirectory", \h4, 5, 2, 1..7, {Pxi(6)}),
   Cmd("FSPXI_CreateFile", \h5, 8, 2, 1..10, {Pxi(9)}),
   Cmd("FSPXI_CreateDirectory", \h6, 6, 2, 1..8, {Pxi(7)})}

FspxiDirectories ==
  {Cmd("FSPXI_RenameDirectory", \h7, 9, 4, 1..13, {Pxi(10), Pxi(12)}),
   Cmd("FSPXI_OpenDirectory", \h8, 4, 2, 1..5 \cup 8..9, {Pxi(8)}),
   Cmd("FSPXI_ReadFile", \h9, 5, 2, 1..7, {Pxi(6)}),
   Cmd("FSPXI_CalculateFileHashSHA256", \hA, 3, 2, 1..5, {Pxi(4)}),
   Cmd("FSPXI_WriteFile", \hB, 6, 2, 1..8, {Pxi(7)}),
   Cmd("FSPXI_CalcSavegameMAC", \hC, 4, 4, 1..8, {Pxi(5), Pxi(7)}),
   Cmd("FSPXI_GetFileSize", \hD, 2, 0, 1..2, {})}

FspxiFileHandles ==
  {Cmd("FSPXI_SetFileSize", \hE, 4, 0, 1..4, {}),
   Cmd("FSPXI_CloseFile", \hF, 2, 0, 1..2, {}),
   Cmd("FSPXI_ReadDirectory", \h10, 3, 2, 1..5, {Pxi(4)}),
   Cmd("FSPXI_CloseDirectory", \h11, 2, 0, 1..2, {}),
   Guarded(Cmd("FSPXI_OpenArchive", \h12, 3, 2, 1..5, {Pxi(4)})),
   Cmd("FSPXI_HasFile", \h13, 4, 2, 1..6, {Pxi(5)}),
   Cmd("FSPXI_HasDirectory", \h14, 4, 2, 1..6, {Pxi(5)}),
   Cmd("FSPXI_CommitSaveData", \h15, 3, 0, 1..3, {})}

FspxiArchives ==
  {Cmd("FSPXI_CloseArchive", \h16, 2, 0, 1..2, {}),
   Cmd("FSPXI_Unknown0x17", \h17, 2, 0, 1..2, {}),
   Cmd("FSPXI_GetCardType", \h18, 0, 0, {}, {}),
   Cmd("FSPXI_GetSdmcArchiveResource", \h19, 0, 0, {}, {}),
   Cmd("FSPXI_GetNandArchiveResource", \h1A, 0, 0, {}, {}),
   Cmd("FSPXI_GetSdmcFatFsError", \h1B, 0, 0, {}, {}),
   Cmd("FSPXI_IsSdmcDetected", \h1C, 0, 0, {}, {}),
   Cmd("FSPXI_IsSdmcWritable", \h1D, 0, 0, {}, {}),
   Cmd("FSPXI_GetSdmcCid", \h1E, 0, 0, 1..3, {Pxi(2)})}

FspxiCardSlot ==
  {Cmd("FSPXI_GetNandCid", \h1F, 0, 0, 1..3, {Pxi(2)}),
   Cmd("FSPXI_GetSdmcSpeedInfo", \h20, 0, 0, {}, {}),
   Cmd("FSPXI_GetNandSpeedInfo", \h21, 0, 0, {}, {}),
   Cmd("FSPXI_GetSdmcLog", \h22, 1, 2, 1..3, {Pxi(2)}),
   Cmd("FSPXI_GetNandLog", \h23, 1, 2, 1..3, {Pxi(2)}),
   Cmd("FSPXI_ClearSdmcLog", \h24, 0, 0, {}, {}),
   Cmd("FSPXI_ClearNandLog", \h25, 0, 0, {}, {}),
   Cmd("FSPXI_CardSlotIsInserted", \h26, 0, 0, {}, {}),
   Cmd("FSPXI_CardSlotPowerOn", \h27, 0, 0, {}, {}),
   Cmd("FSPXI_CardSlotPowerOff", \h28, 0, 0, {}, {})}

FspxiCardNor ==
  {Cmd("FSPXI_CardSlotGetCardIFPowerStatus", \h29, 0, 0, {}, {}),
   Cmd("FSPXI_CardNorDirectCommand", \h2A, 1, 0, {1}, {}),
   Cmd("FSPXI_CardNorDirectCommandWithAddress", \h2B, 2, 0, 1..2, {}),
   Cmd("FSPXI_CardNorDirectRead", \h2C, 2, 2, 1..4, {Pxi(3)}),
   Cmd("FSPXI_CardNorDirectReadWithAddress", \h2D, 3, 2, 1..5, {Pxi(4)}),
   Cmd("FSPXI_CardNorDirectWrite", \h2E, 2, 2, 1..4, {Pxi(3)}),
   Cmd("FSPXI_CardNorDirectWriteWithAddress", \h2F, 3, 2, 1..5, {Pxi(4)}),
   Cmd("FSPXI_CardNorDirectRead_4xIO", \h30, 3, 2, 1..5, {Pxi(4)}),
   Cmd("FSPXI_CardNorDirectCpuWriteWithoutVerify", \h31, 2, 2, 1..4, {Pxi(3)})}

FspxiLegacyRoms ==
  {Cmd("FSPXI_CardNorDirectSectorEraseWithoutVerify", \h32, 1, 0, {1}, {}),
   Cmd("FSPXI_GetProductInfo", \h33, 2, 0, 1..2, {}),
   Cmd("FSPXI_SetCardSpiBaudrate", \h34, 1, 0, {1}, {}),
   Cmd("FSPXI_SetCardSpiBusMode", \h35, 1, 0, {1}, {}),
   Cmd("FSPXI_SendInitializeInfoTo9", \h36, 1, 0, {1}, {}),
   Cmd("FSPXI_CreateExtSaveData", \h37, 4, 0, 1..4, {}),
   Cmd("FSPXI_DeleteExtSaveData", \h38, 4, 0, 1..4, {}),
   Cmd("FSPXI_EnumerateExtSaveData", \h39, 4, 2, 1..6, {Buf(5)}),
   Cmd("FSPXI_GetSpecialContentIndex", \h3A, 4, 0, 1..4, {}),
   Cmd("FSPXI_GetLegacyRomHeader", \h3B, 3, 2, 1..5, {Pxi(4)})}

FspxiSeeds ==
  {Cmd("FSPXI_GetLegacyBannerData", \h3C, 4, 2, 1..6, {Pxi(5)}),
   Cmd("FSPXI_FormatCardNorDevice", \h3D, 1, 0, {1}, {}),
   Cmd("FSPXI_DeleteSdmcRoot", \h3E, 0, 0, {}, {}),
   Cmd("FSPXI_DeleteAllExtSaveDataOnNand", \h3F, 1, 0, {1}, {}),
   Cmd("FSPXI_InitializeCtrFilesystem", \h40, 0, 0, {}, {}),
   Cmd("FSPXI_CreateSeed", \h41, 0, 0, {}, {}),
   Cmd("FSPXI_GetSdmcCtrRootPath", \h42, 1, 2, 1..3, {Pxi(2)}),
   Cmd("FSPXI_GetArchiveResource", \h43, 1, 0, {1}, {}),
   Cmd("FSPXI_ExportIntegrityVerificationSeed", \h44, 0, 2, 1..2, {Pxi(1)}),
   Cmd("FSPXI_ImportIntegrityVerificationSeed", \h45, 0, 2, 1..2, {Pxi(1)})}

FspxiHashes ==
  {Cmd("FSPXI_GetLegacySubBannerData", \h46, 4, 2, 1..6, {Pxi(5)}),
   Cmd("FSPXI_GenerateRandomBytes", \h47, 1, 2, 1..3, {Pxi(2)}),
   Cmd("FSPXI_GetFileLastModified", \h48, 3, 2, 1..5, {Pxi(4)}),
   Cmd("FSPXI_ReadSpecialFile", \h49, 4, 2, 1..6, {Pxi(5)}),
   Cmd("FSPXI_GetSpecialFileSize", \h4A, 1, 0, {1}, {}),
   Cmd("FSPXI_StartDeviceMoveAsSource", \h4B, 0, 0, {}, {}),
   Cmd("FSPXI_StartDeviceMoveAsDestination", \h4C, 9, 0, 1..9, {}),
   Cmd("FSPXI_ReadFileSHA256", \h4D, 7, 4, 1..11, {Pxi(8), Pxi(10)})}

FspxiSecureHashes ==
  {Cmd("FSPXI_WriteFileSHA256", \h4E, 8, 4, 1..12, {Pxi(9), Pxi(11)}),
   Cmd("FSPXI_SetCtrCardLatencyParameter", \h4F, 2, 0, 1..2, {}),
   Cmd("FSPXI_SetPriority", \h50, 1, 0, {1}, {}),
   Cmd("FSPXI_SwitchCleanupInvalidSaveData", \h51, 1, 0, {1}, {}),
   Cmd("FSPXI_EnumerateSystemSaveData", \h54, 1, 2, 1..3, {Pxi(2)}),
   Cmd("FSPXI_ReadNandReport", \h55, 2, 2, 1..4, {Pxi(3)}),
   Cmd("FSPXI_Unknown0x56", \h56, 4, 2, 1..6, {Pxi(5)})}

\* services/fsreg.c
FsregPrograms ==
  {Cmd("FSREG_Register", \h401, 15, 0, 1..15, {}),
   Cmd("FSREG_Unregister", \h402, 1, 0, {1}, {}),
   Into({0}, Cmd("FSREG_GetProgramInfo", \h403, 3, 0, 1..3, {})),
   Cmd("FSREG_LoadProgram", \h404, 4, 0, 1..4, {}),
   Cmd("FSREG_UnloadProgram", \h405, 2, 0, 1..2, {}),
   Cmd("FSREG_CheckHostLoadId", \h406, 2, 0, 1..2, {})}

\* services/cfgnor.c
CfgnorAccess ==
  {Cmd("CFGNOR_Initialize", \h1, 1, 0, {1}, {}),
   Cmd("CFGNOR_Shutdown", \h2, 0, 0, {}, {}),
   Cmd("CFGNOR_ReadData", \h5, 2, 2, 1..4, {Buf(3)}),
   Cmd("CFGNOR_WriteData", \h6, 2, 2, 1..4, {Buf(3)})}

\* services/pxidev.c
PxidevSpi ==
  {Cmd("PXIDEV_SPIMultiWriteRead", \hD, 26, 8, 3..22 \cup 25..34, {Pxi(27), Pxi(29), Pxi(31), Pxi(33)}),
   Cmd("PXIDEV_SPIWriteRead", \hE, 10, 4, 1..14, {Pxi(11), Pxi(13)})}

FilesRequests == UNION {FsFiles, FsDirectories, FsArchivesAndCards, FsCardSlot, FsCardHash,
    FsLaunchInfo, FsArchiveControl, FsSeeds, FsExtSaveData,
    FsPriorities, FsSecureValues, FsFileHandles, FsDirHandles,
    FspxiFiles, FspxiDirectories, FspxiFileHandles, FspxiArchives,
    FspxiCardSlot, FspxiCardNor, FspxiLegacyRoms, FspxiSeeds,
    FspxiHashes, FspxiSecureHashes, FsregPrograms, CfgnorAccess,
    PxidevSpi}
=============================================================================

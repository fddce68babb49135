------------------------------ MODULE HciApi --------------------------------
(***************************************************************************)
(* The HCI commands as the application calls them (ICallBleAPI.c): the     *)
(* standard ones, those of low energy, and Texas Instruments' extensions.  *)
(* Entries are as in HostApi.  Each is sent as an HCI packet.              *)
(***************************************************************************)
EXTENDS HostApi

hciSendCmd(opCode, matchCSFn) ==
  sendWaitMatchCS("HCI", opCode, "HciExtCmd", <<>>, matchCSFn)

hciSendParamsCmd(opCode, n, matchCSFn) ==
  sendWaitMatchCS("HCI", opCode, "Hci_Params",
    SubSeq(<<"param1", "param2", "param3">>, 1, n), matchCSFn)

hciSendPtrParamsCmd(opCode, n, matchCSFn) ==
  sendWaitMatchCS("HCI", opCode, "Hci_PtrParams",
    SubSeq(<<"pParam1", "pParam2", "pParam3">>, 1, n), matchCSFn)

hciSendParamAndPtrCmd(opCode, matchCSFn) ==
  sendWaitMatchCS("HCI", opCode, "Hci_ParamAndPtr", <<"param", "pParam">>,
    matchCSFn)

----------------------------------------------------------------------------
HciCalls == [
  HCI_ReadRemoteVersionInfoCmd |->
    hciSendParamsCmd("HCI_READ_REMOTE_VERSION_INFO", 1,
    "matchHciReadRemoteVersionInfoCS"),
  HCI_SetEventMaskCmd |-> hciSendPtrParamsCmd("HCI_SET_EVENT_MASK", 1,
    "matchHciSetEventMaskCS"),
  HCI_SetEventMaskPage2Cmd |->
    hciSendPtrParamsCmd("HCI_SET_EVENT_MASK_PAGE_2", 1,
    "matchHciSetEventMaskPage2CS"),
  HCI_ResetCmd |-> hciSendCmd("HCI_RESET", "matchHciResetCS"),
  HCI_ReadTransmitPowerLevelCmd |->
    hciSendParamsCmd("HCI_READ_TRANSMIT_POWER", 2, "matchHciReadTxPwrLvlCS"),
  HCI_ReadLocalVersionInfoCmd |-> hciSendCmd("HCI_READ_LOCAL_VERSION_INFO",
    "matchHciReadLocalVerInfoCS"),
  HCI_ReadLocalSupportedCommandsCmd |->
    hciSendCmd("HCI_READ_LOCAL_SUPPORTED_COMMANDS",
    "matchHciReadLocalSupportedCommandsCS"),
  HCI_ReadLocalSupportedFeaturesCmd |->
    hciSendCmd("HCI_READ_LOCAL_SUPPORTED_FEATURES",
    "matchHciReadLocalSupportedFeaturesCS"),
  HCI_ReadBDADDRCmd |-> hciSendCmd("HCI_READ_BDADDR", "matchHciReadBdAddrCS"),
  HCI_ReadRssiCmd |-> hciSendParamsCmd("HCI_READ_RSSI", 1,
    "matchHciReadRssiCS") ]

HciLeCalls == [
  HCI_LE_SetEventMaskCmd |-> hciSendPtrParamsCmd("HCI_LE_SET_EVENT_MASK", 1,
    "matchHciLeSetEventMaskCS"),
  HCI_LE_ReadLocalSupportedFeaturesCmd |->
    hciSendCmd("HCI_LE_READ_LOCAL_SUPPORTED_FEATURES",
    "matchHciLeReadLocalSupportedFeaturesCS"),
  HCI_LE_ReadAdvChanTxPowerCmd |->
    hciSendCmd("HCI_LE_READ_ADV_CHANNEL_TX_POWER",
    "matchHciLeReadAdvChanTxPowerCS"),
  HCI_LE_ReadWhiteListSizeCmd |-> hciSendCmd("HCI_LE_READ_WHITE_LIST_SIZE",
    "matchHciLeReadWhiteListSizeCS"),
  HCI_LE_ClearWhiteListCmd |-> hciSendCmd("HCI_LE_CLEAR_WHITE_LIST",
    "matchHciLeClearWhiteListCS"),
  HCI_LE_AddWhiteListCmd |-> hciSendParamAndPtrCmd("HCI_LE_ADD_WHITE_LIST",
    "matchHciLeAddWhiteListCS"),
  HCI_LE_RemoveWhiteListCmd |->
    hciSendParamAndPtrCmd("HCI_LE_REMOVE_WHITE_LIST",
    "matchHciLeRemoveWhiteListCS"),
  HCI_LE_SetHostChanClassificationCmd |->
    hciSendPtrParamsCmd("HCI_LE_SET_HOST_CHANNEL_CLASSIFICATION", 1,
    "matchHciLeSetHostChanClassificationCS"),
  HCI_LE_ReadChannelMapCmd |-> hciSendParamsCmd("HCI_LE_READ_CHANNEL_MAP", 1,
    "matchHciLeReadChannelMapCS") ]

HciLeInfoCalls == [
  HCI_LE_ReadRemoteUsedFeaturesCmd |->
    hciSendParamsCmd("HCI_LE_READ_REMOTE_USED_FEATURES", 1,
    "matchHciLeReadRemoteUsedFeaturesCS"),
  HCI_LE_EncryptCmd |-> hciSendPtrParamsCmd("HCI_LE_ENCRYPT", 2,
    "matchHciLeEncryptCS"),
  HCI_LE_ReadSupportedStatesCmd |-> hciSendCmd("HCI_LE_READ_SUPPORTED_STATES",
    "matchHciLeReadSupportedStatesCS"),
  HCI_LE_TransmitterTestCmd |-> sendWaitMatchCS("HCI",
    "HCI_LE_TRANSMITTER_TEST", "HciLe_TxTest", <<"txChan", "dataLen",
    "payloadType">>, "matchHciLeTxTestCS"),
  HCI_LE_ReceiverTestCmd |-> hciSendParamsCmd("HCI_LE_RECEIVER_TEST", 1,
    "matchHciLeRxTestCS"),
  HCI_LE_TestEndCmd |-> hciSendCmd("HCI_LE_TEST_END", "matchHciLeTestEndCS") ]

----------------------------------------------------------------------------
HciExtRadioCalls == [
  HCI_EXT_SetTxPowerCmd |-> hciSendParamsCmd("HCI_EXT_SET_TX_POWER", 1,
    "matchHciExtSetTxPowerCS"),
  HCI_EXT_OnePktPerEvtCmd |-> hciSendParamsCmd("HCI_EXT_ONE_PKT_PER_EVT", 1,
    "matchHciExtOnePktPerEvtCS"),
  HCI_EXT_DecryptCmd |-> hciSendPtrParamsCmd("HCI_EXT_DECRYPT", 2,
    "matchHciExtDecryptCS"),
  HCI_EXT_SetLocalSupportedFeaturesCmd |->
    hciSendPtrParamsCmd("HCI_EXT_SET_LOCAL_SUPPORTED_FEATURES", 1,
    "matchHciExtSetLocalFeatsCS"),
  HCI_EXT_SetFastTxResponseTimeCmd |->
    hciSendParamsCmd("HCI_EXT_SET_FAST_TX_RESP_TIME", 1,
    "matchHciExtSetFastTxRspTimeCS"),
  HCI_EXT_SetSlaveLatencyOverrideCmd |->
    hciSendParamsCmd("HCI_EXT_OVERRIDE_SL", 1, "matchHciExtSetSLOverrideCS"),
  HCI_EXT_ModemTestTxCmd |-> hciSendParamsCmd("HCI_EXT_MODEM_TEST_TX", 2,
    "matchHciExtModemTestTxCS"),
  HCI_EXT_ModemHopTestTxCmd |-> hciSendCmd("HCI_EXT_MODEM_HOP_TEST_TX",
    "matchHciExtModemHopTestTxCS"),
  HCI_EXT_ModemTestRxCmd |-> hciSendParamsCmd("HCI_EXT_MODEM_TEST_RX", 1,
    "matchHciExtModemTestRxCS"),
  HCI_EXT_EndModemTestCmd |-> hciSendCmd("HCI_EXT_END_MODEM_TEST",
    "matchHciExtEndModemTestCS") ]

HciExtDeviceCalls == [
  HCI_EXT_SetBDADDRCmd |-> hciSendPtrParamsCmd("HCI_EXT_SET_BDADDR", 1,
    "matchHciExtSetBdAddrCS"),
  HCI_EXT_SetSCACmd |-> hciSendParamsCmd("HCI_EXT_SET_SCA", 1,
    "matchHciExtSetScaCS"),
  HCI_EXT_EnablePTMCmd |-> hciSendCmd("HCI_EXT_ENABLE_PTM",
    "matchHciExtEnablePTMCS"),
  HCI_EXT_SetMaxDtmTxPowerCmd |->
    hciSendParamsCmd("HCI_EXT_SET_MAX_DTM_TX_POWER", 1,
    "matchHciExtSetMaxDtmTxPwrCS"),
  HCI_EXT_DisconnectImmedCmd |-> hciSendParamsCmd("HCI_EXT_DISCONNECT_IMMED",
    1, "matchHciExtDisconnectImmedCS"),
  HCI_EXT_PacketErrorRateCmd |-> hciSendParamsCmd("HCI_EXT_PER", 2,
    "matchHciExtPacketErrorRateCS"),
  HCI_EXT_PERbyChanCmd |-> hciSendParamAndPtrCmd("HCI_EXT_PER_BY_CHAN",
    "matchHciExtPERByChanCS") ]

HciExtNoticeCalls == [
  HCI_EXT_AdvEventNoticeCmd |-> hciSendParamsCmd("HCI_EXT_ADV_EVENT_NOTICE",
    2, "matchHciExtAdvEventNoticeCS"),
  HCI_EXT_ConnEventNoticeCmd |-> hciSendParamsCmd("HCI_EXT_CONN_EVENT_NOTICE",
    3, "matchHciExtConnEventNoticeCS"),
  HCI_EXT_BuildRevisionCmd |-> hciSendParamsCmd("HCI_EXT_BUILD_REVISION", 2,
    "matchHciExtBuildRevCS"),
  HCI_EXT_DelaySleepCmd |-> hciSendParamsCmd("HCI_EXT_DELAY_SLEEP", 1,
    "matchHciExtDelaySleepCS"),
  HCI_EXT_ResetSystemCmd |-> hciSendParamsCmd("HCI_EXT_RESET_SYSTEM", 1,
    "matchHciExtResetSystemCS"),
  HCI_EXT_NumComplPktsLimitCmd |->
    hciSendParamsCmd("HCI_EXT_NUM_COMPLETED_PKTS_LIMIT", 2,
    "matchHciExtNumComplPktsLimitCS"),
  HCI_EXT_GetConnInfoCmd |->
    hciSendPtrParamsCmd("HCI_EXT_GET_CONNECTION_INFO", 3,
    "matchHciExtGetConnInfoCS") ]

(* Every function of the stack that a task of the application can call.    *)
Api ==
  HostCalls @@ HciCalls @@ HciLeCalls @@ HciLeInfoCalls @@ HciExtRadioCalls
    @@ HciExtDeviceCalls @@ HciExtNoticeCalls
=============================================================================

--------------------------- MODULE StackDispatch ----------------------------
(***************************************************************************)
(* What the stack's task does with a command (bleDispatch.c): the function *)
(* it calls for it, the structure of the message it takes each argument    *)
(* from, whether it sends a status back, and the length of the value in    *)
(* it.  Most commands are compiled in only with some feature of the stack; *)
(* a command that is not there gets the status FAILURE.                    *)
(*                                                                         *)
(* Features are the bits of HOST_CONFIG and CTRL_CONFIG and the symbols of *)
(* the preprocessor; GATT_CLIENT, SERVICE_CHANGED, NPI and ATTRIBUTE_TABLE *)
(* stand for the absence of GATT_NO_CLIENT, GATT_NO_SERVICE_CHANGED,       *)
(* HCI_TL_NONE and GATT_QUAL.                                              *)
(***************************************************************************)
EXTENDS HciApi

(* What the length of an answer may depend on: the parameter asked for.    *)
BondParamLen == [GAPBOND_INITIATE_WAIT |-> 2, GAPBOND_OOB_DATA |-> KEYLEN,
                 GAPBOND_DEFAULT_PASSCODE |-> 4, other |-> 1]

Asked == {"any"} \cup DOMAIN BondParamLen

(* The function, and the fields it gets as arguments.                      *)
Case(proc, view, args) ==
  [proc |-> proc, view |-> view, args |-> args, len |-> [id \in Asked |-> 0],
   case |-> {}, body |-> {}, status |-> TRUE, checked |-> FALSE]

(* #if around the case: one of the features is there.                      *)
When(features, c) == [c EXCEPT !.case = features]

(* #if around the call only: without it the command is refused.            *)
Inside(features, c) == [c EXCEPT !.body = features]

(* sendCmdStatus is cleared.                                               *)
NoStatus(c) == [c EXCEPT !.status = FALSE]

(* The status carries a value of n bytes.                                  *)
Returning(n, c) == [c EXCEPT !.len = [id \in Asked |-> n]]

(* It carries the bond manager's parameter that is asked for.              *)
ReturningParam(c) == [c EXCEPT !.len = BondParamLen]

(* The dispatcher refuses some values of the arguments: INVALIDPARAMETER.  *)
Checked(c) == [c EXCEPT !.checked = TRUE]

----------------------------------------------------------------------------
(* HCI commands.                                                           *)

HciCase(proc) == Case(proc, "HciExtCmd", <<>>)

HciParamsCase(proc, n) ==
  Case(proc, "Hci_Params", SubSeq(<<"param1", "param2", "param3">>, 1, n))

HciPtrParamsCase(proc, n) ==
  Case(proc, "Hci_PtrParams", SubSeq(<<"pParam1", "pParam2", "pParam3">>, 1, n))

(* Slip: the arguments change places.                                      *)
HciPtrAndParamCase(proc) ==
  Case(proc, "Hci_ParamAndPtr", <<"pParam", "param">>)

HciParamAndPtrCase(proc) ==
  Case(proc, "Hci_ParamAndPtr", <<"param", "pParam">>)

Connectable == {"ADV_CONN_CFG", "INIT_CFG"}
Advertiser == {"ADV_NCONN_CFG", "ADV_CONN_CFG"}

LLStandardCases == [
  HCI_READ_REMOTE_VERSION_INFO |->
    When(Connectable, HciParamsCase("HCI_ReadRemoteVersionInfoCmd", 1)),
  HCI_SET_EVENT_MASK |-> HciPtrParamsCase("HCI_SetEventMaskCmd", 1),
  HCI_SET_EVENT_MASK_PAGE_2 |-> HciPtrParamsCase("HCI_SetEventMaskPage2Cmd", 1),
  HCI_RESET |-> HciCase("HCI_ResetCmd"),
  HCI_READ_TRANSMIT_POWER |->
    When(Connectable, HciParamsCase("HCI_ReadTransmitPowerLevelCmd", 2)),
  HCI_READ_LOCAL_VERSION_INFO |-> HciCase("HCI_ReadLocalVersionInfoCmd"),
  HCI_READ_LOCAL_SUPPORTED_COMMANDS |->
    HciCase("HCI_ReadLocalSupportedCommandsCmd"),
  HCI_READ_LOCAL_SUPPORTED_FEATURES |->
    HciCase("HCI_ReadLocalSupportedFeaturesCmd"),
  HCI_READ_BDADDR |-> HciCase("HCI_ReadBDADDRCmd"),
  HCI_READ_RSSI |-> HciParamsCase("HCI_ReadRssiCmd", 1),
  HCI_LE_SET_EVENT_MASK |-> HciPtrParamsCase("HCI_LE_SetEventMaskCmd", 1),
  HCI_LE_READ_LOCAL_SUPPORTED_FEATURES |->
    HciCase("HCI_LE_ReadLocalSupportedFeaturesCmd"),
  HCI_LE_READ_ADV_CHANNEL_TX_POWER |->
    When(Advertiser, HciCase("HCI_LE_ReadAdvChanTxPowerCmd")),
  HCI_LE_READ_WHITE_LIST_SIZE |-> HciCase("HCI_LE_ReadWhiteListSizeCmd"),
  HCI_LE_CLEAR_WHITE_LIST |-> HciCase("HCI_LE_ClearWhiteListCmd"),
  HCI_LE_ADD_WHITE_LIST |-> HciParamAndPtrCase("HCI_LE_AddWhiteListCmd"),
  HCI_LE_REMOVE_WHITE_LIST |-> HciParamAndPtrCase("HCI_LE_RemoveWhiteListCmd"),
  HCI_LE_SET_HOST_CHANNEL_CLASSIFICATION |->
    When({"INIT_CFG"}, HciPtrParamsCase("HCI_LE_SetHostChanClassificationCmd", 1)),
  HCI_LE_READ_CHANNEL_MAP |->
    When(Connectable, HciParamsCase("HCI_LE_ReadChannelMapCmd", 1)),
  HCI_LE_READ_REMOTE_USED_FEATURES |->
    When(Connectable, HciParamsCase("HCI_LE_ReadRemoteUsedFeaturesCmd", 1)),
  HCI_LE_ENCRYPT |-> HciPtrParamsCase("HCI_LE_EncryptCmd", 2),
  HCI_LE_READ_SUPPORTED_STATES |-> HciCase("HCI_LE_ReadSupportedStatesCmd"),
  HCI_LE_TRANSMITTER_TEST |-> Case("HCI_LE_TransmitterTestCmd", "HciLe_TxTest",
    <<"txChan", "dataLen", "payloadType">>),
  HCI_LE_RECEIVER_TEST |-> HciParamsCase("HCI_LE_ReceiverTestCmd", 1),
  HCI_LE_TEST_END |-> HciCase("HCI_LE_TestEndCmd") ]

LLExtensionCases == [
  HCI_EXT_SET_TX_POWER |-> HciParamsCase("HCI_EXT_SetTxPowerCmd", 1),
  HCI_EXT_ONE_PKT_PER_EVT |->
    When(Connectable, HciParamsCase("HCI_EXT_OnePktPerEvtCmd", 1)),
  HCI_EXT_DECRYPT |-> HciPtrParamsCase("HCI_EXT_DecryptCmd", 2),
  HCI_EXT_SET_LOCAL_SUPPORTED_FEATURES |->
    HciPtrParamsCase("HCI_EXT_SetLocalSupportedFeaturesCmd", 1),
  HCI_EXT_SET_FAST_TX_RESP_TIME |-> When({"ADV_CONN_CFG"},
    HciParamsCase("HCI_EXT_SetFastTxResponseTimeCmd", 1)),
  HCI_EXT_OVERRIDE_SL |-> When({"ADV_CONN_CFG"},
    HciParamsCase("HCI_EXT_SetSlaveLatencyOverrideCmd", 1)),
  HCI_EXT_MODEM_TEST_TX |-> HciParamsCase("HCI_EXT_ModemTestTxCmd", 2),
  HCI_EXT_MODEM_HOP_TEST_TX |-> HciCase("HCI_EXT_ModemHopTestTxCmd"),
  HCI_EXT_MODEM_TEST_RX |-> HciParamsCase("HCI_EXT_ModemTestRxCmd", 1),
  HCI_EXT_END_MODEM_TEST |-> HciCase("HCI_EXT_EndModemTestCmd"),
  HCI_EXT_SET_BDADDR |-> HciPtrParamsCase("HCI_EXT_SetBDADDRCmd", 1),
  HCI_EXT_SET_SCA |-> When(Connectable, HciParamsCase("HCI_EXT_SetSCACmd", 1)),
  HCI_EXT_ENABLE_PTM |-> HciCase("HCI_EXT_EnablePTMCmd"),
  HCI_EXT_SET_MAX_DTM_TX_POWER |->
    HciParamsCase("HCI_EXT_SetMaxDtmTxPowerCmd", 1),
  HCI_EXT_DISCONNECT_IMMED |->
    When(Connectable, HciParamsCase("HCI_EXT_DisconnectImmedCmd", 1)),
  HCI_EXT_PER |->
    When(Connectable, HciParamsCase("HCI_EXT_PacketErrorRateCmd", 2)),
  HCI_EXT_PER_BY_CHAN |->
    When(Connectable, HciParamAndPtrCase("HCI_EXT_PERbyChanCmd")),
  HCI_EXT_ADV_EVENT_NOTICE |->
    When(Advertiser, HciParamsCase("HCI_EXT_AdvEventNoticeCmd", 2)),
  HCI_EXT_CONN_EVENT_NOTICE |->
    When(Connectable, HciParamsCase("HCI_EXT_ConnEventNoticeCmd", 3)),
  HCI_EXT_BUILD_REVISION |-> HciParamsCase("HCI_EXT_BuildRevisionCmd", 2),
  HCI_EXT_DELAY_SLEEP |-> HciParamsCase("HCI_EXT_DelaySleepCmd", 1),
  HCI_EXT_RESET_SYSTEM |-> HciParamsCase("HCI_EXT_ResetSystemCmd", 1),
  HCI_EXT_NUM_COMPLETED_PKTS_LIMIT |->
    When(Connectable, HciParamsCase("HCI_EXT_NumComplPktsLimitCmd", 2)),
  HCI_EXT_GET_CONNECTION_INFO |->
    When(Connectable, HciPtrParamsCase("HCI_EXT_GetConnInfoCmd", 3)) ]

----------------------------------------------------------------------------
(* Utilities, L2CAP, ATT and GATT.  HCI_EXT_UTIL_FORCE_BOOT has no caller. *)

processICallUTIL == [
  HCI_EXT_UTIL_NV_READ |->
    Checked(Case("osal_snv_read", "UtilNvRead", <<"id", "len", "pBuf">>)),
  HCI_EXT_UTIL_NV_WRITE |->
    Checked(Case("osal_snv_write", "UtilNvWrite", <<"id", "len", "pBuf">>)),
  HCI_EXT_UTIL_BUILD_REV |->
    Checked(Case("Util_buildRevision", "UtilBuildRev", <<"pBuildRev">>)),
  HCI_EXT_UTIL_GET_TRNG |->
    Returning(4, Case("Util_GetTRNG", "UtilGetTRNG", <<>>)),
  UTIL_EXT_GATT_GET_NEXT_HANDLE |-> When({"PERIPHERAL_CFG"},
    Returning(2, Case("GATT_GetNextHandle", "GattGetNextHandle", <<>>))) ]

CoCase(proc, view, args) == When({"L2CAP_CO_CHANNELS"}, Case(proc, view, args))

processICallL2CAP == [
  HCI_EXT_L2CAP_DATA |-> CoCase("L2CAP_SendSDU", "L2capSendSDU", <<"pPkt">>),
  HCI_EXT_L2CAP_REGISTER_PSM |->
    CoCase("L2CAP_RegisterPsm", "L2capRegisterPsm", <<"pPsm">>),
  HCI_EXT_L2CAP_DEREGISTER_PSM |->
    CoCase("L2CAP_DeregisterPsm", "L2capDeregisterPsm", <<"taskId", "psm">>),
  HCI_EXT_L2CAP_PSM_INFO |->
    CoCase("L2CAP_PsmInfo", "L2capPsmInfo", <<"psm", "pInfo">>),
  HCI_EXT_L2CAP_PSM_CHANNELS |-> CoCase("L2CAP_PsmChannels", "L2capPsmChannels",
    <<"psm", "numCIDs", "pCIDs">>),
  HCI_EXT_L2CAP_CHANNEL_INFO |->
    CoCase("L2CAP_ChannelInfo", "L2capChannelInfo", <<"CID", "pInfo">>),
  L2CAP_CONNECT_REQ |-> CoCase("L2CAP_ConnectReq", "L2capConnectReq",
    <<"connHandle", "psm", "peerPsm">>),
  L2CAP_CONNECT_RSP |-> CoCase("L2CAP_ConnectRsp", "Ll2capConnectRsp",
    <<"connHandle", "id", "result">>),
  L2CAP_DISCONNECT_REQ |->
    CoCase("L2CAP_DisconnectReq", "L2capDisconnectReq", <<"CID">>),
  L2CAP_FLOW_CTRL_CREDIT |-> CoCase("L2CAP_FlowCtrlCredit",
    "L2capFlowCtrlCredit", <<"CID", "peerCredits">>),
  L2CAP_PARAM_UPDATE_REQ |-> Case("L2CAP_ConnParamUpdateReq",
    "L2capParamUpdateReq", <<"connHandle", "pUpdateReq", "taskId">>) ]

AttCase(proc, n) ==
  Case(proc, "AttParamAndPtr", SubSeq(<<"connHandle", "pMsg">>, 1, n))

processICallATT == [
  ATT_ERROR_RSP |-> AttCase("ATT_ErrorRsp", 2),
  ATT_READ_RSP |-> AttCase("ATT_ReadRsp", 2),
  ATT_READ_BLOB_RSP |-> AttCase("ATT_ReadBlobRsp", 2),
  ATT_WRITE_RSP |-> AttCase("ATT_WriteRsp", 1),
  ATT_EXECUTE_WRITE_RSP |-> AttCase("ATT_ExecuteWriteRsp", 1),
  ATT_HANDLE_VALUE_CFM |->
    When({"GATT_CLIENT"}, AttCase("ATT_HandleValueCfm", 1)) ]

ClientCase(proc, view, args) == When({"GATT_CLIENT"}, Case(proc, view, args))

GattReqCase(proc, n) ==
  ClientCase(proc, "GattReq", SubSeq(<<"connHandle", "pReq", "taskId">>, 1, n))

(* GATT_DiscAllPrimaryServices takes its task from where a GattReq has it; *)
(* the flags of GATT_ReliableWrites are always ATT_WRITE_PREPARED_VALUES.  *)
GattClientCases == [
  ATT_EXCHANGE_MTU_REQ |-> GattReqCase("GATT_ExchangeMTU", 3),
  ATT_READ_BY_GRP_TYPE_REQ |-> ClientCase("GATT_DiscAllPrimaryServices",
    "GattReq", <<"connHandle", "taskId">>),
  ATT_FIND_BY_TYPE_VALUE_REQ |-> ClientCase("GATT_DiscPrimaryServiceByUUID",
    "GattDiscPrimServByUUID", <<"connHandle", "pValue", "len", "taskId">>),
  GATT_FIND_INCLUDED_SERVICES |-> ClientCase("GATT_FindIncludedServices",
    "GattDiscAllChars", <<"connHandle", "startHandle", "endHandle", "taskId">>),
  GATT_DISC_ALL_CHARS |-> ClientCase("GATT_DiscAllChars",
    "GattDiscAllChars", <<"connHandle", "startHandle", "endHandle", "taskId">>),
  ATT_READ_BY_TYPE_REQ |-> GattReqCase("GATT_DiscCharsByUUID", 3),
  ATT_FIND_INFO_REQ |-> GattReqCase("GATT_DiscAllCharDescs", 3),
  ATT_READ_REQ |-> GattReqCase("GATT_ReadCharValue", 3),
  GATT_READ_USING_CHAR_UUID |-> GattReqCase("GATT_ReadUsingCharUUID", 3),
  ATT_READ_BLOB_REQ |-> GattReqCase("GATT_ReadLongCharValue", 3),
  ATT_READ_MULTI_REQ |-> GattReqCase("GATT_ReadMultiCharValues", 3),
  GATT_WRITE_NO_RSP |-> GattReqCase("GATT_WriteNoRsp", 2),
  GATT_SIGNED_WRITE_NO_RSP |-> GattReqCase("GATT_SignedWriteNoRsp", 2),
  ATT_WRITE_REQ |-> GattReqCase("GATT_WriteCharValue", 3),
  ATT_PREPARE_WRITE_REQ |-> GattReqCase("GATT_WriteLongCharValue", 3),
  GATT_WRITE_LONG_CHAR_DESC |-> GattReqCase("GATT_WriteLongCharDesc", 3),
  GATT_RELIABLE_WRITES |-> Checked(ClientCase("GATT_ReliableWrites",
    "GattReliableWrite", <<"connHandle", "pReqs", "numReqs",
    "ATT_WRITE_PREPARED_VALUES", "taskId">>)),
  GATT_READ_CHAR_DESC |-> GattReqCase("GATT_ReadCharDesc", 3),
  GATT_READ_LONG_CHAR_DESC |-> GattReqCase("GATT_ReadLongCharDesc", 3),
  GATT_WRITE_CHAR_DESC |-> GattReqCase("GATT_WriteCharDesc", 3) ]

GattServerCases == [
  ATT_HANDLE_VALUE_NOTI |-> Case("GATT_Notification", "GattInd",
    <<"connHandle", "pIndNoti", "authenticated">>),
  ATT_HANDLE_VALUE_IND |-> Case("GATT_Indication", "GattInd",
    <<"connHandle", "pIndNoti", "authenticated", "taskId">>) ]

----------------------------------------------------------------------------
(* GAP.                                                                    *)

Linked == {"CENTRAL_CFG", "PERIPHERAL_CFG"}
Broadcaster == {"PERIPHERAL_CFG", "BROADCASTER_CFG"}
Observer == {"CENTRAL_CFG", "OBSERVER_CFG"}

GapPtrCase(proc, n) ==
  Case(proc, "GapPtrParams", SubSeq(<<"pParam1", "pParam2">>, 1, n))

GapTaskCase(proc, n) ==
  Case(proc, "GapParamAndPtr", SubSeq(<<"taskID", "pParam">>, 1, n))

GapParamsCase(proc) == Case(proc, "GapParams", <<"connHandle", "param">>)

GapDeviceCases == [
  HCI_EXT_GAP_DEVICE_INIT |-> Case("GAP_DeviceInit", "GapDeviceInit",
    <<"taskID", "profileRole", "maxScanResponses", "pIRK", "pSRK",
      "pSignCounter">>),
  HCI_EXT_GAP_DEVICE_DISC_REQ |->
    When(Observer, GapPtrCase("GAP_DeviceDiscoveryRequest", 1)),
  HCI_EXT_GAP_DEVICE_DISC_CANCEL |->
    When(Observer, GapTaskCase("GAP_DeviceDiscoveryCancel", 1)),
  HCI_EXT_GAP_EST_LINK_REQ |->
    When({"CENTRAL_CFG"}, GapPtrCase("GAP_EstablishLinkReq", 1)),
  HCI_EXT_GAP_MAKE_DISCOVERABLE |->
    When(Broadcaster, GapTaskCase("GAP_MakeDiscoverable", 2)),
  HCI_EXT_GAP_UPDATE_ADV_DATA |-> When(Broadcaster,
    Case("GAP_UpdateAdvertisingData", "GapUpdateAdvParams",
      <<"taskID", "adType", "dataLen", "pAdvertData">>)),
  HCI_EXT_GAP_END_DISC |->
    When(Broadcaster, GapTaskCase("GAP_EndDiscoverable", 1)) ]

GapLinkCases == [
  HCI_EXT_GAP_CONFIG_DEVICE_ADDR |-> When(Linked, Case("GAP_ConfigDeviceAddr",
    "GapConfigDevAddr", <<"addrType", "pStaticAddr">>)),
  HCI_EXT_GAP_TERMINATE_LINK |-> When(Linked, Case("GAP_TerminateLinkReq",
    "GapTerminateLink", <<"taskID", "connHandle", "reason">>)),
  HCI_EXT_GAP_UPDATE_LINK_PARAM_REQ |->
    When(Linked, GapPtrCase("GAP_UpdateLinkParamReq", 1)),
  HCI_EXT_GAP_AUTHENTICATE |-> When(Linked, GapPtrCase("GAP_Authenticate", 2)),
  HCI_EXT_GAP_TERMINATE_AUTH |-> When(Linked, GapParamsCase("GAP_TerminateAuth")),
  HCI_EXT_GAP_BOND |-> When(Linked, Case("GAP_Bond", "GapBond",
    <<"connHandle", "authenticated", "pParams", "startEncryption">>)),
  HCI_EXT_GAP_SIGNABLE |-> When(Linked, Case("GAP_Signable", "GapSignable",
    <<"connHandle", "authenticated", "pParams">>)),
  HCI_EXT_GAP_PASSKEY_UPDATE |-> When(Linked, Case("GAP_PasskeyUpdate",
    "GapPassKeyUpdateParam", <<"pPasskey", "connHandle">>)),
  HCI_EXT_GAP_RESOLVE_PRIVATE_ADDR |->
    When(Linked, GapPtrCase("GAP_ResolvePrivateAddr", 2)) ]

(* GAP_UpdateAdvTokens has no s in the application's name for it.          *)
GapParamCases == [
  HCI_EXT_GAP_SET_PARAM |-> Checked(Case("GAP_SetParamValue", "GapSetParam",
    <<"paramID", "paramValue">>)),
  HCI_EXT_GAP_GET_PARAM |-> Checked(Returning(2,
    Case("GAP_GetParamValue", "GapSetParam", <<"paramID">>))),
  HCI_EXT_GAP_SLAVE_SECURITY_REQ_UPDATE |->
    When({"PERIPHERAL_CFG"}, GapParamsCase("GAP_SendSlaveSecurityRequest")),
  HCI_EXT_GAP_SET_ADV_TOKEN |->
    When(Broadcaster, GapPtrCase("GAP_SetAdvToken", 1)),
  HCI_EXT_GAP_REMOVE_ADV_TOKEN |-> When(Broadcaster, Checked(Returning(4,
    Case("GAP_RemoveAdvToken", "GapRemoveAdvToken", <<"adType">>)))),
  HCI_EXT_GAP_UPDATE_ADV_TOKENS |->
    When(Broadcaster, Case("GAP_UpdateAdvToken", "GapUpdateAdvToken", <<>>)),
  HCI_EXT_GAP_BOND_SET_PARAM |-> Inside({"GAP_BOND_MGR"},
    Case("GAPBondMgr_SetParameter", "ProfileSetParam",
      <<"paramId", "len", "pValue">>)),
  HCI_EXT_GAP_BOND_GET_PARAM |-> Inside({"GAP_BOND_MGR"}, ReturningParam(
    Case("GAPBondMgr_GetParameter", "GapGetParam", <<"paramID">>))),
  HCI_EXT_GAP_BOND_SERVICE_CHANGE |-> When({"SERVICE_CHANGED"},
    Inside({"GAP_BOND_MGR"}, GapParamsCase("GAPBondMgr_ServiceChangeInd"))) ]

----------------------------------------------------------------------------
(* Profiles.                                                               *)

processDispGeneral == [
  DISPATCH_GENERAL_REG_NPI |-> When({"NPI"},
    NoStatus(Case("NPI_RegisterTask", "RegisterTaskMsg", <<"taskID">>))) ]

BondCase(proc, view, args) == Inside({"GAP_BOND_MGR"}, Case(proc, view, args))

processDispGAPProfile == [
  DISPATCH_GAP_REG_FOR_MSG |->
    NoStatus(Case("GAP_RegisterForMsgs", "RegisterTaskMsg", <<"taskID">>)),
  DISPATCH_GAP_LINKDB_STATE |-> When(Linked, Returning(1,
    Case("linkDB_State", "LinkDBState", <<"connHandle", "state">>))),
  DISPATCH_GAP_LINKDB_NUM_CONNS |-> When(Linked, Returning(1,
    Case("linkDB_NumConns", "LinkDBNumConns", <<>>))),
  DISPATCH_PROFILE_REG_CB |->
    NoStatus(BondCase("GAPBondMgr_Register", "BondMgrRegister", <<"pCB">>)),
  DISPATCH_GAP_BOND_PASSCODE_RSP |-> BondCase("GAPBondMgr_PasscodeRsp",
    "BondMgrPasscodeRsp", <<"connHandle", "status", "passcode">>),
  DISPATCH_GAP_BOND_LINK_EST |-> BondCase("GAPBondMgr_LinkEst",
    "BondMgrLinkEst", <<"addrType", "pDevAddr", "connHandle", "role">>),
  DISPATCH_GAP_BOND_LINK_TERM |-> NoStatus(BondCase("GAPBondMgr_LinkTerm",
    "BondMgrLinkTerm", <<"connHandle">>)),
  DISPATCH_GAP_BOND_SLAVE_REQ_SEC |-> When({"CENTRAL_CFG"}, NoStatus(BondCase(
    "GAPBondMgr_SlaveReqSecurity", "BondMgrSlaveReqSec", <<"connHandle">>))),
  DISPATCH_GAP_BOND_RESOLVE_ADDR |-> Returning(1, BondCase(
    "GAPBondMgr_ResolveAddr", "BondMgrResolveAddr",
    <<"addrType", "pDevAddr", "pResolvedAddr">>)) ]

processDispGATTProfile == [
  DISPATCH_GATT_REG_FOR_MSG |->
    NoStatus(Case("GATT_RegisterForMsgs", "RegisterTaskMsg", <<"taskID">>)),
  DISPATCH_GATT_INIT_CLIENT |->
    ClientCase("GATT_InitClient", "GattInitClient", <<>>),
  DISPATCH_GATT_REG_4_IND |-> NoStatus(
    ClientCase("GATT_RegisterForInd", "GattRegisterForInd", <<"taskId">>)),
  DISPATCH_GATT_HTA_FLOW_CTRL |-> NoStatus(Case("GATT_SetHostToAppFlowCtrl",
    "GattHtaFlowCtrl", <<"heapSize", "flowCtrlMode">>)),
  DISPATCH_GATT_APP_COMPL_MSG |->
    NoStatus(Case("GATT_AppCompletedMsg", "GattAppComplMsg", <<"pMsg">>)),
  DISPATCH_GATT_SEND_RSP |->
    Case("GATT_SendRsp", "GattSendRsp", <<"connHandle", "method", "pRsp">>) ]

processDispGGS == [
  DISPATCH_PROFILE_ADD_SERVICE |-> When({"ATTRIBUTE_TABLE"},
    Case("GGS_AddService", "ProfileAddService", <<"services">>)),
  DISPATCH_PROFILE_SET_PARAM |-> Case("GGS_SetParameter", "ProfileSetParam",
    <<"paramId", "len", "pValue">>),
  DISPATCH_PROFILE_GET_PARAM |-> Case("GGS_GetParameter", "ProfileGetParam",
    <<"paramId", "pValue">>) ]

processDispGSA == [
  DISPATCH_GSA_ADD_QUAL_SERVICE |-> When({"GATT_QUAL"},
    Case("GATTQual_AddService", "ProfileAddService", <<"services">>)),
  DISPATCH_PROFILE_ADD_SERVICE |-> When({"ATTRIBUTE_TABLE"},
    Case("GATTServApp_AddService", "ProfileAddService", <<"services">>)),
  DISPATCH_GSA_ADD_TEST_SERVICE |-> When({"GATT_TEST"},
    Case("GATTTest_AddService", "ProfileAddService", <<"services">>)),
  DISPATCH_PROFILE_REG_SERVICE |-> Case("GATTServApp_RegisterService",
    "GSA_RegService", <<"pAttrs", "numAttrs", "encKeySize", "pServiceCBs">>),
  DISPATCH_PROFILE_DEREG_SERVICE |-> Case("GATTServApp_DeregisterService",
    "GSA_DeregService", <<"handle", "p2pAttrs">>),
  DISPATCH_PROFILE_SET_PARAM |-> Case("GATTServApp_SetParameter",
    "ProfileSetParam", <<"paramId", "len", "pValue">>),
  DISPATCH_PROFILE_GET_PARAM |-> Case("GATTServApp_GetParameter",
    "ProfileGetParam", <<"paramId", "pValue">>),
  DISPATCH_GSA_SERVICE_CHANGE_IND |-> When({"SERVICE_CHANGED"},
    Case("GATTServApp_SendServiceChangedInd", "GSA_ServiceChangeInd",
      <<"connHandle", "taskId">>)) ]

----------------------------------------------------------------------------
(* From a command to its case.                                             *)

(* HCI commands, and vendor commands by subgroup.                          *)
processICallMsg == [
  HCI |-> LLStandardCases @@ LLExtensionCases,
  L2CAP |-> processICallL2CAP, ATT |-> processICallATT,
  GATT |-> GattClientCases @@ GattServerCases,
  GAP |-> GapDeviceCases @@ GapLinkCases @@ GapParamCases,
  UTIL |-> processICallUTIL ]

processDispMsg == [
  DISPATCH_GENERAL |-> processDispGeneral,
  DISPATCH_GAP_PROFILE |-> processDispGAPProfile,
  DISPATCH_GATT_PROFILE |-> processDispGATTProfile,
  DISPATCH_GAP_GATT_SERV |-> processDispGGS,
  DISPATCH_GATT_SERV_APP |-> processDispGSA ]

Dispatch == processICallMsg @@ processDispMsg

Has(build, features) == features = {} \/ features \cap build # {}

(* The groups a build has: host groups with HOST_CONFIG, those about links *)
(* in a build that can have links.                                         *)
HostRoles == {"BROADCASTER_CFG", "OBSERVER_CFG", "PERIPHERAL_CFG", "CENTRAL_CFG"}

GroupNeeds(g) ==
  CASE g \in {"HCI", "UTIL", "DISPATCH_GENERAL"} -> {}
    [] g \in {"GAP", "DISPATCH_GAP_PROFILE"} -> HostRoles
    [] OTHER -> Linked

(* The case of f's command in this build: a set of one, or none.           *)
CaseOf(build, f) ==
  LET g == Api[f].op[1]
      c == Api[f].op[2]
  IN { d \in { Dispatch[g][k] : k \in DOMAIN Dispatch[g] \cap {c} } :
         Has(build, GroupNeeds(g)) /\ Has(build, d.case) }

(* The parameter of f whose value the dispatcher takes for an argument of  *)
(* a call; 0 when it takes no parameter's.                                 *)
ParameterRead(f, d, arg) ==
  LET r == { i \in DOMAIN Api[f].fields :
               Api[f].fields[i] \in ReadAs(Api[f].body, d.view, arg) }
  IN IF r = {} THEN 0 ELSE CHOOSE i \in r : TRUE

(* A call of a function: which parameter of the caller's is which argument.*)
Call(proc, args) == <<proc, args>>

Refused == <<"refused">>

(* What the dispatcher may do with a message of f: what it executes,       *)
(* whether it sends a status, and the length of the value in it.  A        *)
(* refusal carries no value a caller looks at.                             *)
Outcomes(build, f) ==
  IF CaseOf(build, f) = {}
  THEN { [did |-> Refused, status |-> TRUE, len |-> 0] }
  ELSE LET d == CHOOSE x \in CaseOf(build, f) : TRUE
           run == Call(d.proc, { <<i, ParameterRead(f, d, d.args[i])>> :
                                   i \in DOMAIN d.args })
           done == IF ~Has(build, d.body) THEN {Refused}
                   ELSE IF d.checked THEN {run, Refused} ELSE {run}
       IN { [did |-> w, status |-> d.status,
              len |-> IF w = Refused THEN 0 ELSE d.len[Api[f].asks]] : w \in done }
=============================================================================

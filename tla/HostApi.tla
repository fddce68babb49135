----------------------------- MODULE HostApi --------------------------------
(***************************************************************************)
(* The functions of the stack's host as the application calls them         *)
(* (ICallBleAPI.c).  Each builds a message and sends it to the stack's     *)
(* task; most then wait for the status the stack sends back.               *)
(*                                                                         *)
(* An entry: the command, <<group, command>>; the structure of the message *)
(* (StackMsg); for each parameter of the function, in order, the field it  *)
(* is put in; the function that recognises the answer, "none" if nobody    *)
(* waits for one; the length of the value the caller takes from the        *)
(* answer; and what it asks for, if the length depends on it: such a       *)
(* function has several entries.  Groups are the subgroups of vendor       *)
(* specific commands ("GAP"), the HCI's own commands, and the profiles of  *)
(* bleDispatch.h ("DISPATCH_"): their numbers do not overlap.              *)
(***************************************************************************)
EXTENDS StackMsg

(* Sent, and not waited for.                                               *)
ICall_sendServiceMsg(group, cmd, body, fields) ==
  [op |-> <<group, cmd>>, body |-> body, fields |-> fields,
   match |-> "none", len |-> 0, asks |-> "any"]

sendWaitMatchCS(group, cmd, body, fields, matchCSFn) ==
  [ICall_sendServiceMsg(group, cmd, body, fields) EXCEPT !.match = matchCSFn]

sendWaitMatchValueCS(group, cmd, body, fields, matchCSFn, len) ==
  [sendWaitMatchCS(group, cmd, body, fields, matchCSFn) EXCEPT !.len = len]

----------------------------------------------------------------------------
(* What the functions have in common.                                      *)

registerTask(subgrp, cmdId) ==
  ICall_sendServiceMsg(subgrp, cmdId, "RegisterTaskMsg", <<"taskID">>)

profileAddService(profileId, serviceId) ==
  sendWaitMatchCS(profileId, serviceId, "ProfileAddService", <<"services">>,
    "matchProfileAddServiceCS")

gattAddService(serviceId) ==
  profileAddService("DISPATCH_GATT_SERV_APP", serviceId)

profileSetParameter(subgrp, matchCSFn) ==
  sendWaitMatchCS(subgrp, "DISPATCH_PROFILE_SET_PARAM", "ProfileSetParam",
    <<"paramId", "len", "pValue">>, matchCSFn)

profileGetParameter(subgrp, matchCSFn) ==
  sendWaitMatchCS(subgrp, "DISPATCH_PROFILE_GET_PARAM", "ProfileGetParam",
    <<"paramId", "pValue">>, matchCSFn)

attSendParamAndPtrCmd(opCode, n, matchCSFn) ==
  sendWaitMatchCS("ATT", opCode, "AttParamAndPtr",
    SubSeq(<<"connHandle", "pMsg">>, 1, n), matchCSFn)

gattRequest(opcode, n) ==
  sendWaitMatchCS("GATT", opcode, "GattReq",
    SubSeq(<<"connHandle", "pReq", "taskId">>, 1, n), "matchGattRequestCS")

gattWriteLong(opcode) ==
  sendWaitMatchCS("GATT", opcode, "GattWriteLong",
    <<"connHandle", "pReq", "taskId">>, "matchGattWriteLongCS")

gattIndNoti(opcode, n) ==
  sendWaitMatchCS("GATT", opcode, "GattInd",
    SubSeq(<<"connHandle", "pIndNoti", "authenticated", "taskId">>, 1, n),
    "matchGattIndNotiCS")

gapSendParamsCmd(cmdId, matchCSFn) ==
  sendWaitMatchCS("GAP", cmdId, "GapParams", <<"connHandle", "param">>,
    matchCSFn)

gapSendPtrParamsCmd(cmdId, n, matchCSFn) ==
  sendWaitMatchCS("GAP", cmdId, "GapPtrParams",
    SubSeq(<<"pParam1", "pParam2">>, 1, n), matchCSFn)

gapSendParamAndPtrCmd(cmdId, n, matchCSFn) ==
  sendWaitMatchCS("GAP", cmdId, "GapParamAndPtr",
    SubSeq(<<"taskID", "pParam">>, 1, n), matchCSFn)

----------------------------------------------------------------------------
(* Profiles.                                                               *)

RegistrationCalls == [
  GAP_RegisterForMsgs |-> registerTask("DISPATCH_GAP_PROFILE",
    "DISPATCH_GAP_REG_FOR_MSG"),
  NPI_RegisterTask |-> registerTask("DISPATCH_GENERAL",
    "DISPATCH_GENERAL_REG_NPI"),
  GAPBondMgr_Register |-> ICall_sendServiceMsg("DISPATCH_GAP_PROFILE",
    "DISPATCH_PROFILE_REG_CB", "BondMgrRegister", <<"pCB">>),
  GAPBondMgr_PasscodeRsp |-> sendWaitMatchCS("DISPATCH_GAP_PROFILE",
    "DISPATCH_GAP_BOND_PASSCODE_RSP", "BondMgrPasscodeRsp", <<"connHandle",
    "status", "passcode">>, "matchGapPasscodeCS"),
  GAPBondMgr_LinkEst |-> sendWaitMatchCS("DISPATCH_GAP_PROFILE",
    "DISPATCH_GAP_BOND_LINK_EST", "BondMgrLinkEst", <<"addrType", "pDevAddr",
    "connHandle", "role">>, "matchGapLinkEstCS"),
  GAPBondMgr_LinkTerm |-> ICall_sendServiceMsg("DISPATCH_GAP_PROFILE",
    "DISPATCH_GAP_BOND_LINK_TERM", "BondMgrLinkTerm", <<"connHandle">>),
  GAPBondMgr_SlaveReqSecurity |-> ICall_sendServiceMsg("DISPATCH_GAP_PROFILE",
    "DISPATCH_GAP_BOND_SLAVE_REQ_SEC", "BondMgrSlaveReqSec", <<"connHandle">>),
  GAPBondMgr_ResolveAddr |-> sendWaitMatchValueCS("DISPATCH_GAP_PROFILE",
    "DISPATCH_GAP_BOND_RESOLVE_ADDR", "BondMgrResolveAddr", <<"addrType",
    "pDevAddr", "pResolvedAddr">>, "matchGapResolveAddrCS", 1) ]

GATTServAppCalls == [
  GATTServApp_AddService |-> gattAddService("DISPATCH_PROFILE_ADD_SERVICE"),
  GATTServApp_RegisterService |-> sendWaitMatchCS("DISPATCH_GATT_SERV_APP",
    "DISPATCH_PROFILE_REG_SERVICE", "GSA_RegService", <<"pAttrs", "numAttrs",
    "encKeySize", "pServiceCBs">>, "matchGSARegisterServiceCS"),
  GATTServApp_DeregisterService |-> sendWaitMatchCS("DISPATCH_GATT_SERV_APP",
    "DISPATCH_PROFILE_DEREG_SERVICE", "GSA_DeregService", <<"handle",
    "p2pAttrs">>, "matchGSADeregisterServiceCS"),
  GATTServApp_SetParameter |-> profileSetParameter("DISPATCH_GATT_SERV_APP",
    "matchGSASetParamCS"),
  GATTServApp_GetParameter |-> profileGetParameter("DISPATCH_GATT_SERV_APP",
    "matchGSAGetParamCS"),
  GATTServApp_SendServiceChangedInd |->
    sendWaitMatchCS("DISPATCH_GATT_SERV_APP",
    "DISPATCH_GSA_SERVICE_CHANGE_IND", "GSA_ServiceChangeInd", <<"connHandle",
    "taskId">>, "matchGSAServiceChangedIndCS"),
  GATTQual_AddService |-> gattAddService("DISPATCH_GSA_ADD_QUAL_SERVICE"),
  GATTTest_AddService |-> gattAddService("DISPATCH_GSA_ADD_TEST_SERVICE") ]

GATTProfileCalls == [
  GATT_RegisterForMsgs |-> registerTask("DISPATCH_GATT_PROFILE",
    "DISPATCH_GATT_REG_FOR_MSG"),
  GATT_InitClient |-> sendWaitMatchCS("DISPATCH_GATT_PROFILE",
    "DISPATCH_GATT_INIT_CLIENT", "GattInitClient", <<>>,
    "matchGattInitClientCS"),
  GATT_RegisterForInd |-> ICall_sendServiceMsg("DISPATCH_GATT_PROFILE",
    "DISPATCH_GATT_REG_4_IND", "GattRegisterForInd", <<"taskId">>),
  GATT_SetHostToAppFlowCtrl |-> ICall_sendServiceMsg("DISPATCH_GATT_PROFILE",
    "DISPATCH_GATT_HTA_FLOW_CTRL", "GattHtaFlowCtrl", <<"heapSize",
    "flowCtrlMode">>),
  GATT_AppCompletedMsg |-> ICall_sendServiceMsg("DISPATCH_GATT_PROFILE",
    "DISPATCH_GATT_APP_COMPL_MSG", "GattAppComplMsg", <<"pMsg">>),
  GATT_SendRsp |-> sendWaitMatchCS("DISPATCH_GATT_PROFILE",
    "DISPATCH_GATT_SEND_RSP", "GattSendRsp", <<"connHandle", "method",
    "pRsp">>, "matchGattSendRspCS") ]

GGSCalls == [
  GGS_AddService |-> profileAddService("DISPATCH_GAP_GATT_SERV",
    "DISPATCH_PROFILE_ADD_SERVICE"),
  GGS_SetParameter |-> profileSetParameter("DISPATCH_GAP_GATT_SERV",
    "matchGGSSetParamCS"),
  GGS_GetParameter |-> profileGetParameter("DISPATCH_GAP_GATT_SERV",
    "matchGGSGetParamCS") ]

----------------------------------------------------------------------------
(* GATT and ATT.  The two handles of GATT_DiscAllCharDescs travel in one   *)
(* structure of the caller's, and count as one parameter.                  *)

GattDiscoveryCalls == [
  GATT_ExchangeMTU |-> gattRequest("ATT_EXCHANGE_MTU_REQ", 3),
  GATT_DiscAllPrimaryServices |-> sendWaitMatchCS("GATT",
    "ATT_READ_BY_GRP_TYPE_REQ", "GattDiscAllPrimaryServ", <<"connHandle",
    "taskId">>, "matchGattDiscAllPrimarySvcCS"),
  GATT_DiscPrimaryServiceByUUID |-> sendWaitMatchCS("GATT",
    "ATT_FIND_BY_TYPE_VALUE_REQ", "GattDiscPrimServByUUID", <<"connHandle",
    "pValue", "len", "taskId">>, "matchGattDiscPrimartSvcCS"),
  GATT_FindIncludedServices |-> sendWaitMatchCS("GATT",
    "GATT_FIND_INCLUDED_SERVICES", "GattDiscAllChars", <<"connHandle",
    "startHandle", "endHandle", "taskId">>, "matchGattFindIncludedSvcCS"),
  GATT_DiscAllChars |-> sendWaitMatchCS("GATT", "GATT_DISC_ALL_CHARS",
    "GattDiscAllChars", <<"connHandle", "startHandle", "endHandle",
    "taskId">>, "matchGattDiscAllCharsCS"),
  GATT_DiscCharsByUUID |-> gattRequest("ATT_READ_BY_TYPE_REQ", 3) ]

GattReadCalls == [
  GATT_DiscAllCharDescs |-> gattRequest("ATT_FIND_INFO_REQ", 3),
  GATT_ReadCharValue |-> gattRequest("ATT_READ_REQ", 3),
  GATT_ReadUsingCharUUID |-> gattRequest("GATT_READ_USING_CHAR_UUID", 3),
  GATT_ReadLongCharValue |-> gattRequest("ATT_READ_BLOB_REQ", 3),
  GATT_ReadMultiCharValues |-> gattRequest("ATT_READ_MULTI_REQ", 3) ]

GattWriteCalls == [
  GATT_WriteNoRsp |-> gattRequest("GATT_WRITE_NO_RSP", 2),
  GATT_SignedWriteNoRsp |-> gattRequest("GATT_WRITE_NO_RSP", 2),
  GATT_WriteCharValue |-> gattRequest("ATT_WRITE_REQ", 3),
  GATT_WriteLongCharValue |-> gattWriteLong("ATT_PREPARE_WRITE_REQ"),
  GATT_WriteLongCharDesc |-> gattWriteLong("GATT_WRITE_LONG_CHAR_DESC"),
  GATT_ReliableWrites |-> sendWaitMatchCS("GATT", "GATT_RELIABLE_WRITES",
    "GattReliableWrite", <<"connHandle", "pReqs", "numReqs", "flags",
    "taskId">>, "matchGattReliableWritesCS"),
  GATT_ReadCharDesc |-> gattRequest("GATT_READ_CHAR_DESC", 3),
  GATT_ReadLongCharDesc |-> gattRequest("GATT_READ_LONG_CHAR_DESC", 3),
  GATT_WriteCharDesc |-> gattRequest("GATT_WRITE_CHAR_DESC", 3) ]

GattServerCalls == [
  GATT_Notification |-> gattIndNoti("ATT_HANDLE_VALUE_NOTI", 3),
  GATT_GetNextHandle |-> sendWaitMatchValueCS("UTIL",
    "UTIL_EXT_GATT_GET_NEXT_HANDLE", "GattGetNextHandle", <<>>,
    "matchGattGetNexthandleCS", 2),
  GATT_Indication |-> gattIndNoti("ATT_HANDLE_VALUE_IND", 4) ]

AttCalls == [
  ATT_ErrorRsp |-> attSendParamAndPtrCmd("ATT_ERROR_RSP", 2,
    "matchAttErrorRspCS"),
  ATT_ReadRsp |-> attSendParamAndPtrCmd("ATT_READ_RSP", 2, "matchAttReadRspCS"),
  ATT_ReadBlobRsp |-> attSendParamAndPtrCmd("ATT_READ_BLOB_RSP", 2,
    "matchAttReadBlobRspCS"),
  ATT_WriteRsp |-> attSendParamAndPtrCmd("ATT_WRITE_RSP", 1,
    "matchAttWriteRspCS"),
  ATT_ExecuteWriteRsp |-> attSendParamAndPtrCmd("ATT_EXECUTE_WRITE_RSP", 1,
    "matchAttExecuteWriteRspCS"),
  ATT_HandleValueCfm |-> attSendParamAndPtrCmd("ATT_HANDLE_VALUE_CFM", 1,
    "matchAttValueHandleCfmCS") ]

----------------------------------------------------------------------------
(* GAP.  The value of GAPBondMgr_GetParameter comes with the answer, which *)
(* the caller copies whatever its length.                                  *)

GapDeviceCalls == [
  GAP_DeviceInit |-> sendWaitMatchCS("GAP", "HCI_EXT_GAP_DEVICE_INIT",
    "GapDeviceInit", <<"taskID", "profileRole", "maxScanResponses", "pIRK",
    "pSRK", "pSignCounter">>, "matchGapDeviceInitCS"),
  GAP_ConfigDeviceAddr |-> sendWaitMatchCS("GAP",
    "HCI_EXT_GAP_CONFIG_DEVICE_ADDR", "GapConfigDevAddr", <<"addrType",
    "pStaticAddr">>, "matchGapConfigDeviceAddrCS"),
  GAP_EstablishLinkReq |-> gapSendPtrParamsCmd("HCI_EXT_GAP_EST_LINK_REQ", 1,
    "matchGapEstablishLinkReqCS"),
  GAP_UpdateLinkParamReq |->
    gapSendPtrParamsCmd("HCI_EXT_GAP_UPDATE_LINK_PARAM_REQ", 1,
    "matchGapUpdateLinkParamReqCS"),
  GAP_TerminateLinkReq |-> sendWaitMatchCS("GAP",
    "HCI_EXT_GAP_TERMINATE_LINK", "GapTerminateLink", <<"taskID",
    "connHandle", "reason">>, "matchGapTerminateLinkReqCS"),
  GAP_DeviceDiscoveryRequest |->
    gapSendPtrParamsCmd("HCI_EXT_GAP_DEVICE_DISC_REQ", 1,
    "matchGapDevDiscReqCS"),
  GAP_DeviceDiscoveryCancel |->
    gapSendParamAndPtrCmd("HCI_EXT_GAP_DEVICE_DISC_CANCEL", 1,
    "matchGapDevDiscCancelCS") ]

GapAdvertisingCalls == [
  GAP_MakeDiscoverable |->
    gapSendParamAndPtrCmd("HCI_EXT_GAP_MAKE_DISCOVERABLE", 2,
    "matchGapMakeDiscoverableCS"),
  GAP_UpdateAdvertisingData |-> sendWaitMatchCS("GAP",
    "HCI_EXT_GAP_UPDATE_ADV_DATA", "GapUpdateAdvParams", <<"taskID", "adType",
    "dataLen", "pAdvertData">>, "matchGapUpdateAdvDataCS"),
  GAP_EndDiscoverable |-> gapSendParamAndPtrCmd("HCI_EXT_GAP_END_DISC", 1,
    "matchGapEndDiscoverableCS"),
  GAP_SetAdvToken |-> gapSendPtrParamsCmd("HCI_EXT_GAP_SET_ADV_TOKEN", 1,
    "matchGapSetAdvTokenCS"),
  GAP_RemoveAdvToken |-> sendWaitMatchValueCS("GAP",
    "HCI_EXT_GAP_REMOVE_ADV_TOKEN", "GapRemoveAdvToken", <<"adType">>,
    "matchGapRemoveAdvTokenCS", 4),
  GAP_UpdateAdvToken |-> sendWaitMatchCS("GAP",
    "HCI_EXT_GAP_UPDATE_ADV_TOKENS", "GapUpdateAdvToken", <<>>,
    "matchGapUpdateAdvTokenCS") ]

GapSecurityCalls == [
  GAP_Authenticate |-> gapSendPtrParamsCmd("HCI_EXT_GAP_AUTHENTICATE", 2,
    "matchGapAuthenticateCS"),
  GAP_TerminateAuth |-> gapSendParamsCmd("HCI_EXT_GAP_TERMINATE_AUTH",
    "matchGapTerminateAuthCS"),
  GAP_Bond |-> sendWaitMatchCS("GAP", "HCI_EXT_GAP_BOND", "GapBond",
    <<"connHandle", "authenticated", "pParams", "startEncryption">>,
    "matchGapBondCS"),
  GAP_Signable |-> sendWaitMatchCS("GAP", "HCI_EXT_GAP_SIGNABLE",
    "GapSignable", <<"connHandle", "authenticated", "pParams">>,
    "matchGapSignableCS"),
  GAP_PasskeyUpdate |-> sendWaitMatchCS("GAP", "HCI_EXT_GAP_PASSKEY_UPDATE",
    "GapPassKeyUpdateParam", <<"pPasskey", "connHandle">>,
    "matchGapPasskeyUpdateCS") ]

GapParamCalls == [
  GAP_SetParamValue |-> sendWaitMatchCS("GAP", "HCI_EXT_GAP_SET_PARAM",
    "GapSetParam", <<"paramID", "paramValue">>, "matchGapSetParamCS"),
  GAP_GetParamValue |-> sendWaitMatchValueCS("GAP", "HCI_EXT_GAP_GET_PARAM",
    "GapGetParam", <<"paramID">>, "matchGapGetParamCS", 2),
  GAP_ResolvePrivateAddr |->
    gapSendPtrParamsCmd("HCI_EXT_GAP_RESOLVE_PRIVATE_ADDR", 2,
    "matchGapResolvePrivateAddrCS"),
  GAP_SendSlaveSecurityRequest |->
    gapSendParamsCmd("HCI_EXT_GAP_SLAVE_SECURITY_REQ_UPDATE",
    "matchGapSlaveSecurityReqCS") ]

BondCalls == [
  linkDB_State |-> sendWaitMatchValueCS("DISPATCH_GAP_PROFILE",
    "DISPATCH_GAP_LINKDB_STATE", "LinkDBState", <<"connHandle", "state">>,
    "matchLinkDBStateCS", 1),
  linkDB_NumConns |-> sendWaitMatchValueCS("DISPATCH_GAP_PROFILE",
    "DISPATCH_GAP_LINKDB_NUM_CONNS", "LinkDBNumConns", <<>>,
    "matchLinkDBNumConnsCS", 1),
  GAPBondMgr_SetParameter |-> sendWaitMatchCS("GAP",
    "HCI_EXT_GAP_BOND_SET_PARAM", "ProfileSetParam", <<"paramId", "len",
    "pValue">>, "matchBondMgrSetParamCS"),
  GAPBondMgr_ServiceChangeInd |->
    gapSendParamsCmd("HCI_EXT_GAP_BOND_SERVICE_CHANGE",
    "matchBondMgrServiceChangeIndCS") ]

(* The caller copies as many bytes as the answer has (ICallBleAPI.c:2568)  *)
(* to a variable of the parameter's type: one byte for most parameters.    *)
KEYLEN == 16

bondGetParameter(id, size) ==
  [sendWaitMatchValueCS("GAP", "HCI_EXT_GAP_BOND_GET_PARAM", "GapGetParam",
     <<"paramID">>, "matchBondMgrGetParamCS", size) EXCEPT !.asks = id]

BondReads == [
  GAPBondMgr_GetParameter |-> bondGetParameter("other", 1),
  GAPBOND_INITIATE_WAIT |-> bondGetParameter("GAPBOND_INITIATE_WAIT", 2),
  GAPBOND_OOB_DATA |-> bondGetParameter("GAPBOND_OOB_DATA", KEYLEN),
  GAPBOND_DEFAULT_PASSCODE |-> bondGetParameter("GAPBOND_DEFAULT_PASSCODE", 4) ]

----------------------------------------------------------------------------
(* L2CAP and utilities.                                                    *)

L2capParamCalls == [
  L2CAP_ConnParamUpdateReq |-> sendWaitMatchCS("L2CAP",
    "L2CAP_PARAM_UPDATE_REQ", "L2capParamUpdateReq", <<"connHandle",
    "pUpdateReq", "taskId">>, "matchL2capParamUpdateCS"),
  L2CAP_RegisterPsm |-> sendWaitMatchCS("L2CAP", "HCI_EXT_L2CAP_REGISTER_PSM",
    "L2capRegisterPsm", <<"pPsm">>, "matchL2capRegisterPsmCS") ]

L2capPsmCalls == [
  L2CAP_DeregisterPsm |-> sendWaitMatchCS("L2CAP",
    "HCI_EXT_L2CAP_DEREGISTER_PSM", "L2capDeregisterPsm", <<"taskId", "psm">>,
    "matchL2capDeregisterPsmCS"),
  L2CAP_PsmInfo |-> sendWaitMatchCS("L2CAP", "HCI_EXT_L2CAP_PSM_INFO",
    "L2capPsmInfo", <<"psm", "pInfo">>, "matchL2capPsmInfoCS"),
  L2CAP_PsmChannels |-> sendWaitMatchCS("L2CAP", "HCI_EXT_L2CAP_PSM_CHANNELS",
    "L2capPsmChannels", <<"psm", "numCIDs", "pCIDs">>,
    "matchL2capPsmChannelsCS"),
  L2CAP_ChannelInfo |-> sendWaitMatchCS("L2CAP", "HCI_EXT_L2CAP_CHANNEL_INFO",
    "L2capChannelInfo", <<"CID", "pInfo">>, "matchL2capChannelInfoCS"),
  L2CAP_SendSDU |-> sendWaitMatchCS("L2CAP", "HCI_EXT_L2CAP_DATA",
    "L2capSendSDU", <<"pPkt">>, "matchL2capSendSDUCS") ]

L2capChannelCalls == [
  L2CAP_ConnectReq |-> sendWaitMatchCS("L2CAP", "L2CAP_CONNECT_REQ",
    "L2capConnectReq", <<"connHandle", "psm", "peerPsm">>,
    "matchL2capConnectReqCS"),
  L2CAP_ConnectRsp |-> sendWaitMatchCS("L2CAP", "L2CAP_CONNECT_RSP",
    "Ll2capConnectRsp", <<"connHandle", "id", "result">>,
    "matchL2capConnectRspCS"),
  L2CAP_DisconnectReq |-> sendWaitMatchCS("L2CAP", "L2CAP_DISCONNECT_REQ",
    "L2capDisconnectReq", <<"CID">>, "matchL2capDisconnectReqCS"),
  L2CAP_FlowCtrlCredit |-> sendWaitMatchCS("L2CAP", "L2CAP_FLOW_CTRL_CREDIT",
    "L2capFlowCtrlCredit", <<"CID", "peerCredits">>, "matchL2capFCCreditCS") ]

UtilCalls == [
  osal_snv_read |-> sendWaitMatchCS("UTIL", "HCI_EXT_UTIL_NV_READ",
    "UtilNvRead", <<"id", "len", "pBuf">>, "matchUtilNvReadCS"),
  osal_snv_write |-> sendWaitMatchCS("UTIL", "HCI_EXT_UTIL_NV_WRITE",
    "UtilNvWrite", <<"id", "len", "pBuf">>, "matchUtilNvWriteCS"),
  Util_buildRevision |-> sendWaitMatchCS("UTIL", "HCI_EXT_UTIL_BUILD_REV",
    "UtilBuildRev", <<"pBuildRev">>, "matchUtilBuildRevCS"),
  Util_GetTRNG |-> sendWaitMatchValueCS("UTIL", "HCI_EXT_UTIL_GET_TRNG",
    "UtilGetTRNG", <<>>, "matchUtilGetTRNGCS", 4) ]

HostCalls ==
  RegistrationCalls @@ GATTServAppCalls @@ GATTProfileCalls @@ GGSCalls
    @@ GattDiscoveryCalls @@ GattReadCalls @@ GattWriteCalls
    @@ GattServerCalls @@ AttCalls @@ GapDeviceCalls @@ GapAdvertisingCalls
    @@ GapSecurityCalls @@ GapParamCalls @@ BondCalls @@ BondReads
    @@ L2capParamCalls @@ L2capPsmCalls @@ L2capChannelCalls @@ UtilCalls
=============================================================================

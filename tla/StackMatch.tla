---------------------------- MODULE StackMatch ------------------------------
(***************************************************************************)
(* How a waiting call recognises its answer (ICallBleAPI.c).  An answer is *)
(* a status event (HCI_EXT_GAP_CMD_STATUS_EVENT) with the command it       *)
(* answers; each function is the set of commands whose status it accepts,  *)
(* and no other event.                                                     *)
(***************************************************************************)
EXTENDS HciApi

Ops == { Api[f].op : f \in DOMAIN Api }

matchProfileCS(subGroup, cmdId) == { <<subGroup, cmdId>> }

matchProfileSetParamCS(profileId) ==
  matchProfileCS(profileId, "DISPATCH_PROFILE_SET_PARAM")

matchProfileGetParamCS(profileId) ==
  matchProfileCS(profileId, "DISPATCH_PROFILE_GET_PARAM")

matchProfileAddServiceCS ==
  {"DISPATCH_GAP_GATT_SERV", "DISPATCH_GATT_SERV_APP"} \X
    {"DISPATCH_PROFILE_ADD_SERVICE", "DISPATCH_GSA_ADD_QUAL_SERVICE",
     "DISPATCH_GSA_ADD_TEST_SERVICE"}

matchGapSetGetParamCS(cmdId) == { <<"GAP", cmdId>> }

matchL2capCmdStatus(cmdId) == { <<"L2CAP", cmdId>> }

(* Any command of the GATT group.                                          *)
matchGattRequestCS == { op \in Ops : op[1] = "GATT" }

matchGattCmdStatus(cmdId) == { <<"GATT", cmdId>> }

matchGattWriteLongCS ==
  matchGattCmdStatus("ATT_PREPARE_WRITE_REQ")
    \cup matchGattCmdStatus("GATT_WRITE_LONG_CHAR_DESC")

matchGattIndNotiCS ==
  matchGattCmdStatus("ATT_HANDLE_VALUE_IND")
    \cup matchGattCmdStatus("ATT_HANDLE_VALUE_NOTI")

matchAttCmdStatus(cmdId) == { <<"ATT", cmdId>> }

matchHciCS(cmdId) == { <<"HCI", cmdId>> }

matchUtilNvCS(cmdId) == { <<"UTIL", cmdId>> }

----------------------------------------------------------------------------
ProfileMatchers == [
  matchGGSSetParamCS |-> matchProfileSetParamCS("DISPATCH_GAP_GATT_SERV"),
  matchGGSGetParamCS |-> matchProfileGetParamCS("DISPATCH_GAP_GATT_SERV"),
  matchGSASetParamCS |-> matchProfileSetParamCS("DISPATCH_GATT_SERV_APP"),
  matchGSAGetParamCS |-> matchProfileGetParamCS("DISPATCH_GATT_SERV_APP"),
  matchProfileAddServiceCS |-> matchProfileAddServiceCS ]

GapDeviceMatchers == [
  matchGapDeviceInitCS |-> matchGapSetGetParamCS("HCI_EXT_GAP_DEVICE_INIT"),
  matchGapConfigDeviceAddrCS |->
    matchGapSetGetParamCS("HCI_EXT_GAP_CONFIG_DEVICE_ADDR"),
  matchGapEstablishLinkReqCS |->
    matchGapSetGetParamCS("HCI_EXT_GAP_EST_LINK_REQ"),
  matchGapUpdateLinkParamReqCS |->
    matchGapSetGetParamCS("HCI_EXT_GAP_UPDATE_LINK_PARAM_REQ"),
  matchGapTerminateLinkReqCS |->
    matchGapSetGetParamCS("HCI_EXT_GAP_TERMINATE_LINK"),
  matchGapDevDiscReqCS |-> matchGapSetGetParamCS("HCI_EXT_GAP_DEVICE_DISC_REQ") ]

GapAdvertisingMatchers == [
  matchGapDevDiscCancelCS |->
    matchGapSetGetParamCS("HCI_EXT_GAP_DEVICE_DISC_CANCEL"),
  matchGapMakeDiscoverableCS |->
    matchGapSetGetParamCS("HCI_EXT_GAP_MAKE_DISCOVERABLE"),
  matchGapUpdateAdvDataCS |->
    matchGapSetGetParamCS("HCI_EXT_GAP_UPDATE_ADV_DATA"),
  matchGapEndDiscoverableCS |-> matchGapSetGetParamCS("HCI_EXT_GAP_END_DISC"),
  matchGapSetAdvTokenCS |-> matchGapSetGetParamCS("HCI_EXT_GAP_SET_ADV_TOKEN"),
  matchGapRemoveAdvTokenCS |->
    matchGapSetGetParamCS("HCI_EXT_GAP_REMOVE_ADV_TOKEN"),
  matchGapUpdateAdvTokenCS |->
    matchGapSetGetParamCS("HCI_EXT_GAP_UPDATE_ADV_TOKENS") ]

GapSecurityMatchers == [
  matchGapAuthenticateCS |-> matchGapSetGetParamCS("HCI_EXT_GAP_AUTHENTICATE"),
  matchGapTerminateAuthCS |->
    matchGapSetGetParamCS("HCI_EXT_GAP_TERMINATE_AUTH"),
  matchGapBondCS |-> matchGapSetGetParamCS("HCI_EXT_GAP_BOND"),
  matchGapSignableCS |-> matchGapSetGetParamCS("HCI_EXT_GAP_SIGNABLE"),
  matchGapPasskeyUpdateCS |->
    matchGapSetGetParamCS("HCI_EXT_GAP_PASSKEY_UPDATE"),
  matchGapSetParamCS |-> matchGapSetGetParamCS("HCI_EXT_GAP_SET_PARAM"),
  matchGapGetParamCS |-> matchGapSetGetParamCS("HCI_EXT_GAP_GET_PARAM"),
  matchGapResolvePrivateAddrCS |->
    matchGapSetGetParamCS("HCI_EXT_GAP_RESOLVE_PRIVATE_ADDR"),
  matchGapSlaveSecurityReqCS |->
    matchGapSetGetParamCS("HCI_EXT_GAP_SLAVE_SECURITY_REQ_UPDATE") ]

BondMatchers == [
  matchLinkDBStateCS |->
    matchProfileCS("DISPATCH_GAP_PROFILE", "DISPATCH_GAP_LINKDB_STATE"),
  matchLinkDBNumConnsCS |->
    matchProfileCS("DISPATCH_GAP_PROFILE", "DISPATCH_GAP_LINKDB_NUM_CONNS"),
  matchBondMgrSetParamCS |->
    matchGapSetGetParamCS("HCI_EXT_GAP_BOND_SET_PARAM"),
  matchBondMgrGetParamCS |->
    matchGapSetGetParamCS("HCI_EXT_GAP_BOND_GET_PARAM"),
  matchBondMgrServiceChangeIndCS |->
    matchGapSetGetParamCS("HCI_EXT_GAP_BOND_SERVICE_CHANGE") ]

L2capPsmMatchers == [
  matchL2capParamUpdateCS |-> matchL2capCmdStatus("L2CAP_PARAM_UPDATE_REQ"),
  matchL2capRegisterPsmCS |-> matchL2capCmdStatus("HCI_EXT_L2CAP_REGISTER_PSM"),
  matchL2capDeregisterPsmCS |->
    matchL2capCmdStatus("HCI_EXT_L2CAP_DEREGISTER_PSM"),
  matchL2capPsmInfoCS |-> matchL2capCmdStatus("HCI_EXT_L2CAP_PSM_INFO"),
  matchL2capPsmChannelsCS |-> matchL2capCmdStatus("HCI_EXT_L2CAP_PSM_CHANNELS"),
  matchL2capChannelInfoCS |-> matchL2capCmdStatus("HCI_EXT_L2CAP_CHANNEL_INFO") ]

L2capChannelMatchers == [
  matchL2capSendSDUCS |-> matchL2capCmdStatus("HCI_EXT_L2CAP_DATA"),
  matchL2capConnectReqCS |-> matchL2capCmdStatus("L2CAP_CONNECT_REQ"),
  matchL2capConnectRspCS |-> matchL2capCmdStatus("L2CAP_CONNECT_RSP"),
  matchL2capDisconnectReqCS |-> matchL2capCmdStatus("L2CAP_DISCONNECT_REQ"),
  matchL2capFCCreditCS |-> matchL2capCmdStatus("L2CAP_FLOW_CTRL_CREDIT") ]

GattMatchers == [
  matchGattRequestCS |-> matchGattRequestCS,
  matchGattDiscAllPrimarySvcCS |->
    matchGattCmdStatus("ATT_READ_BY_GRP_TYPE_REQ"),
  matchGattDiscPrimartSvcCS |->
    matchGattCmdStatus("ATT_FIND_BY_TYPE_VALUE_REQ"),
  matchGattFindIncludedSvcCS |->
    matchGattCmdStatus("GATT_FIND_INCLUDED_SERVICES"),
  matchGattDiscAllCharsCS |-> matchGattCmdStatus("GATT_DISC_ALL_CHARS"),
  matchGattReliableWritesCS |-> matchGattCmdStatus("GATT_RELIABLE_WRITES"),
  matchGattGetNexthandleCS |-> matchUtilNvCS("UTIL_EXT_GATT_GET_NEXT_HANDLE"),
  matchGattWriteLongCS |-> matchGattWriteLongCS,
  matchGattIndNotiCS |-> matchGattIndNotiCS ]

AttMatchers == [
  matchAttErrorRspCS |-> matchAttCmdStatus("ATT_ERROR_RSP"),
  matchAttReadRspCS |-> matchAttCmdStatus("ATT_READ_RSP"),
  matchAttReadBlobRspCS |-> matchAttCmdStatus("ATT_READ_BLOB_RSP"),
  matchAttWriteRspCS |-> matchAttCmdStatus("ATT_WRITE_RSP"),
  matchAttExecuteWriteRspCS |-> matchAttCmdStatus("ATT_EXECUTE_WRITE_RSP"),
  matchAttValueHandleCfmCS |-> matchAttCmdStatus("ATT_HANDLE_VALUE_CFM") ]

ProfileCallMatchers == [
  matchGapPasscodeCS |->
    matchProfileCS("DISPATCH_GAP_PROFILE", "DISPATCH_GAP_BOND_PASSCODE_RSP"),
  matchGapResolveAddrCS |->
    matchProfileCS("DISPATCH_GAP_PROFILE", "DISPATCH_GAP_BOND_RESOLVE_ADDR"),
  matchGapLinkEstCS |->
    matchProfileCS("DISPATCH_GAP_PROFILE", "DISPATCH_GAP_BOND_LINK_EST"),
  matchGattInitClientCS |->
    matchProfileCS("DISPATCH_GATT_PROFILE", "DISPATCH_GATT_INIT_CLIENT"),
  matchGattSendRspCS |->
    matchProfileCS("DISPATCH_GATT_PROFILE", "DISPATCH_GATT_SEND_RSP"),
  matchGSARegisterServiceCS |->
    matchProfileCS("DISPATCH_GATT_SERV_APP", "DISPATCH_PROFILE_REG_SERVICE"),
  matchGSADeregisterServiceCS |->
    matchProfileCS("DISPATCH_GATT_SERV_APP", "DISPATCH_PROFILE_DEREG_SERVICE"),
  matchGSAServiceChangedIndCS |->
    matchProfileCS("DISPATCH_GATT_SERV_APP", "DISPATCH_GSA_SERVICE_CHANGE_IND") ]

HciMatchers == [
  matchHciReadRemoteVersionInfoCS |->
    matchHciCS("HCI_READ_REMOTE_VERSION_INFO"),
  matchHciSetEventMaskCS |-> matchHciCS("HCI_SET_EVENT_MASK"),
  matchHciSetEventMaskPage2CS |-> matchHciCS("HCI_SET_EVENT_MASK_PAGE_2"),
  matchHciResetCS |-> matchHciCS("HCI_RESET"),
  matchHciReadTxPwrLvlCS |-> matchHciCS("HCI_READ_TRANSMIT_POWER"),
  matchHciReadLocalVerInfoCS |-> matchHciCS("HCI_READ_LOCAL_VERSION_INFO"),
  matchHciReadLocalSupportedCommandsCS |->
    matchHciCS("HCI_READ_LOCAL_SUPPORTED_COMMANDS"),
  matchHciReadLocalSupportedFeaturesCS |->
    matchHciCS("HCI_READ_LOCAL_SUPPORTED_FEATURES"),
  matchHciReadBdAddrCS |-> matchHciCS("HCI_READ_BDADDR"),
  matchHciReadRssiCS |-> matchHciCS("HCI_READ_RSSI") ]

HciLeMatchers == [
  matchHciLeSetEventMaskCS |-> matchHciCS("HCI_LE_SET_EVENT_MASK"),
  matchHciLeReadLocalSupportedFeaturesCS |->
    matchHciCS("HCI_LE_READ_LOCAL_SUPPORTED_FEATURES"),
  matchHciLeReadAdvChanTxPowerCS |->
    matchHciCS("HCI_LE_READ_ADV_CHANNEL_TX_POWER"),
  matchHciLeReadWhiteListSizeCS |-> matchHciCS("HCI_LE_READ_WHITE_LIST_SIZE"),
  matchHciLeClearWhiteListCS |-> matchHciCS("HCI_LE_CLEAR_WHITE_LIST"),
  matchHciLeAddWhiteListCS |-> matchHciCS("HCI_LE_ADD_WHITE_LIST"),
  matchHciLeRemoveWhiteListCS |-> matchHciCS("HCI_LE_REMOVE_WHITE_LIST"),
  matchHciLeSetHostChanClassificationCS |->
    matchHciCS("HCI_LE_SET_HOST_CHANNEL_CLASSIFICATION"),
  matchHciLeReadRemoteUsedFeaturesCS |->
    matchHciCS("HCI_LE_READ_REMOTE_USED_FEATURES") ]

HciLeTestMatchers == [
  matchHciLeReadChannelMapCS |-> matchHciCS("HCI_LE_READ_CHANNEL_MAP"),
  matchHciLeEncryptCS |-> matchHciCS("HCI_LE_ENCRYPT"),
  matchHciLeReadSupportedStatesCS |->
    matchHciCS("HCI_LE_READ_SUPPORTED_STATES"),
  matchHciLeTxTestCS |-> matchHciCS("HCI_LE_TRANSMITTER_TEST"),
  matchHciLeRxTestCS |-> matchHciCS("HCI_LE_RECEIVER_TEST"),
  matchHciLeTestEndCS |-> matchHciCS("HCI_LE_TEST_END") ]

HciExtRadioMatchers == [
  matchHciExtSetTxPowerCS |-> matchHciCS("HCI_EXT_SET_TX_POWER"),
  matchHciExtOnePktPerEvtCS |-> matchHciCS("HCI_EXT_ONE_PKT_PER_EVT"),
  matchHciExtDecryptCS |-> matchHciCS("HCI_EXT_DECRYPT"),
  matchHciExtSetLocalFeatsCS |->
    matchHciCS("HCI_EXT_SET_LOCAL_SUPPORTED_FEATURES"),
  matchHciExtSetFastTxRspTimeCS |-> matchHciCS("HCI_EXT_SET_FAST_TX_RESP_TIME"),
  matchHciExtSetSLOverrideCS |-> matchHciCS("HCI_EXT_OVERRIDE_SL"),
  matchHciExtModemTestTxCS |-> matchHciCS("HCI_EXT_MODEM_TEST_TX"),
  matchHciExtModemHopTestTxCS |-> matchHciCS("HCI_EXT_MODEM_HOP_TEST_TX") ]

HciExtDeviceMatchers == [
  matchHciExtModemTestRxCS |-> matchHciCS("HCI_EXT_MODEM_TEST_RX"),
  matchHciExtEndModemTestCS |-> matchHciCS("HCI_EXT_END_MODEM_TEST"),
  matchHciExtSetBdAddrCS |-> matchHciCS("HCI_EXT_SET_BDADDR"),
  matchHciExtSetScaCS |-> matchHciCS("HCI_EXT_SET_SCA"),
  matchHciExtEnablePTMCS |-> matchHciCS("HCI_EXT_ENABLE_PTM"),
  matchHciExtSetMaxDtmTxPwrCS |-> matchHciCS("HCI_EXT_SET_MAX_DTM_TX_POWER"),
  matchHciExtDisconnectImmedCS |-> matchHciCS("HCI_EXT_DISCONNECT_IMMED"),
  matchHciExtPacketErrorRateCS |-> matchHciCS("HCI_EXT_PER") ]

HciExtNoticeMatchers == [
  matchHciExtPERByChanCS |-> matchHciCS("HCI_EXT_PER_BY_CHAN"),
  matchHciExtAdvEventNoticeCS |-> matchHciCS("HCI_EXT_ADV_EVENT_NOTICE"),
  matchHciExtConnEventNoticeCS |-> matchHciCS("HCI_EXT_CONN_EVENT_NOTICE"),
  matchHciExtBuildRevCS |-> matchHciCS("HCI_EXT_BUILD_REVISION"),
  matchHciExtDelaySleepCS |-> matchHciCS("HCI_EXT_DELAY_SLEEP"),
  matchHciExtResetSystemCS |-> matchHciCS("HCI_EXT_RESET_SYSTEM"),
  matchHciExtNumComplPktsLimitCS |->
    matchHciCS("HCI_EXT_NUM_COMPLETED_PKTS_LIMIT"),
  matchHciExtGetConnInfoCS |-> matchHciCS("HCI_EXT_GET_CONNECTION_INFO") ]

UtilMatchers == [
  matchUtilNvReadCS |-> matchUtilNvCS("HCI_EXT_UTIL_NV_READ"),
  matchUtilNvWriteCS |-> matchUtilNvCS("HCI_EXT_UTIL_NV_WRITE"),
  matchUtilBuildRevCS |-> matchUtilNvCS("HCI_EXT_UTIL_BUILD_REV"),
  matchUtilGetTRNGCS |-> matchUtilNvCS("HCI_EXT_UTIL_GET_TRNG") ]

Matchers ==
  ProfileMatchers @@ GapDeviceMatchers @@ GapAdvertisingMatchers
    @@ GapSecurityMatchers @@ BondMatchers @@ L2capPsmMatchers
    @@ L2capChannelMatchers @@ GattMatchers @@ AttMatchers
    @@ ProfileCallMatchers @@ HciMatchers @@ HciLeMatchers
    @@ HciLeTestMatchers @@ HciExtRadioMatchers @@ HciExtDeviceMatchers
    @@ HciExtNoticeMatchers @@ UtilMatchers

(* The commands whose status ends the wait of a call of f.                 *)
Accepts(f) == IF Api[f].match = "none" THEN {} ELSE Matchers[Api[f].match]
=============================================================================

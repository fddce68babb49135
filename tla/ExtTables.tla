------------------------------ MODULE ExtTables -----------------------------
(***************************************************************************)
(* The commands a host on the serial port gives the stack when it is built *)
(* as a network processor (bleDispatch.c, HCI_TL_FULL): how each handles   *)
(* its parameters, by the shape of its case in the switch.                 *)
(*                                                                         *)
(*   call      one call of the stack                                       *)
(*   exact     one call, if the command has the length it must have        *)
(*   parsed    one call, if the parameters parse                           *)
(*   ranged    one call, if moreover they ask for all handles              *)
(*   payload   they are parsed in a buffer, which the stack keeps if the   *)
(*             call succeeds                                               *)
(*   optional  the same, with no buffer if there is no value               *)
(*   value     the same, but only if the value points into the buffer      *)
(*   param     one call, if the number of the parameter is in range        *)
(*   get       the same, and the value goes with the status in any case    *)
(*   bytes     one call, if the length is right, and what it finds goes    *)
(*             with the status if it succeeds                              *)
(*   list      the same, but it needs memory, and may find nothing         *)
(*   info      bytes go with the status, which is SUCCESS                  *)
(*   bond      one call, and bytes go with the status in any case          *)
(*   own       an action of ExtMsg                                         *)
(***************************************************************************)
(* Reading and writing of flash, and the version of the build.             *)
UtilCommands == {
  <<"UTIL_NV_READ", "bytes">>, <<"UTIL_NV_WRITE", "param">>,
  <<"UTIL_FORCE_BOOT", "own">>, <<"UTIL_BUILD_REV", "info">> }

(* Channels of L2CAP, in builds that have them.                            *)
L2capPsmCommands == {
  <<"L2CAP_DATA", "own">>, <<"L2CAP_REGISTER_PSM", "exact">>,
  <<"L2CAP_DEREGISTER_PSM", "exact">>, <<"L2CAP_PSM_INFO", "bytes">>,
  <<"L2CAP_PSM_CHANNELS", "list">> }

L2capChannelCommands == {
  <<"L2CAP_CHANNEL_INFO", "bytes">>, <<"L2CAP_CONNECT_REQ", "exact">>,
  <<"L2CAP_CONNECT_RSP", "exact">>, <<"L2CAP_DISCONNECT_REQ", "exact">>,
  <<"L2CAP_FLOW_CTRL_CREDIT", "parsed">>,
  <<"L2CAP_PARAM_UPDATE_REQ", "parsed">>, <<"L2CAP_INFO_REQ", "parsed">> }

AttFinds == {
  <<"ATT_ERROR_RSP", "parsed">>,
  <<"ATT_EXCHANGE_MTU_REQ", "parsed">>, <<"ATT_EXCHANGE_MTU_RSP", "parsed">>,
  <<"ATT_FIND_INFO_REQ", "parsed">>, <<"ATT_FIND_INFO_RSP", "payload">>,
  <<"ATT_FIND_BY_TYPE_VALUE_REQ", "ranged">>,
  <<"ATT_FIND_BY_TYPE_VALUE_RSP", "payload">>,
  <<"ATT_READ_BY_TYPE_REQ", "parsed">>, <<"ATT_READ_BY_TYPE_RSP", "payload">> }

AttReads == {
  <<"ATT_READ_REQ", "parsed">>, <<"ATT_READ_RSP", "optional">>,
  <<"ATT_READ_BLOB_REQ", "parsed">>, <<"ATT_READ_BLOB_RSP", "optional">>,
  <<"ATT_READ_MULTI_REQ", "payload">>, <<"ATT_READ_MULTI_RSP", "optional">>,
  <<"ATT_READ_BY_GRP_TYPE_REQ", "ranged">>,
  <<"ATT_READ_BY_GRP_TYPE_RSP", "payload">> }

AttWrites == {
  <<"ATT_WRITE_REQ", "value">>, <<"ATT_WRITE_RSP", "parsed">>,
  <<"ATT_PREPARE_WRITE_REQ", "own">>, <<"ATT_PREPARE_WRITE_RSP", "value">> }

AttExecutes == {
  <<"ATT_EXECUTE_WRITE_REQ", "own">>, <<"ATT_EXECUTE_WRITE_RSP", "parsed">>,
  <<"ATT_HANDLE_VALUE_NOTI", "value">>, <<"ATT_HANDLE_VALUE_IND", "value">>,
  <<"ATT_HANDLE_VALUE_CFM", "parsed">> }

GattFinds == {
  <<"GATT_EXCHANGE_MTU", "parsed">>, <<"GATT_DISC_ALL_PRIMARY_SERVICES", "call">>,
  <<"GATT_DISC_PRIMARY_SERVICE_BY_UUID", "call">>,
  <<"GATT_FIND_INCLUDED_SERVICES", "exact">>, <<"GATT_DISC_ALL_CHARS", "exact">>,
  <<"GATT_DISC_CHARS_BY_UUID", "parsed">>, <<"GATT_DISC_ALL_CHAR_DESCS", "parsed">>,
  <<"GATT_READ_CHAR_VALUE", "parsed">>, <<"GATT_READ_USING_CHAR_UUID", "parsed">>,
  <<"GATT_READ_LONG_CHAR_VALUE", "parsed">> }

GattWrites == {
  <<"GATT_READ_MULTI_CHAR_VALUES", "payload">>,
  <<"GATT_WRITE_NO_RSP", "value">>, <<"GATT_SIGNED_WRITE_NO_RSP", "value">>,
  <<"GATT_WRITE_CHAR_VALUE", "value">>, <<"GATT_WRITE_LONG_CHAR_VALUE", "value">>,
  <<"GATT_WRITE_LONG_CHAR_DESC", "value">> }

GattDescriptors == {
  <<"GATT_READ_CHAR_DESC", "parsed">>, <<"GATT_READ_LONG_CHAR_DESC", "parsed">>,
  <<"GATT_WRITE_CHAR_DESC", "value">>, <<"GATT_NOTIFICATION", "value">>,
  <<"GATT_INDICATION", "value">> }

GapDeviceCommands == {
  <<"GAP_DEVICE_INIT", "call">>, <<"GAP_DEVICE_DISC_REQ", "call">>,
  <<"GAP_DEVICE_DISC_CANCEL", "call">>, <<"GAP_EST_LINK_REQ", "call">>,
  <<"GAP_MAKE_DISCOVERABLE", "call">>, <<"GAP_UPDATE_ADV_DATA", "call">>,
  <<"GAP_END_DISC", "call">>, <<"GAP_CONFIG_DEVICE_ADDR", "call">>,
  <<"GAP_TERMINATE_LINK", "call">>, <<"GAP_UPDATE_LINK_PARAM_REQ", "call">> }

GapSecurityCommands == {
  <<"GAP_AUTHENTICATE", "call">>, <<"GAP_TERMINATE_AUTH", "call">>,
  <<"GAP_BOND", "call">>, <<"GAP_SIGNABLE", "call">>,
  <<"GAP_PASSKEY_UPDATE", "call">>, <<"GAP_RESOLVE_PRIVATE_ADDR", "call">> }

GapParamCommands == {
  <<"GAP_SET_PARAM", "param">>, <<"GAP_GET_PARAM", "get">>,
  <<"GAP_SLAVE_SECURITY_REQ_UPDATE", "call">>, <<"GAP_SET_ADV_TOKEN", "own">>,
  <<"GAP_REMOVE_ADV_TOKEN", "own">>, <<"GAP_UPDATE_ADV_TOKENS", "call">> }

GapBondCommands == {
  <<"GAP_BOND_SET_PARAM", "call">>, <<"GAP_BOND_GET_PARAM", "bond">>,
  <<"GAP_BOND_SERVICE_CHANGE", "call">> }
=============================================================================

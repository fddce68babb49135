----------------------------- MODULE StackMsg -------------------------------
(***************************************************************************)
(* The messages that carry a call from an application task to the stack    *)
(* (ICallBleAPIMSG.h): a header that names the command, and a C structure  *)
(* with the arguments.  The dispatcher reads the arguments through a       *)
(* pointer to a union, and so, maybe, through another structure than the   *)
(* one the caller filled in: what it reads is what lies at that offset.    *)
(***************************************************************************)
EXTENDS Integers, Sequences, TLC

u8(f)  == [name |-> f, size |-> 1]
u16(f) == [name |-> f, size |-> 2]
u32(f) == [name |-> f, size |-> 4]
ptr(f) == [name |-> f, size |-> 4]

----------------------------------------------------------------------------
(* The structures, without their header.                                   *)

GapRequests == [
  GapDeviceInit |-> <<u8("taskID"), u8("profileRole"), u8("maxScanResponses"),
    ptr("pIRK"), ptr("pSRK"), ptr("pSignCounter")>>,
  GapSetParam |-> <<u16("paramID"), u16("paramValue")>>,
  GapGetParam |-> <<u16("paramID")>>,
  ProfileAddService |-> <<u32("services")>>,
  ProfileSetParam |-> <<u16("paramId"), u16("len"), ptr("pValue")>>,
  ProfileGetParam |-> <<u16("paramId"), ptr("pValue")>>,
  LinkDBState |-> <<u16("connHandle"), u8("state")>>,
  LinkDBNumConns |-> <<>> ]

BondRequests == [
  BondMgrRegister |-> <<ptr("pCB")>>,
  BondMgrPasscodeRsp |-> <<u16("connHandle"), u8("status"), u32("passcode")>>,
  BondMgrLinkEst |-> <<u8("addrType"), ptr("pDevAddr"), u16("connHandle"),
    u8("role")>>,
  BondMgrLinkTerm |-> <<u16("connHandle")>>,
  BondMgrSlaveReqSec |-> <<u16("connHandle")>>,
  BondMgrResolveAddr |-> <<u8("addrType"), ptr("pDevAddr"),
    ptr("pResolvedAddr")>>,
  GapBond |-> <<u16("connHandle"), u8("authenticated"), ptr("pParams"),
    u8("startEncryption")>> ]

GapLinkRequests == [
  GapParams |-> <<u16("connHandle"), u8("param")>>,
  GapPtrParams |-> <<ptr("pParam1"), ptr("pParam2")>>,
  GapParamAndPtr |-> <<u8("taskID"), ptr("pParam")>>,
  GapTerminateLink |-> <<u8("taskID"), u16("connHandle"), u8("reason")>>,
  GapConfigDevAddr |-> <<u8("addrType"), ptr("pStaticAddr")>>,
  GapUpdateAdvParams |-> <<u8("taskID"), u8("adType"), u8("dataLen"),
    ptr("pAdvertData")>>,
  GapSignable |-> <<u16("connHandle"), u8("authenticated"), ptr("pParams")>>,
  GapRemoveAdvToken |-> <<u8("adType")>>,
  GapUpdateAdvToken |-> <<>>,
  GapPassKeyUpdateParam |-> <<u16("connHandle"), ptr("pPasskey")>> ]

GattClientRequests == [
  GattReq |-> <<u16("connHandle"), ptr("pReq"), u8("taskId")>>,
  GattDiscAllPrimaryServ |-> <<u16("connHandle"), u8("taskId")>>,
  GattDiscPrimServByUUID |-> <<u16("connHandle"), u8("len"), ptr("pValue"),
    u8("taskId")>>,
  GattDiscAllChars |-> <<u16("connHandle"), u16("startHandle"),
    u16("endHandle"), u8("taskId")>>,
  GattWriteLong |-> <<u16("connHandle"), ptr("pReq"), u8("taskId")>>,
  GattReliableWrite |-> <<u16("connHandle"), u8("flags"), u8("numReqs"),
    ptr("pReqs"), u8("taskId")>> ]

GattServerRequests == [
  GattInd |-> <<u16("connHandle"), ptr("pIndNoti"), u8("authenticated"),
    u8("taskId")>>,
  GattInitClient |-> <<>>,
  GattGetNextHandle |-> <<>>,
  GattRegisterForInd |-> <<u8("taskId")>>,
  GattHtaFlowCtrl |-> <<u16("heapSize"), u8("flowCtrlMode")>>,
  GattAppComplMsg |-> <<ptr("pMsg")>>,
  GattSendRsp |-> <<u16("connHandle"), u8("method"), ptr("pRsp")>>,
  AttParamAndPtr |-> <<u16("connHandle"), ptr("pMsg")>> ]

L2capRequests == [
  L2capParamUpdateReq |-> <<u16("connHandle"), ptr("pUpdateReq"),
    u8("taskId")>>,
  L2capSendSDU |-> <<ptr("pPkt")>>,
  L2capRegisterPsm |-> <<ptr("pPsm")>>,
  L2capDeregisterPsm |-> <<u8("taskId"), u16("psm")>>,
  L2capPsmInfo |-> <<u16("psm"), ptr("pInfo")>>,
  L2capPsmChannels |-> <<u16("psm"), u8("numCIDs"), ptr("pCIDs")>>,
  L2capChannelInfo |-> <<u16("CID"), ptr("pInfo")>>,
  L2capConnectReq |-> <<u16("connHandle"), u16("psm"), u16("peerPsm")>>,
  Ll2capConnectRsp |-> <<u16("connHandle"), u8("id"), u16("result")>>,
  L2capDisconnectReq |-> <<u16("CID")>>,
  L2capFlowCtrlCredit |-> <<u16("CID"), u16("peerCredits")>> ]

ServiceRequests == [
  GSA_RegService |-> <<ptr("pAttrs"), u16("numAttrs"), u8("encKeySize"),
    ptr("pServiceCBs")>>,
  GSA_DeregService |-> <<u16("handle"), ptr("p2pAttrs")>>,
  GSA_ServiceChangeInd |-> <<u16("connHandle"), u8("taskId")>> ]

HciRequests == [
  Hci_Params |-> <<u16("param1"), u16("param2"), u16("param3")>>,
  Hci_PtrParams |-> <<ptr("pParam1"), ptr("pParam2"), ptr("pParam3")>>,
  Hci_ParamAndPtr |-> <<u16("param"), ptr("pParam")>>,
  HciLe_TxTest |-> <<u8("txChan"), u8("dataLen"), u8("payloadType")>> ]

UtilRequests == [
  UtilNvRead |-> <<u8("id"), u8("len"), ptr("pBuf")>>,
  UtilNvWrite |-> <<u8("id"), u8("len"), ptr("pBuf")>>,
  UtilBuildRev |-> <<ptr("pBuildRev")>>,
  UtilGetTRNG |-> <<>>,
  RegisterTaskMsg |-> <<u8("taskID")>> ]

HciExtCmd == [HciExtCmd |-> <<>>]

ICall_CmdMsg ==
  HciExtCmd @@ GapRequests @@ BondRequests @@ GapLinkRequests @@ HciRequests
    @@ GattClientRequests @@ GattServerRequests @@ L2capRequests
    @@ ServiceRequests @@ UtilRequests

----------------------------------------------------------------------------
(* Where a field lies: after the header (event, status, srctaskid, pktType,*)
(* opCode, cmdId), aligned to its size.                                    *)

HeaderSize == 8

Align(n, size) == ((n + size - 1) \div size) * size

Offsets(fields) ==
  LET off[i \in DOMAIN fields] ==
        Align(IF i = 1 THEN HeaderSize ELSE off[i-1] + fields[i-1].size,
              fields[i].size)
  IN off

Offset == [s \in DOMAIN ICall_CmdMsg |-> Offsets(ICall_CmdMsg[s])]

(* The fields of body that lie where view has its field f: one, or none if *)
(* view reads beside them.                                                 *)
ReadAs(body, view, f) ==
  LET B == ICall_CmdMsg[body]
      V == ICall_CmdMsg[view]
  IN { B[i].name : i \in { i \in DOMAIN B : \E j \in DOMAIN V :
         /\ V[j].name = f /\ V[j].size = B[i].size
         /\ Offset[view][j] = Offset[body][i] } }
=============================================================================

---------------------------- MODULE MCStackCall -----------------------------
(* All the functions of the stack but those that do something else than    *)
(* they say; the stack of the product, and one with every feature.         *)
EXTENDS StackCall

Defective == {"GATT_SignedWriteNoRsp", "GATT_DiscAllPrimaryServices",
              "GATT_ReliableWrites"}

SoundCalls == DOMAIN Api \ Defective
StoreCalls == {"osal_snv_read", "osal_snv_write"}

ProductBuild ==
  {"ADV_CONN_CFG", "ADV_NCONN_CFG", "PERIPHERAL_CFG", "GAP_BOND_MGR",
   "ATTRIBUTE_TABLE"}

FullBuild ==
  ProductBuild \cup
  {"INIT_CFG", "CENTRAL_CFG", "BROADCASTER_CFG", "OBSERVER_CFG",
   "L2CAP_CO_CHANNELS", "GATT_CLIENT", "SERVICE_CHANGED", "NPI", "GATT_QUAL",
   "GATT_TEST"}

BothBuilds == {ProductBuild, FullBuild}

ASSUME MatchersAreExact /\ LengthsAgree
=============================================================================

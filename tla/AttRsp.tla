------------------------------- MODULE AttRsp -------------------------------
(***************************************************************************)
(* The ATT responses the stack could not send (MB2640A.c): the stack hands *)
(* one to the application task, which keeps it in pAttRsp and tries again  *)
(* at the end of each connection event, until it is sent, is replaced, or  *)
(* the connection is over.                                                 *)
(*                                                                         *)
(* The task is woken by a counting semaphore for its two queues: messages  *)
(* of the stack, of which it takes one per wakeup, and its own messages,   *)
(* which it drains.  Of those only GAPROLE_WAITING and                     *)
(* GAPROLE_WAITING_AFTER_TIMEOUT touch pAttRsp, alike.  The stack runs at  *)
(* a higher priority, between any two steps of the task.  There is one     *)
(* connection at a time, and its handle is always the same.                *)
(***************************************************************************)
EXTENDS Integers, Sequences, FiniteSets

CONSTANTS
  MaxRsp,       \* response buffers
  MaxMsgs,      \* bound on each queue
  MaxSignals    \* bound on the semaphore

ASSUME BoundsAssumption ==
  MaxRsp \in Nat /\ MaxMsgs \in Nat \ {0} /\ MaxSignals \in Nat

Rsp == 1..MaxRsp
NULL == 0
EndEvt == 0         \* SBP_CONN_EVT_END_EVT in the stack's queue

VARIABLES
  up,            \* there is a connection
  notice,        \* the stack reports the end of its connection events
  icall,         \* the stack's messages: a response, or EndEvt
  appMsgQueue,   \* GAPROLE_WAITING messages
  sem,           \* the task's semaphore
  pc,            \* SimpleBLEPeripheral_taskFxn: "wait" or "drain"
  pAttRsp,       \* the response held, or NULL
  rsp,           \* per response: its two buffers, and whether the
                 \* connection that waits for it is still there
  msgLost        \* history: a GAPROLE_WAITING message found no memory

queues == <<icall, appMsgQueue, sem>>
vars == <<up, notice, queues, pc, pAttRsp, rsp, msgLost>>

Init ==
  /\ up = FALSE /\ notice = FALSE
  /\ icall = <<>> /\ appMsgQueue = <<>> /\ sem = 0
  /\ pc = "wait" /\ pAttRsp = NULL
  /\ rsp = [r \in Rsp |-> [msg |-> "free", payload |-> "free", mine |-> FALSE]]
  /\ msgLost = FALSE

----------------------------------------------------------------------------
(* The stack.                                                              *)

Post == sem < MaxSignals /\ sem' = sem + 1

StackSends(m) ==
  Len(icall) < MaxMsgs /\ icall' = Append(icall, m) /\ Post

Connects ==
  /\ ~up /\ up' = TRUE
  /\ UNCHANGED <<notice, queues, pc, pAttRsp, rsp, msgLost>>

(* Slip: the task is not signalled.                                        *)
enqueueMsgUnsignalled ==
  \/ /\ Len(appMsgQueue) < MaxMsgs
     /\ appMsgQueue' = Append(appMsgQueue, "WAITING")
     /\ UNCHANGED <<icall, sem, msgLost>>
  \/ msgLost' = TRUE /\ UNCHANGED queues

(* SimpleBLEPeripheral_stateChangeCB: the message is lost if there is no   *)
(* memory for it.                                                          *)
SimpleBLEPeripheral_enqueueMsg ==
  \/ /\ Len(appMsgQueue) < MaxMsgs
     /\ appMsgQueue' = Append(appMsgQueue, "WAITING") /\ Post
     /\ UNCHANGED <<icall, msgLost>>
  \/ msgLost' = TRUE /\ UNCHANGED queues

Disconnects ==
  /\ up /\ up' = FALSE /\ notice' = FALSE
  /\ rsp' = [r \in Rsp |-> [rsp[r] EXCEPT !.mine = FALSE]]
  /\ SimpleBLEPeripheral_enqueueMsg
  /\ UNCHANGED <<pc, pAttRsp>>

(* A client has one request open at a time.                                *)
ResponsePending(r) ==
  /\ up /\ \A q \in Rsp : ~rsp[q].mine
  /\ rsp[r].msg = "free" /\ rsp[r].payload = "free"
  /\ rsp' = [rsp EXCEPT ![r] = [msg |-> "live", payload |-> "live", mine |-> TRUE]]
  /\ StackSends(r)
  /\ UNCHANGED <<up, notice, appMsgQueue, pc, pAttRsp, msgLost>>

ConnectionEventEnds ==
  /\ up /\ notice /\ StackSends(EndEvt)
  /\ UNCHANGED <<up, notice, appMsgQueue, pc, pAttRsp, rsp, msgLost>>

----------------------------------------------------------------------------
(* The application task.                                                   *)

Free(buffer) == IF buffer = "live" THEN "free" ELSE "twice"

FreeMsg(r, all) == [all EXCEPT ![r].msg = Free(@)]
FreePayload(r, all) == [all EXCEPT ![r].payload = Free(@)]

(* The stack has sent r and freed its payload; the client is answered.     *)
Sent(r, all) == [all EXCEPT ![r].payload = Free(@), ![r].mine = FALSE]

(* Slip: the payload is freed although the stack has taken it.             *)
freeAttRspAlways(ok, all) ==
  IF pAttRsp = NULL THEN all ELSE FreeMsg(pAttRsp, FreePayload(pAttRsp, all))

(* The buffers all become when pAttRsp is freed; ok: it was sent.          *)
freeAttRsp(ok, all) ==
  IF pAttRsp = NULL THEN all
  ELSE FreeMsg(pAttRsp, IF ok THEN all ELSE FreePayload(pAttRsp, all))

(* Slip: the response is held whether or not the notice was granted.       *)
processGATTMsgHolds(r) ==
  /\ rsp' = freeAttRsp(FALSE, rsp) /\ pAttRsp' = r
  /\ notice' \in {notice, up}

(* The response r waits for the end of a connection event; without a       *)
(* notice of it (the connection is gone, or the command fails) it is freed.*)
processGATTMsg(r) ==
  \/ /\ up /\ notice' = TRUE
     /\ rsp' = freeAttRsp(FALSE, rsp) /\ pAttRsp' = r
  \/ /\ rsp' = FreeMsg(r, FreePayload(r, rsp))
     /\ UNCHANGED <<notice, pAttRsp>>

sendAttRsp ==
  IF pAttRsp = NULL THEN UNCHANGED <<notice, rsp, pAttRsp>>
  ELSE \/ up /\ UNCHANGED <<notice, rsp, pAttRsp>>
       \/ /\ up /\ rsp' = freeAttRsp(TRUE, Sent(pAttRsp, rsp))
          /\ notice' = FALSE /\ pAttRsp' = NULL
       \/ /\ rsp' = freeAttRsp(FALSE, rsp)
          /\ notice' = FALSE /\ pAttRsp' = NULL

(* It wakes and takes one message of the stack, if there is one.           *)
AppWakes ==
  /\ pc = "wait" /\ sem > 0 /\ sem' = sem - 1 /\ pc' = "drain"
  /\ \/ icall = <<>> /\ UNCHANGED <<icall, notice, rsp, pAttRsp>>
     \/ /\ icall # <<>> /\ icall' = Tail(icall)
        /\ IF Head(icall) = EndEvt THEN sendAttRsp ELSE processGATTMsg(Head(icall))
  /\ UNCHANGED <<up, appMsgQueue, msgLost>>

(* Slip: the end of the connection leaves the response where it is.        *)
AppDrainsOnly ==
  /\ pc = "drain" /\ appMsgQueue # <<>> /\ appMsgQueue' = Tail(appMsgQueue)
  /\ UNCHANGED <<rsp, pAttRsp>>
  /\ UNCHANGED <<up, notice, icall, sem, pc, msgLost>>

(* It takes one of its own messages: the connection is over.               *)
AppDrains ==
  /\ pc = "drain" /\ appMsgQueue # <<>> /\ appMsgQueue' = Tail(appMsgQueue)
  /\ rsp' = freeAttRsp(FALSE, rsp) /\ pAttRsp' = NULL
  /\ UNCHANGED <<up, notice, icall, sem, pc, msgLost>>

AppWaits ==
  /\ pc = "drain" /\ appMsgQueue = <<>> /\ pc' = "wait"
  /\ UNCHANGED <<up, notice, queues, pAttRsp, rsp, msgLost>>

App == AppWakes \/ AppDrains \/ AppWaits

Next ==
  \/ Connects \/ Disconnects \/ ConnectionEventEnds
  \/ \E r \in Rsp : ResponsePending(r)
  \/ App

(* A client whose request stays open for 30 seconds drops the connection.  *)
ClientTimesOut == Disconnects /\ \E r \in Rsp : rsp[r].mine

Spec ==
  /\ Init /\ [][Next]_vars
  /\ WF_vars(App) /\ WF_vars(ClientTimesOut)

----------------------------------------------------------------------------
(* Properties.                                                             *)

(* Every variable has its type.                                            *)
TypeOK ==
  /\ up \in BOOLEAN /\ notice \in BOOLEAN /\ msgLost \in BOOLEAN
  /\ icall \in Seq(Rsp \cup {EndEvt}) /\ Len(icall) <= MaxMsgs
  /\ appMsgQueue \in Seq({"WAITING"}) /\ Len(appMsgQueue) <= MaxMsgs
  /\ sem \in 0..MaxSignals /\ pc \in {"wait", "drain"}
  /\ pAttRsp \in Rsp \cup {NULL}
  /\ rsp \in [Rsp -> [msg : {"free", "live", "twice"},
                      payload : {"free", "live", "twice"}, mine : BOOLEAN]]

(* Both buffers of a response are live while it is in the stack's queue or *)
(* held, and freed otherwise: none is freed twice, leaked, or used after   *)
(* it was freed.  A response is in one place only.                         *)
BuffersAreAccountedFor ==
  /\ \A r \in Rsp :
       /\ rsp[r].msg = rsp[r].payload
       /\ rsp[r].msg = "live" <=> pAttRsp = r \/ \E i \in 1..Len(icall) : icall[i] = r
       /\ rsp[r].msg # "twice"
  /\ \A r \in Rsp :
       Cardinality({i \in 1..Len(icall) : icall[i] = r})
         + (IF pAttRsp = r THEN 1 ELSE 0) <= 1

(* A response that is held is going to be looked at again: connection      *)
(* events are reported, or the news that the connection is over is queued. *)
HeldIsWatched == pAttRsp # NULL => notice \/ appMsgQueue # <<>> \/ msgLost

(* The task never sleeps on a message in one of its queues.                *)
AwakeForMessages == pc = "wait" => sem >= Len(icall) /\ (appMsgQueue # <<>> => sem > 0)

(* A response whose client still waits does not stay held for ever, unless *)
(* the message that ends its connection is lost.                           *)
HeldIsReleased ==
  \A r \in Rsp :
    (pAttRsp = r /\ rsp[r].mine) ~> (pAttRsp # r \/ msgLost)
=============================================================================

---------------------------- MODULE AttRspProofs ----------------------------
(***************************************************************************)
(* Proofs about AttRsp, for any number of buffers and any bounds: types,   *)
(* that a response which is held is going to be looked at again, and that  *)
(* the application task never sleeps on a message.                         *)
(***************************************************************************)
EXTENDS AttRsp, FiniteSetTheorems, TLAPS

(* Freeing keeps the table of responses a table of responses.              *)
Table == [Rsp -> [msg : {"free", "live", "twice"},
                  payload : {"free", "live", "twice"}, mine : BOOLEAN]]

(* Freeing a message leaves a table of responses.                          *)
LEMMA FreeMsgType ==
  ASSUME NEW all \in Table, NEW r \in Rsp
  PROVE  FreeMsg(r, all) \in Table
BY DEF Table, FreeMsg, Free

(* So does freeing its payload.                                            *)
LEMMA FreePayloadType ==
  ASSUME NEW all \in Table, NEW r \in Rsp
  PROVE  FreePayload(r, all) \in Table
BY DEF Table, FreePayload, Free

(* And so does handing a response to the stack.                            *)
LEMMA SentType ==
  ASSUME NEW all \in Table, NEW r \in Rsp
  PROVE  Sent(r, all) \in Table
BY DEF Table, Sent, Free

(* And so does freeAttRsp, with a response to free or without.             *)
LEMMA freeAttRspType ==
  ASSUME NEW all \in Table, NEW ok \in BOOLEAN, pAttRsp \in Rsp \cup {NULL}
  PROVE  freeAttRsp(ok, all) \in Table
<1>1. CASE pAttRsp = NULL
  BY <1>1 DEF freeAttRsp
<1>2. CASE pAttRsp # NULL
  <2>1. pAttRsp \in Rsp
    BY <1>2
  <2>2. freeAttRsp(ok, all) = FreeMsg(pAttRsp, IF ok THEN all ELSE FreePayload(pAttRsp, all))
    BY <1>2 DEF freeAttRsp
  <2>3. (IF ok THEN all ELSE FreePayload(pAttRsp, all)) \in Table
    BY <2>1, FreePayloadType
  <2> QED
    BY <2>1, <2>2, <2>3, FreeMsgType
<1> QED
  BY <1>1, <1>2

----------------------------------------------------------------------------
(* The queues keep their types and bounds, and the response table its own. *)
QueuesOK ==
  /\ icall \in Seq(Rsp \cup {EndEvt}) /\ Len(icall) <= MaxMsgs
  /\ appMsgQueue \in Seq({"WAITING"}) /\ Len(appMsgQueue) <= MaxMsgs
  /\ sem \in 0..MaxSignals

HeldOK == pAttRsp \in Rsp \cup {NULL} /\ rsp \in Table

FlagsOK ==
  /\ up \in BOOLEAN /\ notice \in BOOLEAN /\ msgLost \in BOOLEAN
  /\ pc \in {"wait", "drain"}

(* The types, by what the steps change together.                           *)
LEMMA TypeOKParts == TypeOK <=> QueuesOK /\ HeldOK /\ FlagsOK
BY DEF TypeOK, QueuesOK, HeldOK, FlagsOK, Table

(* No step puts anything but a response or an event in a queue.            *)
LEMMA QueuesStep == QueuesOK /\ [Next]_vars => QueuesOK'
<1> SUFFICES ASSUME QueuesOK, [Next]_vars PROVE QueuesOK'
  OBVIOUS
<1> USE BoundsAssumption DEF QueuesOK
<1>1. CASE Connects
  BY <1>1 DEF Connects, queues
<1>2. CASE Disconnects
  <2>1. SimpleBLEPeripheral_enqueueMsg
    BY <1>2 DEF Disconnects
  <2>2. CASE UNCHANGED queues
    BY <2>2 DEF queues
  <2>3. CASE /\ Len(appMsgQueue) < MaxMsgs /\ Post /\ UNCHANGED icall
             /\ appMsgQueue' = Append(appMsgQueue, "WAITING")
    <3>1. appMsgQueue' \in Seq({"WAITING"}) /\ Len(appMsgQueue') = Len(appMsgQueue) + 1
      BY <2>3
    <3>2. Len(appMsgQueue') <= MaxMsgs
      BY <2>3, <3>1
    <3> QED
      BY <2>3, <3>1, <3>2 DEF Post
  <2> QED
    BY <2>1, <2>2, <2>3 DEF SimpleBLEPeripheral_enqueueMsg
<1>3. ASSUME NEW m \in Rsp \cup {EndEvt}, StackSends(m), UNCHANGED appMsgQueue
      PROVE  QueuesOK'
  <2>1. icall' \in Seq(Rsp \cup {EndEvt}) /\ Len(icall') = Len(icall) + 1
    BY <1>3 DEF StackSends
  <2>2. Len(icall') <= MaxMsgs
    BY <1>3, <2>1 DEF StackSends
  <2> QED
    BY <1>3, <2>1, <2>2 DEF StackSends, Post
<1>4. CASE ConnectionEventEnds
  BY <1>3, <1>4 DEF ConnectionEventEnds
<1>5. ASSUME NEW r \in Rsp, ResponsePending(r) PROVE QueuesOK'
  BY <1>3, <1>5 DEF ResponsePending
<1>6. CASE AppWakes
  <2>1. sem' \in 0..MaxSignals /\ UNCHANGED appMsgQueue
    BY <1>6 DEF AppWakes
  <2>2. icall' = icall \/ (icall # <<>> /\ icall' = Tail(icall))
    BY <1>6 DEF AppWakes
  <2>3. icall' \in Seq(Rsp \cup {EndEvt}) /\ Len(icall') <= Len(icall)
    BY <2>2
  <2>4. Len(icall') <= MaxMsgs
    BY <2>3
  <2> QED
    BY <2>1, <2>3, <2>4
<1>7. CASE AppDrains
  <2>1. appMsgQueue' \in Seq({"WAITING"}) /\ Len(appMsgQueue') <= Len(appMsgQueue)
    BY <1>7 DEF AppDrains
  <2>2. Len(appMsgQueue') <= MaxMsgs
    BY <2>1
  <2> QED
    BY <1>7, <2>1, <2>2 DEF AppDrains
<1>8. CASE AppWaits
  BY <1>8 DEF AppWaits, queues
<1>9. CASE UNCHANGED vars
  BY <1>9 DEF vars, queues
<1> QED
  BY <1>1, <1>2, <1>4, <1>5, <1>6, <1>7, <1>8, <1>9 DEF Next, App

(* What a message of the stack can do to the response held.                *)
LEMMA HeldStep == TypeOK /\ [Next]_vars => HeldOK'
<1> SUFFICES ASSUME QueuesOK, HeldOK, [Next]_vars PROVE HeldOK'
  BY TypeOKParts
<1> USE DEF HeldOK
<1>1. CASE Connects
  BY <1>1 DEF Connects
<1>2. CASE Disconnects
  BY <1>2 DEF Disconnects, Table
<1>3. ASSUME NEW r \in Rsp, ResponsePending(r) PROVE HeldOK'
  BY <1>3 DEF ResponsePending, Table
<1>4. CASE ConnectionEventEnds
  BY <1>4 DEF ConnectionEventEnds
<1>5. CASE AppWakes
  <2>1. CASE UNCHANGED <<rsp, pAttRsp>>
    BY <2>1
  <2>2. CASE icall # <<>> /\ Head(icall) = EndEvt /\ sendAttRsp
    <3>1. CASE rsp' = freeAttRsp(TRUE, Sent(pAttRsp, rsp)) /\ pAttRsp' = NULL /\ pAttRsp # NULL
      <4>1. pAttRsp \in Rsp
        BY <3>1
      <4>2. Sent(pAttRsp, rsp) \in Table
        BY <4>1, SentType
      <4> QED
        BY <3>1, <4>2, freeAttRspType
    <3>2. CASE rsp' = freeAttRsp(FALSE, rsp) /\ pAttRsp' = NULL
      BY <3>2, freeAttRspType
    <3> QED
      BY <2>1, <2>2, <3>1, <3>2 DEF sendAttRsp
  <2>3. CASE icall # <<>> /\ Head(icall) # EndEvt /\ processGATTMsg(Head(icall))
    <3>1. Head(icall) \in Rsp
      BY <2>3 DEF QueuesOK
    <3>2. CASE rsp' = freeAttRsp(FALSE, rsp) /\ pAttRsp' = Head(icall)
      BY <3>1, <3>2, freeAttRspType
    <3>3. CASE rsp' = FreeMsg(Head(icall), FreePayload(Head(icall), rsp)) /\ UNCHANGED pAttRsp
      BY <3>1, <3>3, FreeMsgType, FreePayloadType
    <3> QED
      BY <2>3, <3>2, <3>3 DEF processGATTMsg
  <2> QED
    BY <1>5, <2>1, <2>2, <2>3 DEF AppWakes
<1>6. CASE AppDrains
  <2>1. rsp' = freeAttRsp(FALSE, rsp) /\ pAttRsp' = NULL
    BY <1>6 DEF AppDrains
  <2> QED
    BY <2>1, freeAttRspType
<1>7. CASE AppWaits
  BY <1>7 DEF AppWaits
<1>8. CASE UNCHANGED vars
  BY <1>8 DEF vars
<1> QED
  BY <1>1, <1>2, <1>3, <1>4, <1>5, <1>6, <1>7, <1>8 DEF Next, App

(* The flags, and where the task is, keep their types.                     *)
LEMMA FlagsStep == TypeOK /\ [Next]_vars => FlagsOK'
<1> SUFFICES ASSUME QueuesOK, HeldOK, FlagsOK, [Next]_vars PROVE FlagsOK'
  BY TypeOKParts
<1> USE DEF FlagsOK
<1>1. CASE Connects
  BY <1>1 DEF Connects
<1>2. CASE Disconnects
  <2>1. up' = FALSE /\ notice' = FALSE /\ UNCHANGED pc
    BY <1>2 DEF Disconnects
  <2>2. msgLost' = msgLost \/ msgLost' = TRUE
    BY <1>2 DEF Disconnects, SimpleBLEPeripheral_enqueueMsg
  <2> QED
    BY <2>1, <2>2, Zenon
<1>3. ASSUME NEW r \in Rsp, ResponsePending(r) PROVE FlagsOK'
  BY <1>3 DEF ResponsePending
<1>4. CASE ConnectionEventEnds
  BY <1>4 DEF ConnectionEventEnds
<1>5. CASE AppWakes
  <2>1. UNCHANGED <<up, msgLost>> /\ pc' = "drain"
    BY <1>5 DEF AppWakes
  <2>2. notice' = notice \/ notice' = TRUE \/ notice' = FALSE
    BY <1>5 DEF AppWakes, sendAttRsp, processGATTMsg
  <2> QED
    BY <2>1, <2>2, Zenon
<1>6. CASE AppDrains
  BY <1>6 DEF AppDrains
<1>7. CASE AppWaits
  BY <1>7 DEF AppWaits
<1>8. CASE UNCHANGED vars
  BY <1>8 DEF vars
<1> QED
  BY <1>1, <1>2, <1>3, <1>4, <1>5, <1>6, <1>7, <1>8 DEF Next, App

(* Every variable keeps its type, and the queues of the application task   *)
(* their bounds, in every reachable state (the whole of AttRsp).           *)
THEOREM TypeCorrect == Spec => []TypeOK
<1>1. Init => TypeOK
  <2> SUFFICES ASSUME Init PROVE QueuesOK /\ HeldOK /\ FlagsOK
    BY TypeOKParts
  <2>1. QueuesOK
    BY BoundsAssumption DEF Init, QueuesOK
  <2>2. HeldOK
    BY DEF Init, HeldOK, Table
  <2>3. FlagsOK
    BY DEF Init, FlagsOK
  <2> QED
    BY <2>1, <2>2, <2>3
<1>2. TypeOK /\ [Next]_vars => TypeOK'
  <2>1. TypeOK /\ [Next]_vars => QueuesOK' /\ HeldOK' /\ FlagsOK'
    BY QueuesStep, HeldStep, FlagsStep, TypeOKParts
  <2>2. TypeOK' <=> QueuesOK' /\ HeldOK' /\ FlagsOK'
    BY TypeOKParts, PTL
  <2> QED
    BY <2>1, <2>2
<1> QED
  BY <1>1, <1>2, PTL DEF Spec

----------------------------------------------------------------------------
(* A response in pAttRsp (MB2640A.c:684-707) is going to be looked at      *)
(* again: the connection-event notice is on, or a GAPROLE_WAITING message  *)
(* is queued, unless one was lost for want of memory.  HeldIsWatched is    *)
(* inductive: what ends the notice either frees the response or queues     *)
(* that message, and the message is only taken to free the response.       *)
THEOREM HeldIsWatchedInvariant == Spec => []HeldIsWatched
<1>1. Init => HeldIsWatched
  BY DEF Init, HeldIsWatched
<1>2. TypeOK /\ HeldIsWatched /\ [Next]_vars => HeldIsWatched'
  <2> SUFFICES ASSUME TypeOK, HeldIsWatched, [Next]_vars PROVE HeldIsWatched'
    OBVIOUS
  <2> USE DEF HeldIsWatched
  <2>1. CASE Connects
    BY <2>1 DEF Connects, queues
  <2>2. CASE Disconnects
    <3>1. CASE msgLost' = TRUE
      BY <3>1
    <3>2. CASE appMsgQueue' = Append(appMsgQueue, "WAITING")
      <4>1. appMsgQueue' # <<>>
        BY <3>2 DEF TypeOK
      <4> QED
        BY <4>1
    <3> QED
      BY <2>2, <3>1, <3>2 DEF Disconnects, SimpleBLEPeripheral_enqueueMsg
  <2>3. ASSUME NEW r \in Rsp, ResponsePending(r) PROVE HeldIsWatched'
    BY <2>3 DEF ResponsePending
  <2>4. CASE ConnectionEventEnds
    BY <2>4 DEF ConnectionEventEnds
  <2>5. CASE AppWakes
    <3>1. UNCHANGED <<appMsgQueue, msgLost>>
      BY <2>5 DEF AppWakes
    <3>2. UNCHANGED <<notice, pAttRsp>> \/ notice' = TRUE \/ pAttRsp' = NULL
      BY <2>5 DEF AppWakes, sendAttRsp, processGATTMsg
    <3> QED
      BY <3>1, <3>2
  <2>6. CASE AppDrains
    BY <2>6 DEF AppDrains
  <2>7. CASE AppWaits
    BY <2>7 DEF AppWaits, queues
  <2>8. CASE UNCHANGED vars
    BY <2>8 DEF vars, queues
  <2> QED
    BY <2>1, <2>2, <2>3, <2>4, <2>5, <2>6, <2>7, <2>8 DEF Next, App
<1> QED
  BY <1>1, <1>2, TypeCorrect, PTL DEF Spec

----------------------------------------------------------------------------
(* AwakeForMessages holds at the pend; at other times the semaphore counts *)
(* at least the stack's messages.                                          *)
AwakeInv ==
  /\ sem >= Len(icall)
  /\ pc = "wait" /\ appMsgQueue # <<>> => sem > 0

(* No step leaves a queued response behind a task that is not woken.       *)
LEMMA AwakeStep == TypeOK /\ AwakeInv /\ [Next]_vars => AwakeInv'
<1> SUFFICES ASSUME TypeOK, AwakeInv, [Next]_vars PROVE AwakeInv'
  OBVIOUS
<1>0. /\ icall \in Seq(Rsp \cup {EndEvt}) /\ appMsgQueue \in Seq({"WAITING"})
      /\ sem \in Nat /\ Len(icall) \in Nat
      /\ sem >= Len(icall)
      /\ pc = "wait" /\ appMsgQueue # <<>> => sem > 0
  BY BoundsAssumption DEF TypeOK, AwakeInv
(* A message of the stack comes with a post of its own.                    *)
<1>a. ASSUME NEW m \in Rsp \cup {EndEvt}, StackSends(m), UNCHANGED <<appMsgQueue, pc>>
      PROVE  AwakeInv'
  <2>1. Len(icall') = Len(icall) + 1 /\ sem' = sem + 1
    BY <1>0, <1>a DEF StackSends, Post
  <2> QED
    BY <1>0, <1>a, <2>1 DEF AwakeInv
<1>1. CASE Connects
  BY <1>0, <1>1 DEF Connects, queues, AwakeInv
<1>2. CASE Disconnects
  <2>1. CASE UNCHANGED queues
    BY <1>0, <1>2, <2>1 DEF Disconnects, queues, AwakeInv
  <2>2. CASE sem' = sem + 1 /\ UNCHANGED icall
    BY <1>0, <2>2 DEF AwakeInv
  <2> QED
    BY <1>2, <2>1, <2>2 DEF Disconnects, SimpleBLEPeripheral_enqueueMsg, Post
<1>3. ASSUME NEW r \in Rsp, ResponsePending(r) PROVE AwakeInv'
  BY <1>3, <1>a DEF ResponsePending
<1>4. CASE ConnectionEventEnds
  BY <1>4, <1>a DEF ConnectionEventEnds
<1>5. CASE AppWakes    \* one signal, at most one message of the stack
  <2>1. sem > 0 /\ sem' = sem - 1 /\ pc' = "drain"
    BY <1>5 DEF AppWakes
  <2>2. \/ icall = <<>> /\ icall' = icall
        \/ icall # <<>> /\ icall' = Tail(icall)
    BY <1>5 DEF AppWakes
  <2>3. sem' >= Len(icall')
    <3>1. CASE icall = <<>> /\ icall' = icall
      BY <1>0, <2>1, <3>1
    <3>2. CASE icall # <<>> /\ icall' = Tail(icall)
      <4>1. Len(icall') = Len(icall) - 1
        BY <1>0, <3>2
      <4> QED
        BY <1>0, <2>1, <4>1
    <3> QED
      BY <2>2, <3>1, <3>2
  <2> QED
    BY <2>1, <2>3 DEF AwakeInv
<1>6. CASE AppDrains
  BY <1>0, <1>6 DEF AppDrains, AwakeInv
<1>7. CASE AppWaits    \* it pends with its own queue empty
  BY <1>0, <1>7 DEF AppWaits, queues, AwakeInv
<1>8. CASE UNCHANGED vars
  BY <1>0, <1>8 DEF vars, queues, AwakeInv
<1> QED
  BY <1>1, <1>2, <1>3, <1>4, <1>5, <1>6, <1>7, <1>8 DEF Next, App

(* SimpleBLEPeripheral_taskFxn never sleeps on a message in either of its  *)
(* queues (MB2640A.c:532-623), although one semaphore serves both.         *)
THEOREM AwakeForMessagesInvariant == Spec => []AwakeForMessages
<1>1. Init => AwakeInv
  BY DEF Init, AwakeInv
<1>2. AwakeInv => AwakeForMessages
  BY DEF AwakeInv, AwakeForMessages
<1> QED
  BY <1>1, <1>2, AwakeStep, TypeCorrect, PTL DEF Spec

----------------------------------------------------------------------------
(* The buffers of a response are live just while it is queued or held, and *)
(* it is in one place only.                                                *)
Queued(r) == \E i \in 1..Len(icall) : icall[i] = r

Accounted(r) ==
  /\ rsp[r].msg \in {"free", "live"} /\ rsp[r].payload = rsp[r].msg
  /\ rsp[r].msg = "live" <=> pAttRsp = r \/ Queued(r)

QueuedOnce ==
  \A i, j \in 1..Len(icall) : icall[i] = icall[j] /\ icall[i] \in Rsp => i = j

AccountInv ==
  /\ \A r \in Rsp : Accounted(r)
  /\ QueuedOnce
  /\ pAttRsp \in Rsp => ~Queued(pAttRsp)

(* What freeing the response held leaves.                                  *)
Freed(s) ==
  \A r \in Rsp : IF r = pAttRsp THEN s[r].msg = "free" /\ s[r].payload = "free"
                 ELSE s[r].msg = rsp[r].msg /\ s[r].payload = rsp[r].payload

(* freeAttRsp frees the memory of the response that is kept, sent before   *)
(* or not, and nothing else.                                               *)
LEMMA FreesHeld ==
  ASSUME HeldOK, AccountInv
  PROVE  /\ Freed(freeAttRsp(FALSE, rsp))
         /\ pAttRsp # NULL => Freed(freeAttRsp(TRUE, Sent(pAttRsp, rsp)))
<1>1. CASE pAttRsp = NULL
  BY <1>1 DEF Freed, freeAttRsp, Rsp, NULL
<1>2. CASE pAttRsp # NULL
  <2>1. pAttRsp \in Rsp
    BY <1>2 DEF HeldOK
  <2>2. rsp[pAttRsp].msg = "live" /\ rsp[pAttRsp].payload = "live"
    BY <2>1 DEF AccountInv, Accounted
  <2>3. freeAttRsp(FALSE, rsp) = FreeMsg(pAttRsp, FreePayload(pAttRsp, rsp))
    BY <1>2 DEF freeAttRsp
  <2>4. freeAttRsp(TRUE, Sent(pAttRsp, rsp)) = FreeMsg(pAttRsp, Sent(pAttRsp, rsp))
    BY <1>2 DEF freeAttRsp
  <2>5. Freed(FreeMsg(pAttRsp, FreePayload(pAttRsp, rsp)))
    BY <2>1, <2>2 DEF Freed, FreeMsg, FreePayload, Free, HeldOK, Table
  <2>6. Freed(FreeMsg(pAttRsp, Sent(pAttRsp, rsp)))
    BY <2>1, <2>2 DEF Freed, FreeMsg, Sent, Free, HeldOK, Table
  <2> QED
    BY <2>3, <2>4, <2>5, <2>6
<1> QED
  BY <1>1, <1>2

(* What the queue has after a message is put to its end, or taken.         *)
LEMMA QueueGrows ==
  ASSUME QueuesOK, QueuedOnce, NEW m \in Rsp \cup {EndEvt}, m \in Rsp => ~Queued(m),
         icall' = Append(icall, m)
  PROVE  QueuedOnce' /\ \A r \in Rsp : Queued(r)' <=> Queued(r) \/ r = m
<1>1. /\ Len(icall) \in Nat /\ Len(icall') = Len(icall) + 1 /\ icall'[Len(icall) + 1] = m
      /\ \A i \in 1..Len(icall) : icall'[i] = icall[i]
  BY DEF QueuesOK
<1>2. \A i \in 1..Len(icall') : i \in 1..Len(icall) \/ i = Len(icall) + 1
  BY <1>1
<1>3. \A r \in Rsp : Queued(r)' <=> Queued(r) \/ r = m
  <2> SUFFICES ASSUME NEW r \in Rsp PROVE Queued(r)' <=> Queued(r) \/ r = m
    OBVIOUS
  <2>1. Queued(r)' => Queued(r) \/ r = m
    BY <1>1, <1>2 DEF Queued
  <2>2. Queued(r) => Queued(r)'
    BY <1>1 DEF Queued
  <2>3. r = m => Queued(r)'
    BY <1>1 DEF Queued
  <2> QED
    BY <2>1, <2>2, <2>3
<1>4. QueuedOnce'
  <2> SUFFICES ASSUME NEW i \in 1..Len(icall'), NEW j \in 1..Len(icall'),
                      icall'[i] = icall'[j], icall'[i] \in Rsp
               PROVE  i = j
    BY DEF QueuedOnce
  <2>1. CASE i \in 1..Len(icall) /\ j \in 1..Len(icall)
    BY <1>1, <2>1 DEF QueuedOnce
  <2>2. CASE i \in 1..Len(icall) /\ j = Len(icall) + 1
    BY <1>1, <2>2 DEF Queued
  <2>3. CASE i = Len(icall) + 1 /\ j \in 1..Len(icall)
    BY <1>1, <2>3 DEF Queued
  <2> QED
    BY <1>2, <2>1, <2>2, <2>3
<1> QED
  BY <1>3, <1>4

(* A message that is taken is no longer queued, and the others are.        *)
LEMMA QueueShrinks ==
  ASSUME QueuesOK, QueuedOnce, icall # <<>>, icall' = Tail(icall)
  PROVE  /\ QueuedOnce' /\ Head(icall) \in Rsp \cup {EndEvt}
         /\ \A r \in Rsp : Queued(r)' <=> Queued(r) /\ r # Head(icall)
         /\ Head(icall) \in Rsp => Queued(Head(icall))
<1>1. /\ Len(icall) \in Nat \ {0} /\ Len(icall') = Len(icall) - 1 /\ Head(icall) = icall[1]
      /\ \A i \in 1..Len(icall) - 1 : icall'[i] = icall[i + 1]
      /\ icall[1] \in Rsp \cup {EndEvt}
  BY DEF QueuesOK
<1>2. QueuedOnce'
  BY <1>1 DEF QueuedOnce
<1>3. Head(icall) \in Rsp => Queued(Head(icall))
  BY <1>1 DEF Queued
<1>4. \A r \in Rsp : Queued(r)' <=> Queued(r) /\ r # Head(icall)
  <2> SUFFICES ASSUME NEW r \in Rsp PROVE Queued(r)' <=> Queued(r) /\ r # Head(icall)
    OBVIOUS
  <2>1. ASSUME Queued(r)' PROVE Queued(r) /\ r # Head(icall)
    <3>1. PICK i \in 1..Len(icall') : icall'[i] = r
      BY <2>1 DEF Queued
    <3>2. icall[i + 1] = r /\ i + 1 \in 1..Len(icall) /\ i + 1 # 1
      BY <1>1, <3>1
    <3> QED
      BY <1>1, <3>2 DEF Queued, QueuedOnce
  <2>2. ASSUME Queued(r), r # Head(icall) PROVE Queued(r)'
    <3>1. PICK i \in 1..Len(icall) : icall[i] = r
      BY <2>2 DEF Queued
    <3>2. i - 1 \in 1..Len(icall') /\ icall'[i - 1] = r
      BY <1>1, <2>2, <3>1
    <3> QED
      BY <3>2 DEF Queued
  <2> QED
    BY <2>1, <2>2
<1> QED
  BY <1>1, <1>2, <1>3, <1>4

(* No step loses the memory of a response, or frees it twice.              *)
LEMMA AccountStep == TypeOK /\ AccountInv /\ [Next]_vars => AccountInv'
<1> SUFFICES ASSUME QueuesOK, HeldOK, AccountInv, [Next]_vars PROVE AccountInv'
  BY TypeOKParts
<1>1. ASSUME UNCHANGED <<icall, pAttRsp>>,
             \A r \in Rsp : rsp'[r].msg = rsp[r].msg /\ rsp'[r].payload = rsp[r].payload
      PROVE  AccountInv'
  BY <1>1 DEF AccountInv, Accounted, QueuedOnce, Queued
<1>2. CASE Connects
  BY <1>1, <1>2 DEF Connects, queues
<1>3. CASE Disconnects
  <2>1. UNCHANGED <<icall, pAttRsp>>
    BY <1>3 DEF Disconnects, SimpleBLEPeripheral_enqueueMsg, queues
  <2>2. \A r \in Rsp : rsp'[r].msg = rsp[r].msg /\ rsp'[r].payload = rsp[r].payload
    BY <1>3 DEF Disconnects, HeldOK, Table
  <2> QED
    BY <1>1, <2>1, <2>2
<1>4. ASSUME NEW r \in Rsp, ResponsePending(r) PROVE AccountInv'
  <2>1. /\ rsp[r].msg = "free" /\ UNCHANGED pAttRsp /\ icall' = Append(icall, r)
        /\ rsp' = [rsp EXCEPT ![r] = [msg |-> "live", payload |-> "live", mine |-> TRUE]]
    BY <1>4 DEF ResponsePending, StackSends
  <2>2. ~Queued(r) /\ pAttRsp # r
    BY <2>1 DEF AccountInv, Accounted
  <2>3. QueuedOnce' /\ \A q \in Rsp : Queued(q)' <=> Queued(q) \/ q = r
    BY <2>1, <2>2, QueueGrows DEF AccountInv
  <2>4. \A q \in Rsp : IF q = r THEN rsp'[q].msg = "live" /\ rsp'[q].payload = "live"
                       ELSE rsp'[q] = rsp[q]
    BY <2>1 DEF HeldOK, Table
  <2>5. \A q \in Rsp : Accounted(q)'
    BY <2>1, <2>3, <2>4 DEF AccountInv, Accounted
  <2> QED
    BY <2>1, <2>2, <2>3, <2>5 DEF AccountInv
<1>5. CASE ConnectionEventEnds
  <2>1. icall' = Append(icall, EndEvt) /\ UNCHANGED <<rsp, pAttRsp>>
    BY <1>5 DEF ConnectionEventEnds, StackSends
  <2>2. QueuedOnce' /\ \A q \in Rsp : Queued(q)' <=> Queued(q)
    BY <2>1, QueueGrows DEF AccountInv, Rsp, EndEvt
  <2>3. \A q \in Rsp : Accounted(q)'
    BY <2>1, <2>2 DEF AccountInv, Accounted
  <2> QED
    BY <2>1, <2>2, <2>3 DEF AccountInv
<1>6. CASE AppDrains
  <2>1. Freed(rsp') /\ pAttRsp' = NULL /\ icall' = icall
    BY <1>6, FreesHeld DEF AppDrains
  <2>2. QueuedOnce' /\ \A q \in Rsp : Queued(q)' <=> Queued(q)
    BY <2>1 DEF AccountInv, QueuedOnce, Queued
  <2>3. \A q \in Rsp : Accounted(q)'
    BY <2>1, <2>2 DEF AccountInv, Accounted, Freed, Rsp, NULL
  <2> QED
    BY <2>1, <2>2, <2>3 DEF AccountInv, Rsp, NULL
<1>7. CASE AppWakes
  <2>1. CASE icall = <<>>
    BY <1>1, <1>7, <2>1 DEF AppWakes
  <2>2. CASE icall # <<>>
    <3>1. icall' = Tail(icall)
      BY <1>7, <2>2 DEF AppWakes
    <3>2. /\ QueuedOnce' /\ Head(icall) \in Rsp \cup {EndEvt}
          /\ \A q \in Rsp : Queued(q)' <=> Queued(q) /\ q # Head(icall)
          /\ Head(icall) \in Rsp => Queued(Head(icall))
      BY <2>2, <3>1, QueueShrinks DEF AccountInv
    <3>3. CASE Head(icall) = EndEvt
      <4>1. sendAttRsp
        BY <1>7, <2>2, <3>3 DEF AppWakes
      <4>2. \A q \in Rsp : Queued(q)' <=> Queued(q)
        BY <3>2, <3>3 DEF Rsp, EndEvt
      <4>3. CASE UNCHANGED <<rsp, pAttRsp>>
        BY <3>2, <4>2, <4>3 DEF AccountInv, Accounted
      <4>4. CASE Freed(rsp') /\ pAttRsp' = NULL
        BY <3>2, <4>2, <4>4 DEF AccountInv, Accounted, Freed, Rsp, NULL
      <4> QED
        BY <4>1, <4>3, <4>4, FreesHeld DEF sendAttRsp
    <3>4. CASE Head(icall) # EndEvt
      <4> DEFINE h == Head(icall)
      <4>1. h \in Rsp /\ processGATTMsg(h)
        BY <1>7, <2>2, <3>2, <3>4 DEF AppWakes
      <4>2. Queued(h) /\ pAttRsp # h /\ \A q \in Rsp : Queued(q)' <=> Queued(q) /\ q # h
        BY <3>2, <4>1 DEF AccountInv
      <4> HIDE DEF h
      <4>3. rsp[h].msg = "live" /\ rsp[h].payload = "live"
        BY <4>1, <4>2 DEF AccountInv, Accounted
      <4>4. CASE rsp' = freeAttRsp(FALSE, rsp) /\ pAttRsp' = h
        <5>1. Freed(rsp')
          BY <4>4, FreesHeld
        <5>2. \A q \in Rsp : Accounted(q)'
          BY <4>1, <4>2, <4>3, <4>4, <5>1 DEF AccountInv, Accounted, Freed
        <5> QED
          BY <3>2, <4>1, <4>2, <4>4, <5>2 DEF AccountInv
      <4>5. CASE rsp' = FreeMsg(h, FreePayload(h, rsp)) /\ UNCHANGED pAttRsp
        <5>1. \A q \in Rsp : IF q = h THEN rsp'[q].msg = "free" /\ rsp'[q].payload = "free"
                             ELSE rsp'[q] = rsp[q]
          BY <4>1, <4>3, <4>5 DEF FreeMsg, FreePayload, Free, HeldOK, Table
        <5>2. \A q \in Rsp : Accounted(q)'
          BY <4>1, <4>2, <4>5, <5>1 DEF AccountInv, Accounted
        <5> QED
          BY <3>2, <4>1, <4>2, <4>5, <5>2 DEF AccountInv
      <4> QED
        BY <4>1, <4>4, <4>5 DEF processGATTMsg
    <3> QED
      BY <3>3, <3>4
  <2> QED
    BY <2>1, <2>2
<1>8. CASE AppWaits
  BY <1>1, <1>8 DEF AppWaits, queues
<1>9. CASE UNCHANGED vars
  BY <1>1, <1>9 DEF vars, queues
<1> QED
  BY <1>2, <1>3, <1>4, <1>5, <1>6, <1>7, <1>8, <1>9 DEF Next, App

(* No buffer of a response (MB2640A.c:684-782) is leaked, freed twice or   *)
(* used after it was freed, whatever connections come and go.              *)
THEOREM BuffersInvariant == Spec => []BuffersAreAccountedFor
<1>1. Init => AccountInv
  BY DEF Init, AccountInv, Accounted, QueuedOnce, Queued, Rsp, NULL
<1>2. TypeOK /\ AccountInv /\ [Next]_vars => AccountInv'
  BY AccountStep
<1>3. TypeOK /\ AccountInv => BuffersAreAccountedFor
  <2> SUFFICES ASSUME QueuesOK, AccountInv, NEW r \in Rsp
      PROVE  /\ rsp[r].msg = rsp[r].payload
             /\ rsp[r].msg = "live" <=> pAttRsp = r \/ \E i \in 1..Len(icall) : icall[i] = r
             /\ rsp[r].msg # "twice"
             /\ Cardinality({i \in 1..Len(icall) : icall[i] = r})
                  + (IF pAttRsp = r THEN 1 ELSE 0) <= 1
    BY TypeOKParts DEF BuffersAreAccountedFor
  <2> DEFINE places == {i \in 1..Len(icall) : icall[i] = r}
  <2>1. CASE Queued(r)
    <3>1. PICK i \in 1..Len(icall) : icall[i] = r
      BY <2>1 DEF Queued
    <3>2. places = {i}
      BY <3>1 DEF AccountInv, QueuedOnce
    <3>3. Cardinality(places) = 1
      BY <3>2, FS_Singleton
    <3>4. pAttRsp # r
      BY <2>1 DEF AccountInv
    <3> QED
      BY <2>1, <3>3, <3>4 DEF AccountInv, Accounted, Queued
  <2>2. CASE ~Queued(r)
    <3>1. places = {}
      BY <2>2 DEF Queued
    <3>2. Cardinality(places) = 0
      BY <3>1, FS_EmptySet
    <3> QED
      BY <2>2, <3>2 DEF AccountInv, Accounted, Queued
  <2> QED
    BY <2>1, <2>2
<1> QED
  BY <1>1, <1>2, <1>3, TypeCorrect, PTL DEF Spec
=============================================================================

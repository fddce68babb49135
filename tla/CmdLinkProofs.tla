---------------------------- MODULE CmdLinkProofs ----------------------------
(***************************************************************************)
(* Proofs about CmdLink, for every set of writers, receive buffer size and *)
(* boot order.  OneTx is not inductive by itself: that the receive task    *)
(* may keep the right to transmit whenever the UART is closed depends on   *)
(* where in cmd_taskRxFxn the UART is open, and that CMD_RUN is served on  *)
(* cmdState being CMD_RUN only there.  LinkInv says so.                    *)
(*                                                                         *)
(* Then about the debounced input, with the level last reported as the     *)
(* link's mrdy, and about the composition MrdyLink: it implements both of  *)
(* its parts, so that what is proved of each holds of it.                  *)
(***************************************************************************)
EXTENDS MrdyLink, TLAPS

(* Control points at which the UART is open, and at which it is closed.    *)
OpenPcs == {"resumeLog", "resumeWrite", "resumeEnd", "suspendLog",
            "suspendWrite", "suspendTake", "suspendClose"} \cup RunPcs
ClosedPcs == {"initSet", "resumeOpen", "resumePost", "suspendQuiet", "held"}

(* cmdActive follows the UART, and both follow the control point.          *)
ActiveInv ==
  /\ rxPc \in OpenPcs => cmdActive
  /\ rxPc \in ClosedPcs => ~cmdActive
  /\ uartOpen <=> cmdActive \/ rxPc = "resumePost"
  /\ ~uartOpen => ~reading /\ ~txBusy
  /\ cmdState = "INIT" => rxPc \in InitPcs /\ ~cmdActive

(* An open UART keeps the module out of standby.                           *)
PowerInv ==
  /\ cmdActive => cmdPMSetConstraint
  /\ rxPc \in {"resumeOpen", "resumePost"} => cmdPMSetConstraint
  /\ rxPc = "held" => ~cmdPMSetConstraint

(* cmdState is CMD_RUN only on the way round CMD_RUN, with SRDY asserted.  *)
RunInv ==
  /\ cmdState = "RUN" => rxPc \in {"switch"} \cup RunPcs /\ cmdActive /\ srdy
  /\ rxPc \in RunPcs => srdy
  /\ rxPc = "held" => ~srdy

LinkInv == TypeOK /\ ActiveInv /\ PowerInv /\ RunInv

(* The sets of control points, for the leaves of the proofs.               *)
USE DEF CmdStates, InitPcs, ResumePcs, RunPcs, SuspendPcs, RxPcs, OpenPcs,
        ClosedPcs

(* The link begins with its port closed and the receive task starting.     *)
LEMMA InitLinkInv == Init => LinkInv
<1> SUFFICES ASSUME Init PROVE LinkInv
  OBVIOUS
<1>1. TypeOK
  <2>1. writer \in [Writers -> {"idle", "forever", "timed", "writing"}]
    BY DEF Init
  <2>2. cmdRxSize \in 0..MaxRx
    BY MaxRxAssumption DEF Init
  <2> QED
    BY <2>1, <2>2, Zenon DEF Init, TypeOK
<1>2. ActiveInv
  BY DEF Init, ActiveInv
<1>3. PowerInv /\ RunInv
  BY DEF Init, PowerInv, RunInv
<1> QED
  BY <1>1, <1>2, <1>3 DEF LinkInv

(* A step of the receive task keeps LinkInv.                               *)
LEMMA RxLinkInv ==
  ASSUME LinkInv, RxRuns \/ RxTakesTx
  PROVE  LinkInv'
<1> USE DEF LinkInv, TypeOK, ActiveInv, PowerInv, RunInv, vars, rxVars,
            bootVars, outVars, semVars, uartVars, Goto
<1>1. CASE RxSwitch
  BY <1>1, MaxRxAssumption DEF RxSwitch
<1>2. CASE RxInitSet
  BY <1>2, MaxRxAssumption DEF RxInitSet
<1>3. CASE RxWrites
  BY <1>3, MaxRxAssumption DEF RxWrites, RxWrite, UART_write
<1>4. CASE RxResume
  BY <1>4, MaxRxAssumption DEF RxResume
<1>5. CASE cmd_openUart
  BY <1>5, MaxRxAssumption DEF cmd_openUart
<1>6. CASE RxPostTx
  BY <1>6, MaxRxAssumption DEF RxPostTx
<1>7. CASE RxResumeEnd
  BY <1>7, MaxRxAssumption DEF RxResumeEnd
<1>8. CASE RxRunClear
  BY <1>8, MaxRxAssumption DEF RxRunClear
<1>9. CASE RxRunRead
  BY <1>9, MaxRxAssumption DEF RxRunRead
<1>10. CASE RxRunPend
  BY <1>10, MaxRxAssumption DEF RxRunPend
<1>11. CASE RxRunCheck
  BY <1>11, MaxRxAssumption DEF RxRunCheck
<1>12. CASE RxSuspend
  BY <1>12, MaxRxAssumption DEF RxSuspend
<1>13. CASE RxSuspendClose
  BY <1>13, MaxRxAssumption DEF RxSuspendClose
<1>14. CASE RxSuspendQuiet
  BY <1>14, MaxRxAssumption DEF RxSuspendQuiet
<1>15. CASE RxSuspendHold
  BY <1>15, MaxRxAssumption DEF RxSuspendHold
<1>16. CASE RxTakesTx
  BY <1>16, MaxRxAssumption DEF RxTakesTx, RxPendTx
<1> QED
  BY <1>1, <1>2, <1>3, <1>4, <1>5, <1>6, <1>7, <1>8, <1>9, <1>10, <1>11,
     <1>12, <1>13, <1>14, <1>15, <1>16 DEF RxRuns

(* An interrupt or a step of another task keeps LinkInv.                   *)
LEMMA OtherLinkInv ==
  ASSUME LinkInv,
         \/ cmd_MRDYHandler \/ uart_readCallBack \/ uart_writeCallBack
         \/ \E w \in Writers : WriterNext(w)
         \/ CmdTaskWakes
  PROVE  LinkInv'
<1> USE DEF LinkInv, TypeOK, ActiveInv, PowerInv, RunInv, vars, rxVars,
            bootVars, outVars, semVars, uartVars
<1>1. CASE cmd_MRDYHandler
  BY <1>1 DEF cmd_MRDYHandler
<1>2. CASE uart_readCallBack
  <2>1. TypeOK'
    <3>1. cmdRxSize' \in 0..MaxRx
      BY <1>2, MaxRxAssumption DEF uart_readCallBack
    <3>2. reading' \in BOOLEAN /\ cmdRxSem' = 1
      BY <1>2, Zenon DEF uart_readCallBack
    <3>3. UNCHANGED <<mrdy, cmdState, rxPc, remRdy_state, cmdRxBuf, cmdActive,
                      cmdPMSetConstraint, srdy, cmdTxSem, cmdSBSem, cmdCmdSem,
                      uartOpen, txBusy, writer>>
      BY <1>2 DEF uart_readCallBack
    <3> QED
      BY <3>1, <3>2, <3>3
  <2>2. (ActiveInv /\ PowerInv /\ RunInv)'
    BY <1>2 DEF uart_readCallBack
  <2> QED
    BY <2>1, <2>2
<1>3. CASE uart_writeCallBack
  <2>1. TypeOK'
    <3>1. txBusy' \in BOOLEAN /\ cmdTxSem' = 1
      BY <1>3, Zenon DEF uart_writeCallBack
    <3>2. UNCHANGED <<mrdy, cmdState, rxPc, remRdy_state, cmdRxBuf, cmdActive,
                      cmdPMSetConstraint, srdy, cmdRxSem, cmdSBSem, cmdCmdSem,
                      cmdRxSize, uartOpen, reading, writer>>
      BY <1>3 DEF uart_writeCallBack
    <3> QED
      BY <3>1, <3>2
  <2>2. (ActiveInv /\ PowerInv /\ RunInv)'
    BY <1>3 DEF uart_writeCallBack
  <2> QED
    BY <2>1, <2>2
<1>4. ASSUME NEW w \in Writers, WriterNext(w)
      PROVE  LinkInv'
  <2>1. CASE WriterCalls(w)
    BY <2>1 DEF WriterCalls
  <2>2. CASE WriterTakesTx(w)
    BY <2>2 DEF WriterTakesTx
  <2>3. CASE WriterWrites(w)
    BY <2>3 DEF WriterWrites, UART_write
  <2>4. CASE WriterTimesOut(w)
    BY <2>4 DEF WriterTimesOut
  <2> QED
    BY <1>4, <2>1, <2>2, <2>3, <2>4 DEF WriterNext
<1>5. CASE CmdTaskWakes
  BY <1>5 DEF CmdTaskWakes
<1> QED
  BY <1>1, <1>2, <1>3, <1>4, <1>5

(* A step that changes nothing keeps the invariant.                        *)
LEMMA StutterLinkInv ==
  ASSUME LinkInv, UNCHANGED vars
  PROVE  LinkInv'
BY DEF LinkInv, TypeOK, ActiveInv, PowerInv, RunInv, vars, rxVars, bootVars,
       outVars, semVars, uartVars

(* LinkInv, hence the types, in every reachable state.                     *)
THEOREM LinkInvariant == Spec => []LinkInv
<1>1. Init => LinkInv
  BY InitLinkInv
<1>2. LinkInv /\ [Next]_vars => LinkInv'
  BY RxLinkInv, OtherLinkInv, StutterLinkInv DEF Next
<1> QED
  BY <1>1, <1>2, PTL DEF Spec

(* Every variable keeps its type.                                          *)
THEOREM TypeCorrect == Spec => []TypeOK
<1>1. LinkInv => TypeOK
  BY DEF LinkInv
<1> QED
  BY <1>1, LinkInvariant, PTL

----------------------------------------------------------------------------
(* The right to transmit.  A step either leaves it where it is or hands it *)
(* to one place, which then has it alone.                                  *)

(* The right to transmit stays where it is.                                *)
LEMMA TxStays ==
  ASSUME OneTx, \A p \in Places : HasTx(p)' <=> HasTx(p)
  PROVE  OneTx'
BY Zenon DEF OneTx, Places

(* The right to transmit is in one place after it has moved there.         *)
LEMMA TxMoves ==
  ASSUME NEW to \in Places, \A p \in Places : HasTx(p)' <=> p = to
  PROVE  OneTx'
BY Zenon DEF OneTx, Places

(* If p has the right, no other place does.                                *)
LEMMA TxAlone ==
  ASSUME OneTx, NEW p \in Places, HasTx(p)
  PROVE  \A q \in Places : HasTx(q) <=> q = p
BY Zenon DEF OneTx

(* The receive task's steps keep the right to transmit in one place.       *)
LEMMA RxOneTx ==
  ASSUME LinkInv, OneTx, RxRuns \/ RxTakesTx
  PROVE  OneTx'
<1> USE WritersAssumption
    DEF LinkInv, TypeOK, ActiveInv, Places, HasTx, RxHasTx, vars, rxVars,
        bootVars, outVars, semVars, uartVars, Goto
<1>1. CASE RxWrites
  <2>1. HasTx("rx")
    BY <1>1 DEF RxWrites, RxWrite
  <2>2. \A p \in Places : HasTx(p) <=> p = "rx"
    BY <2>1, TxAlone
  <2>3. \A p \in Places : HasTx(p)' <=> p = "uart"
    BY <1>1, <2>2 DEF RxWrites, RxWrite, UART_write
  <2> QED
    BY <2>3, TxMoves
<1>2. CASE RxTakesTx
  <2>1. \A p \in Places : HasTx(p) <=> p = "sem"
    BY <1>2, TxAlone DEF RxTakesTx, RxPendTx
  <2>2. \A p \in Places : HasTx(p)' <=> p = "rx"
    BY <1>2, <2>1 DEF RxTakesTx, RxPendTx
  <2> QED
    BY <2>2, TxMoves
<1>3. CASE RxPostTx
  <2>1. \A p \in Places : HasTx(p) <=> p = "rx"
    BY <1>3, TxAlone DEF RxPostTx
  <2>2. \A p \in Places : HasTx(p)' <=> p = "sem"
    BY <1>3, <2>1 DEF RxPostTx
  <2> QED
    BY <2>2, TxMoves
<1>4. CASE RxSuspendClose
  <2>1. \A p \in Places : HasTx(p) <=> p = "rx"
    BY <1>4, TxAlone DEF RxSuspendClose
  <2>2. \A p \in Places : HasTx(p)' <=> p = "rx"
    BY <1>4, <2>1 DEF RxSuspendClose
  <2> QED
    BY <2>2, TxMoves
<1>5. CASE \/ RxSwitch \/ RxInitSet \/ RxResume \/ cmd_openUart \/ RxResumeEnd
           \/ RxRunClear \/ RxRunRead \/ RxRunPend \/ RxRunCheck
           \/ RxSuspend \/ RxSuspendQuiet \/ RxSuspendHold
  <2>1. \A p \in Places : HasTx(p)' <=> HasTx(p)
    BY <1>5 DEF RxSwitch, RxInitSet, RxResume, cmd_openUart, RxResumeEnd,
                RxRunClear, RxRunRead, RxRunPend, RxRunCheck, RxSuspend,
                RxSuspendQuiet, RxSuspendHold
  <2> QED
    BY <2>1, TxStays
<1> QED
  BY <1>1, <1>2, <1>3, <1>4, <1>5 DEF RxRuns

(* So do those of all others.                                              *)
LEMMA OtherOneTx ==
  ASSUME LinkInv, OneTx,
         \/ cmd_MRDYHandler \/ uart_readCallBack \/ uart_writeCallBack
         \/ \E w \in Writers : WriterNext(w)
         \/ CmdTaskWakes
  PROVE  OneTx'
<1> USE WritersAssumption
    DEF LinkInv, TypeOK, ActiveInv, Places, HasTx, RxHasTx, vars, rxVars,
        bootVars, outVars, semVars, uartVars
<1>1. CASE cmd_MRDYHandler \/ uart_readCallBack \/ CmdTaskWakes
  <2>1. \A p \in Places : HasTx(p)' <=> HasTx(p)
    BY <1>1 DEF cmd_MRDYHandler, uart_readCallBack, CmdTaskWakes
  <2> QED
    BY <2>1, TxStays
<1>2. CASE uart_writeCallBack
  <2>1. \A p \in Places : HasTx(p) <=> p = "uart"
    BY <1>2, TxAlone DEF uart_writeCallBack
  <2>2. \A p \in Places : HasTx(p)' <=> p = "sem"
    BY <1>2, <2>1 DEF uart_writeCallBack
  <2> QED
    BY <2>2, TxMoves
<1>3. ASSUME NEW w \in Writers, WriterNext(w)
      PROVE  OneTx'
  <2>1. CASE WriterCalls(w) \/ WriterTimesOut(w)
    <3>1. \A p \in Places : HasTx(p)' <=> HasTx(p)
      BY <2>1 DEF WriterCalls, WriterTimesOut
    <3> QED
      BY <3>1, TxStays
  <2>2. CASE WriterTakesTx(w)
    <3>1. \A p \in Places : HasTx(p) <=> p = "sem"
      BY <2>2, TxAlone DEF WriterTakesTx
    <3>2. \A p \in Places : HasTx(p)' <=> p = w
      BY <2>2, <3>1 DEF WriterTakesTx
    <3> QED
      BY <3>2, TxMoves
  <2>3. CASE WriterWrites(w)
    <3>1. \A p \in Places : HasTx(p) <=> p = w
      BY <2>3, TxAlone DEF WriterWrites
    <3>2. uartOpen
      BY <3>1
    <3>3. \A p \in Places : HasTx(p)' <=> p = "uart"
      BY <2>3, <3>1, <3>2 DEF WriterWrites, UART_write
    <3> QED
      BY <3>3, TxMoves
  <2> QED
    BY <1>3, <2>1, <2>2, <2>3 DEF WriterNext
<1> QED
  BY <1>1, <1>2, <1>3

(* At first the receive task has the right to transmit.                    *)
LEMMA InitOneTx == Init => OneTx
<1> SUFFICES ASSUME Init PROVE OneTx
  OBVIOUS
<1>1. \A p \in Places : HasTx(p) <=> p = "rx"
  BY WritersAssumption DEF Init, Places, HasTx, RxHasTx
<1> QED
  BY <1>1, Zenon DEF OneTx, Places

(* A step that changes nothing leaves it where it is.                      *)
LEMMA StutterOneTx ==
  ASSUME OneTx, UNCHANGED vars
  PROVE  OneTx'
<1>1. \A p \in Places : HasTx(p)' <=> HasTx(p)
  BY DEF vars, rxVars, bootVars, outVars, semVars, uartVars, HasTx, RxHasTx
<1> QED
  BY <1>1, TxStays

(* The right to transmit is in exactly one place at all times.             *)
THEOREM OneTxInvariant == Spec => []OneTx
<1>1. Init => OneTx
  BY InitOneTx
<1>2. LinkInv /\ OneTx /\ [Next]_vars => OneTx'
  BY RxOneTx, OtherOneTx, StutterOneTx DEF Next
<1> QED
  BY <1>1, <1>2, LinkInvariant, PTL DEF Spec

----------------------------------------------------------------------------
(* What the two invariants give in a state.                                *)

(* What is claimed of the states follows from the invariants.              *)
LEMMA SafeStates == LinkInv /\ OneTx => WritesArePowered /\ RunServesHeldSleeps
<1> SUFFICES ASSUME LinkInv, OneTx
             PROVE  WritesArePowered /\ RunServesHeldSleeps
  OBVIOUS
<1>1. ASSUME NEW p \in Places, p # "rx", HasTx(p)
      PROVE  cmdActive
  <2>1. ~HasTx("rx")
    BY <1>1 DEF OneTx, Places
  <2> QED
    BY <2>1 DEF HasTx, RxHasTx
<1>2. txBusy => cmdActive
  BY <1>1 DEF HasTx, Places
<1>3. ASSUME NEW w \in Writers, writer[w] = "writing"
      PROVE  cmdActive
  BY <1>1, <1>3, WritersAssumption DEF HasTx, Places
<1>4. WritesArePowered
  BY <1>2, <1>3 DEF WritesArePowered, LinkInv, ActiveInv, PowerInv
<1>5. RunServesHeldSleeps
  BY DEF RunServesHeldSleeps, LinkInv, ActiveInv, PowerInv, RunInv
<1> QED
  BY <1>4, <1>5

(* Writes are under way only with the UART open and standby forbidden.     *)
THEOREM WritesArePoweredInvariant == Spec => []WritesArePowered
BY SafeStates, LinkInvariant, OneTxInvariant, PTL

(* In CMD_RUN the port serves; held, it leaves nothing on.                 *)
THEOREM RunServesInvariant == Spec => []RunServesHeldSleeps
BY SafeStates, LinkInvariant, OneTxInvariant, PTL

----------------------------------------------------------------------------
(* Closing.                                                                *)

(* The receive task alone closes the port.                                 *)
LEMMA OnlyRxCloses ==
  ASSUME TypeOK, [Next]_vars, uartOpen, ~uartOpen'
  PROVE  RxSuspendClose
<1> USE DEF vars, rxVars, bootVars, outVars, semVars, uartVars, Goto
<1>1. CASE RxRuns
  BY <1>1 DEF RxRuns, RxSwitch, RxInitSet, RxWrites, RxWrite, RxResume,
              cmd_openUart, RxPostTx, RxResumeEnd, RxRunClear, RxRunRead,
              RxRunPend, RxRunCheck, RxSuspend, RxSuspendQuiet, RxSuspendHold
<1>2. CASE RxTakesTx
  BY <1>2 DEF RxTakesTx, RxPendTx
<1>3. CASE \/ cmd_MRDYHandler \/ uart_readCallBack \/ uart_writeCallBack
           \/ CmdTaskWakes \/ UNCHANGED vars
  BY <1>3 DEF cmd_MRDYHandler, uart_readCallBack, uart_writeCallBack,
              CmdTaskWakes
<1>4. CASE \E w \in Writers : WriterNext(w)
  BY <1>4 DEF WriterNext, WriterCalls, WriterTakesTx, WriterWrites,
              WriterTimesOut
<1> QED
  BY <1>1, <1>2, <1>3, <1>4 DEF Next

(* cmd_closeUart cuts no write, under way or won by another task.          *)
THEOREM CloseCutsNoWriteHolds == Spec => CloseCutsNoWrite
<1>1. ASSUME LinkInv, OneTx, [Next]_vars
      PROVE  [uartOpen /\ ~uartOpen' =>
                ~txBusy /\ \A w \in Writers : writer[w] # "writing"]_vars
  <2> SUFFICES ASSUME uartOpen, ~uartOpen'
               PROVE  ~txBusy /\ \A w \in Writers : writer[w] # "writing"
    OBVIOUS
  <2>1. RxSuspendClose
    BY <1>1, OnlyRxCloses DEF LinkInv
  <2>2. HasTx("rx")
    BY <2>1 DEF RxSuspendClose, Goto, HasTx, RxHasTx
  <2>3. \A p \in Places : HasTx(p) <=> p = "rx"
    BY <1>1, <2>2, TxAlone DEF Places
  <2>4. ~txBusy
    BY <2>3 DEF HasTx, Places
  <2>5. \A w \in Writers : writer[w] # "writing"
    BY <2>3, WritersAssumption DEF HasTx, Places
  <2> QED
    BY <2>4, <2>5
<1> QED
  BY <1>1, LinkInvariant, OneTxInvariant, PTL DEF Spec, CloseCutsNoWrite

----------------------------------------------------------------------------
(* Waiting for bytes.                                                      *)

(* The receive task never waits for bytes with no read armed and no post   *)
(* pending.                                                                *)
THEOREM NeverDeafInvariant == Spec => []NeverDeaf
<1>1. Init => NeverDeaf
  BY DEF Init, NeverDeaf
<1>2. ASSUME LinkInv, NeverDeaf, [Next]_vars
      PROVE  NeverDeaf'
  <2> USE <1>2 DEF NeverDeaf, vars, rxVars, bootVars, outVars, semVars,
                   uartVars, Goto
  <2>1. CASE RxRunRead
    <3>1. uartOpen
      BY <2>1 DEF RxRunRead, LinkInv, ActiveInv
    <3> QED
      BY <2>1, <3>1, Zenon DEF RxRunRead
  <2>2. CASE RxRuns /\ ~RxRunRead
    <3>1. rxPc' # "runPend"
      BY <2>2 DEF RxRuns, RxSwitch, RxInitSet, RxWrites, RxWrite, RxResume,
                  cmd_openUart, RxPostTx, RxResumeEnd, RxRunClear, RxRunPend,
                  RxRunCheck, RxSuspend, RxSuspendClose, RxSuspendQuiet,
                  RxSuspendHold, LinkInv, TypeOK
    <3> QED
      BY <3>1
  <2>3. CASE RxTakesTx
    BY <2>3 DEF RxTakesTx, RxPendTx
  <2>4. CASE \/ cmd_MRDYHandler \/ uart_readCallBack \/ uart_writeCallBack
             \/ CmdTaskWakes \/ UNCHANGED vars
    BY <2>4 DEF cmd_MRDYHandler, uart_readCallBack, uart_writeCallBack,
                CmdTaskWakes
  <2>5. CASE \E w \in Writers : WriterNext(w)
    BY <2>5 DEF WriterNext, WriterCalls, WriterTakesTx, WriterWrites,
                WriterTimesOut
  <2> QED
    BY <2>1, <2>2, <2>3, <2>4, <2>5 DEF Next
<1> QED
  BY <1>1, <1>2, LinkInvariant, PTL DEF Spec

----------------------------------------------------------------------------
(* Boot order.                                                             *)

(* CMD_INIT runs first, if no MRDY edge beats it.                          *)
RingInv == cmdRxBuf \/ (cmdState = "INIT" /\ rxPc = "switch")

(* With no early edge the port is never worked without its ring buffer.    *)
THEOREM RingBeforeUseInvariant == EarlyEdge = FALSE /\ Spec => []RingBeforeUse
<1> SUFFICES ASSUME EarlyEdge = FALSE
             PROVE  Spec => []RingBeforeUse
  OBVIOUS
<1>1. Init => RingInv
  BY DEF Init, RingInv
<1>2. ASSUME LinkInv, RingInv, [Next]_vars
      PROVE  RingInv'
  <2> USE <1>2 DEF RingInv, LinkInv, TypeOK, vars, rxVars, bootVars, outVars,
                   semVars, uartVars, Goto
  <2>1. CASE RxRuns
    BY <2>1 DEF RxRuns, RxSwitch, RxInitSet, RxWrites, RxWrite, RxResume,
                cmd_openUart, RxPostTx, RxResumeEnd, RxRunClear, RxRunRead,
                RxRunPend, RxRunCheck, RxSuspend, RxSuspendClose,
                RxSuspendQuiet, RxSuspendHold
  <2>2. CASE RxTakesTx
    BY <2>2 DEF RxTakesTx, RxPendTx
  <2>3. CASE cmd_MRDYHandler
    BY <2>3 DEF cmd_MRDYHandler
  <2>4. CASE uart_readCallBack \/ uart_writeCallBack \/ CmdTaskWakes
             \/ UNCHANGED vars
    BY <2>4 DEF uart_readCallBack, uart_writeCallBack, CmdTaskWakes
  <2>5. CASE \E w \in Writers : WriterNext(w)
    BY <2>5 DEF WriterNext, WriterCalls, WriterTakesTx, WriterWrites,
                WriterTimesOut
  <2> QED
    BY <2>1, <2>2, <2>3, <2>4, <2>5 DEF Next
<1>3. RingInv => RingBeforeUse
  BY DEF RingInv, RingBeforeUse
<1> QED
  BY <1>1, <1>2, <1>3, LinkInvariant, PTL DEF Spec

----------------------------------------------------------------------------
(* The debounced input.                                                    *)

(* Every variable of the debounced input keeps its type.                   *)
THEOREM GpioInTypeCorrect == GpioInSpec => []GpioInTypeOK
<1>1. GpioInInit => GpioInTypeOK
  BY DEF GpioInInit, GpioInTypeOK, Levels
<1>2. GpioInTypeOK /\ [GpioInNext]_gpioVars => GpioInTypeOK'
  <2> SUFFICES ASSUME GpioInTypeOK, [GpioInNext]_gpioVars PROVE GpioInTypeOK'
    OBVIOUS
  <2> USE DEF GpioInTypeOK, Levels
  <2>1. CASE LineChanges
    BY <2>1 DEF LineChanges
  <2>2. CASE gpioin_IntCallback
    BY <2>2 DEF gpioin_IntCallback
  <2>3. CASE Util_startClock
    BY <2>3 DEF Util_startClock
  <2>4. CASE gpioin_MRDYChangeHandler
    BY <2>4 DEF gpioin_MRDYChangeHandler
  <2>5. CASE UNCHANGED gpioVars
    BY <2>5 DEF gpioVars
  <2>6. QED
    BY <2>1, <2>2, <2>3, <2>4, <2>5 DEF GpioInNext
<1>3. QED
  BY <1>1, <1>2, PTL DEF GpioInSpec

(* A level other than the one reported is always going to be looked at:    *)
(* gpioin_IntCallback and the debounce clock lose no edge between them.    *)
THEOREM SettledIsSeenInvariant == GpioInSpec => []SettledIsSeen
<1>1. GpioInInit => SettledIsSeen
  BY DEF GpioInInit, SettledIsSeen
<1>2. SettledIsSeen /\ [GpioInNext]_gpioVars => SettledIsSeen'
  <2> SUFFICES ASSUME SettledIsSeen, [GpioInNext]_gpioVars PROVE SettledIsSeen'
    OBVIOUS
  <2>1. CASE LineChanges        \* the edge is latched
    BY <2>1 DEF LineChanges, SettledIsSeen
  <2>2. CASE gpioin_IntCallback \* the callback starts the clock, or need not
    BY <2>2 DEF gpioin_IntCallback, SettledIsSeen
  <2>3. CASE Util_startClock
    BY <2>3 DEF Util_startClock, SettledIsSeen
  <2>4. CASE gpioin_MRDYChangeHandler
    BY <2>4 DEF gpioin_MRDYChangeHandler, SettledIsSeen
  <2>5. CASE UNCHANGED gpioVars
    BY <2>5 DEF gpioVars, SettledIsSeen
  <2>6. QED
    BY <2>1, <2>2, <2>3, <2>4, <2>5 DEF GpioInNext
<1>3. QED
  BY <1>1, <1>2, PTL DEF GpioInSpec

----------------------------------------------------------------------------
(* Link and input together.                                                *)

(* Only the MRDY handler changes the level the link knows.                 *)
LEMMA LinkKeepsMrdy == LinkSteps => UNCHANGED mrdy
<1> USE DEF LinkSteps, Goto
<1>1. CASE RxRuns
  BY <1>1 DEF RxRuns, RxSwitch, RxInitSet, RxWrites, RxWrite, RxResume,
              cmd_openUart, RxPostTx, RxResumeEnd, RxRunClear, RxRunRead,
              RxRunPend, RxRunCheck, RxSuspend, RxSuspendClose,
              RxSuspendQuiet, RxSuspendHold
<1>2. CASE RxTakesTx
  BY <1>2 DEF RxTakesTx, RxPendTx
<1>3. CASE uart_readCallBack \/ uart_writeCallBack \/ CmdTaskWakes
  BY <1>3 DEF uart_readCallBack, uart_writeCallBack, CmdTaskWakes
<1>4. CASE \E w \in Writers : WriterNext(w)
  BY <1>4 DEF WriterNext, WriterCalls, WriterTakesTx, WriterWrites, WriterTimesOut
<1> QED
  BY <1>1, <1>2, <1>3, <1>4

(* Behind the debounced line the link is the link of CmdLink: every step   *)
(* of the whole is one of cmd.c's or leaves the link alone.                *)
THEOREM ImplementsCmdLink == MrdySpec => Spec
<1>1. MrdyInit => Init
  BY DEF MrdyInit
<1>2. [MrdyNext]_<<vars, pinVars>> => [Next]_vars
  BY DEF MrdyNext, LinkSteps, MrdyReports, MrdyBounced, Next
<1> QED
  BY <1>1, <1>2, PTL DEF MrdySpec, Spec

(* The input is the input of GpioIn: no step of the link touches it, and   *)
(* cmd_MRDYHandler runs only in the debounce clock's handler.              *)
THEOREM ImplementsGpioIn == MrdySpec => GpioInSpec
<1>1. MrdyInit => GpioInInit
  BY DEF MrdyInit
<1>2. [MrdyNext]_<<vars, pinVars>> => [GpioInNext]_gpioVars
  <2> SUFFICES ASSUME [MrdyNext]_<<vars, pinVars>>
               PROVE  [GpioInNext]_gpioVars
    OBVIOUS
  <2> USE DEF gpioVars, pinVars
  <2>1. CASE LinkSteps /\ UNCHANGED pinVars
    BY <2>1, LinkKeepsMrdy
  <2>2. CASE PinSteps /\ UNCHANGED vars
    BY <2>2 DEF PinSteps, GpioInNext
  <2>3. CASE MrdyReports \/ MrdyBounced
    BY <2>3 DEF MrdyReports, MrdyBounced, GpioInNext
  <2>4. CASE UNCHANGED <<vars, pinVars>>
    BY <2>4 DEF vars
  <2> QED
    BY <2>1, <2>2, <2>3, <2>4 DEF MrdyNext
<1> QED
  BY <1>1, <1>2, PTL DEF MrdySpec, GpioInSpec

(* In the composition too a level of MRDY that the link does not know of   *)
(* is going to be looked at, however the link and the line interleave.     *)
THEOREM SettledIsSeenByLink == MrdySpec => []SettledIsSeen
  BY ImplementsGpioIn, SettledIsSeenInvariant, PTL

(* Behind the debounced line too, the right to transmit is in one place,   *)
(* writes and the states of the port are powered, the task is never deaf,  *)
(* and closing the UART cuts no write.                                     *)
THEOREM LinkBehindMrdy ==
  MrdySpec => /\ [](OneTx /\ WritesArePowered /\ RunServesHeldSleeps /\ NeverDeaf)
              /\ CloseCutsNoWrite
<1>1. Spec => CloseCutsNoWrite
  BY CloseCutsNoWriteHolds
<1> QED
  BY <1>1, ImplementsCmdLink, OneTxInvariant, WritesArePoweredInvariant,
     RunServesInvariant, NeverDeafInvariant, PTL

(* With no early edge the composed system never works the port without its *)
(* ring buffer.                                                            *)
THEOREM RingBeforeUseBehindMrdy == EarlyEdge = FALSE /\ MrdySpec => []RingBeforeUse
<1>1. EarlyEdge = FALSE /\ Spec => []RingBeforeUse
  BY RingBeforeUseInvariant
<1> QED
  BY <1>1, ImplementsCmdLink, PTL
=============================================================================

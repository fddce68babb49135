------------------------------ MODULE CmdLink ------------------------------
(***************************************************************************)
(* The serial link of the command port (Source/Application/cmd/cmd.c, the  *)
(* POWER_SAVING build): the receive task cmd_taskRxFxn and its state       *)
(* machine cmdState, the MRDY handler that the GPIO debounce clock calls   *)
(* from a software interrupt, the two UART callbacks, and the other tasks  *)
(* (command task, key pad task, BLE application task) that write to the    *)
(* same UART through cmd_write, Log_writeStr and Log_printf.               *)
(*                                                                         *)
(* A step is one statement between two points where another task, a        *)
(* software interrupt or a hardware interrupt can change what it reads.    *)
(* Bytes are abstracted to their number; the text of the log lines is left *)
(* out, the writes themselves are not.                                     *)
(***************************************************************************)
EXTENDS Naturals

CONSTANTS
  Writers,   \* the tasks other than the receive task that write to the UART
  MaxRx,     \* the size of the receive buffer, UART_RX_BUF_SIZE
  EarlyEdge  \* TRUE if the debounce clock can report an MRDY edge before the
             \* receive task has taken its first step after boot

ASSUME WritersAssumption == Writers \intersect {"sem", "uart", "rx"} = {}
ASSUME MaxRxAssumption == MaxRx \in Nat \ {0}
ASSUME EarlyEdgeAssumption == EarlyEdge \in BOOLEAN

VARIABLES
  mrdy,                \* debounced level of the host's MRDY line
  cmdState,            \* the shared state word
  rxPc,                \* control point of cmd_taskRxFxn
  remRdy_state,        \* MRDY as CMD_INIT sampled it
  cmdRxBuf,            \* the ring buffer has been made
  cmdActive,           \* the UART is open, as the receive task remembers it
  cmdPMSetConstraint,  \* the power constraints are set
  srdy,                \* SRDY is asserted (active low: the pin is 0)
  cmdTxSem, cmdRxSem, cmdSBSem, cmdCmdSem,  \* binary semaphores
  cmdRxSize,           \* bytes of the last completed UART_read
  uartOpen, reading, txBusy,   \* the UART driver: open, UART_read and
                               \* UART_write in progress
  writer               \* control point of each of Writers

bootVars == <<remRdy_state, cmdRxBuf>>
rxVars == <<cmdState, rxPc, bootVars, cmdActive>>
semVars == <<cmdTxSem, cmdRxSem, cmdSBSem, cmdCmdSem>>
uartVars == <<cmdRxSize, uartOpen, reading, txBusy>>
outVars == <<cmdPMSetConstraint, srdy>>
vars == <<mrdy, rxVars, outVars, semVars, uartVars, writer>>

CmdStates == {"INIT", "RESUME", "RUN", "SUSPEND"}

InitPcs == {"switch", "initSet"}
ResumePcs == {"resume", "resumeOpen", "resumePost", "resumeLog",
              "resumeWrite", "resumeEnd"}
RunPcs == {"runLog", "runWrite", "runClear", "runRead", "runPend", "runCheck"}
SuspendPcs == {"suspend", "suspendLog", "suspendWrite", "suspendTake",
               "suspendClose", "suspendQuiet", "held"}
RxPcs == InitPcs \cup ResumePcs \cup RunPcs \cup SuspendPcs

Init ==
  /\ mrdy \in {"low", "high"}
  /\ cmdState = "INIT" /\ rxPc = "switch" /\ remRdy_state = "high"
  /\ cmdRxBuf = FALSE /\ cmdActive = FALSE /\ cmdPMSetConstraint = FALSE
  /\ srdy = TRUE          \* GpioOut_initPins drives the pin low
  /\ cmdTxSem = 0 /\ cmdRxSem = 0 /\ cmdSBSem = 0 /\ cmdCmdSem = 0
  /\ cmdRxSize = 0
  /\ uartOpen = FALSE /\ reading = FALSE /\ txBusy = FALSE
  /\ writer = [w \in Writers |-> "idle"]

----------------------------------------------------------------------------
(* Idioms of the receive task.                                             *)

Goto(from, to) == rxPc = from /\ rxPc' = to

(* Semaphore_pend(cmdTxSem, UART_WAIT_FOREVER) by the receive task.        *)
RxPendTx(from, to) ==
  /\ Goto(from, to)
  /\ cmdTxSem = 1 /\ cmdTxSem' = 0
  /\ UNCHANGED <<mrdy, cmdState, bootVars, cmdActive, outVars, cmdRxSem,
                 cmdSBSem, cmdCmdSem, uartVars, writer>>

(* UART_write in callback mode: refused unless the driver is open and idle. *)
UART_write == txBusy' = (txBusy \/ uartOpen)

RxWrite(from, to) ==
  /\ Goto(from, to)
  /\ UART_write
  /\ UNCHANGED <<mrdy, cmdState, bootVars, cmdActive, outVars, semVars,
                 cmdRxSize, uartOpen, reading, writer>>

----------------------------------------------------------------------------
(* cmd_taskRxFxn.                                                          *)

(* Slip: the ring buffer is made in the branch of CMD_INIT that resumes.   *)
RxSwitchLateRing ==
  /\ rxPc = "switch"
  /\ rxPc' = CASE cmdState = "INIT" -> "initSet"
               [] cmdState = "RESUME" -> "resume"
               [] cmdState = "RUN" -> "runLog"
               [] cmdState = "SUSPEND" -> "suspend"
  /\ remRdy_state' = IF cmdState = "INIT" THEN mrdy ELSE remRdy_state
  /\ cmdRxBuf' = (cmdRxBuf \/ (cmdState = "INIT" /\ mrdy = "low"))
  /\ UNCHANGED <<mrdy, cmdState, cmdActive, outVars, semVars, uartVars, writer>>

(* switch(cmdState); CMD_INIT makes the ring buffer and samples MRDY.      *)
RxSwitch ==
  /\ rxPc = "switch"
  /\ rxPc' = CASE cmdState = "INIT" -> "initSet"
               [] cmdState = "RESUME" -> "resume"
               [] cmdState = "RUN" -> "runLog"
               [] cmdState = "SUSPEND" -> "suspend"
  /\ remRdy_state' = IF cmdState = "INIT" THEN mrdy ELSE remRdy_state
  /\ cmdRxBuf' = (cmdRxBuf \/ cmdState = "INIT")
  /\ UNCHANGED <<mrdy, cmdState, cmdActive, outVars, semVars, uartVars,
                 writer>>

RxInitSet ==
  /\ Goto("initSet", "switch")
  /\ cmdState' = IF remRdy_state = "low" THEN "RESUME" ELSE "SUSPEND"
  /\ cmdPMSetConstraint' = (cmdPMSetConstraint \/ remRdy_state = "low")
  /\ UNCHANGED <<mrdy, bootVars, cmdActive, srdy, semVars, uartVars, writer>>

(* Slip: CMD_RESUME opens the UART again though it is open.                *)
RxResumeReopens ==
  /\ Goto("resume", "resumeOpen")
  /\ cmdPMSetConstraint' = TRUE
  /\ UNCHANGED <<mrdy, cmdState, bootVars, cmdActive, srdy, semVars, uartVars,
                 writer>>

(* CMD_RESUME: cmd_setPM, then open the UART unless it is already open.    *)
RxResume ==
  /\ rxPc = "resume"
  /\ cmdPMSetConstraint' = TRUE
  /\ rxPc' = IF cmdActive THEN "resumeLog" ELSE "resumeOpen"
  /\ UNCHANGED <<mrdy, cmdState, bootVars, cmdActive, srdy, semVars,
                 uartVars, writer>>

cmd_openUart ==
  /\ Goto("resumeOpen", "resumePost")
  /\ uartOpen' = TRUE /\ reading' = FALSE /\ txBusy' = FALSE
  /\ UNCHANGED <<mrdy, cmdState, bootVars, cmdActive, outVars, semVars,
                 cmdRxSize, writer>>

RxPostTx ==
  /\ Goto("resumePost", "resumeLog")
  /\ cmdTxSem' = 1 /\ cmdActive' = TRUE
  /\ UNCHANGED <<mrdy, cmdState, bootVars, outVars, cmdRxSem, cmdSBSem,
                 cmdCmdSem, uartVars, writer>>

(* SRDY_ENABLE(); cmdState = CMD_RUN, whatever the MRDY handler wrote.     *)
RxResumeEnd ==
  /\ Goto("resumeEnd", "switch")
  /\ srdy' = TRUE
  /\ cmdState' = "RUN"
  /\ UNCHANGED <<mrdy, bootVars, cmdActive, cmdPMSetConstraint, semVars,
                 uartVars, writer>>

RxRunClear ==
  /\ Goto("runClear", "runRead")
  /\ cmdRxSize' = 0
  /\ UNCHANGED <<mrdy, cmdState, bootVars, cmdActive, outVars, semVars,
                 uartOpen, reading, txBusy, writer>>

(* UART_read: arms a read, or is refused because one is already in progress. *)
RxRunRead ==
  /\ Goto("runRead", "runPend")
  /\ reading' = uartOpen
  /\ UNCHANGED <<mrdy, cmdState, bootVars, cmdActive, outVars, semVars,
                 cmdRxSize, uartOpen, txBusy, writer>>

RxRunPend ==
  /\ Goto("runPend", "runCheck")
  /\ cmdRxSem = 1 /\ cmdRxSem' = 0
  /\ UNCHANGED <<mrdy, cmdState, bootVars, cmdActive, outVars, cmdTxSem,
                 cmdSBSem, cmdCmdSem, uartVars, writer>>

(* Hands the bytes, if any, to the ring buffer and wakes the command task. *)
RxRunCheck ==
  /\ Goto("runCheck", "switch")
  /\ cmdCmdSem' = IF cmdRxSize > 0 THEN 1 ELSE cmdCmdSem
  /\ UNCHANGED <<mrdy, cmdState, bootVars, cmdActive, outVars, cmdTxSem,
                 cmdRxSem, cmdSBSem, uartVars, writer>>

(* Slip: CMD_SUSPEND lets the module sleep before the UART is closed.      *)
RxSuspendSleepsFirst ==
  /\ rxPc = "suspend"
  /\ rxPc' = IF cmdActive THEN "suspendLog" ELSE "suspendQuiet"
  /\ cmdPMSetConstraint' = FALSE
  /\ UNCHANGED <<mrdy, cmdState, bootVars, cmdActive, srdy, semVars, uartVars,
                 writer>>

RxSuspend ==
  /\ rxPc = "suspend"
  /\ rxPc' = IF cmdActive THEN "suspendLog" ELSE "suspendQuiet"
  /\ UNCHANGED <<mrdy, cmdState, bootVars, cmdActive, outVars, semVars,
                 uartVars, writer>>

(* cmd_closeUart ends a read in progress, whose callback then never runs.  *)
RxSuspendClose ==
  /\ Goto("suspendClose", "suspendQuiet")
  /\ uartOpen' = FALSE /\ reading' = FALSE /\ txBusy' = FALSE
  /\ cmdActive' = FALSE
  /\ UNCHANGED <<mrdy, cmdState, bootVars, outVars, semVars, cmdRxSize,
                 writer>>

(* Slip: the power constraints are kept.                                   *)
RxSuspendStaysAwake ==
  /\ Goto("suspendQuiet", "held")
  /\ srdy' = FALSE
  /\ UNCHANGED <<mrdy, cmdState, bootVars, cmdActive, cmdPMSetConstraint,
                 semVars, uartVars, writer>>

(* SRDY_DISABLE(); cmd_relPM().                                            *)
RxSuspendQuiet ==
  /\ Goto("suspendQuiet", "held")
  /\ srdy' = FALSE
  /\ cmdPMSetConstraint' = FALSE
  /\ UNCHANGED <<mrdy, cmdState, bootVars, cmdActive, semVars, uartVars,
                 writer>>

RxSuspendHold ==
  /\ Goto("held", "switch")
  /\ cmdSBSem = 1 /\ cmdSBSem' = 0
  /\ UNCHANGED <<mrdy, cmdState, bootVars, cmdActive, outVars, cmdTxSem,
                 cmdRxSem, cmdCmdSem, uartVars, writer>>

RxTakesTx ==
  \/ RxPendTx("resumeLog", "resumeWrite")
  \/ RxPendTx("runLog", "runWrite")
  \/ RxPendTx("suspendLog", "suspendWrite")
  \/ RxPendTx("suspendTake", "suspendClose")

(* Slip: the UART is closed without taking cmdTxSem first.                 *)
RxWritesNoHold ==
  \/ RxWrite("resumeWrite", "resumeEnd")
  \/ RxWrite("runWrite", "runClear")
  \/ RxWrite("suspendWrite", "suspendClose")

RxWrites ==
  \/ RxWrite("resumeWrite", "resumeEnd")
  \/ RxWrite("runWrite", "runClear")
  \/ RxWrite("suspendWrite", "suspendTake")

(* Every step of the receive task but its pends on cmdTxSem.               *)
RxRuns ==
  \/ RxSwitch \/ RxInitSet \/ RxWrites
  \/ RxResume \/ cmd_openUart \/ RxPostTx \/ RxResumeEnd
  \/ RxRunClear \/ RxRunRead \/ RxRunPend \/ RxRunCheck
  \/ RxSuspend \/ RxSuspendClose \/ RxSuspendQuiet \/ RxSuspendHold

----------------------------------------------------------------------------
(* The interrupts.                                                         *)

(* Slips of the MRDY handler: it posts neither cmdSBSem nor cmdRxSem.  *)
cmd_MRDYHandlerNoPost ==
  /\ EarlyEdge \/ cmdState # "INIT" \/ rxPc # "switch"
  /\ \/ mrdy = "high" /\ mrdy' = "low" /\ cmdState' = "RESUME"
     \/ mrdy = "low" /\ mrdy' = "high" /\ cmdState' = "SUSPEND"
  /\ UNCHANGED <<rxPc, bootVars, cmdActive, outVars, semVars, uartVars, writer>>

(* The host drives MRDY low, to talk, or high; the debounce clock calls the *)
(* handler.                                                                *)
cmd_MRDYHandler ==
  /\ EarlyEdge \/ cmdState # "INIT" \/ rxPc # "switch"
  /\ \/ /\ mrdy = "high" /\ mrdy' = "low"      \* GPIOIN_EVT_MRDY_DOWN
        /\ cmdState' = "RESUME"
        /\ cmdSBSem' = 1 /\ UNCHANGED cmdRxSem
     \/ /\ mrdy = "low" /\ mrdy' = "high"      \* GPIOIN_EVT_MRDY_UP
        /\ cmdState' = "SUSPEND"
        /\ cmdRxSem' = 1 /\ UNCHANGED cmdSBSem
  /\ UNCHANGED <<rxPc, bootVars, cmdActive, outVars, cmdTxSem, cmdCmdSem,
                 uartVars, writer>>

(* Slip of the read callback: no post. *)
uart_readCallBackNoPost ==
  /\ reading /\ reading' = FALSE
  /\ \E size \in 1..MaxRx : cmdRxSize' = size
  /\ UNCHANGED <<mrdy, rxVars, outVars, semVars, uartOpen, txBusy, writer>>

uart_readCallBack ==
  /\ reading /\ reading' = FALSE
  /\ \E size \in 1..MaxRx : cmdRxSize' = size
  /\ cmdRxSem' = 1
  /\ UNCHANGED <<mrdy, rxVars, outVars, cmdTxSem, cmdSBSem, cmdCmdSem,
                 uartOpen, txBusy, writer>>

(* Slip: the write callback forgets to post.                               *)
uart_writeCallBackNoPost ==
  /\ txBusy /\ txBusy' = FALSE
  /\ UNCHANGED <<mrdy, rxVars, outVars, semVars, cmdRxSize, uartOpen, reading,
                 writer>>

uart_writeCallBack ==
  /\ txBusy /\ txBusy' = FALSE
  /\ cmdTxSem' = 1
  /\ UNCHANGED <<mrdy, rxVars, outVars, cmdRxSem, cmdSBSem, cmdCmdSem,
                 cmdRxSize, uartOpen, reading, writer>>

----------------------------------------------------------------------------
(* The other tasks.                                                        *)

(* A task calls cmd_write, which waits for ever, or a Log_ function, which *)
(* waits LOG_WRITE_WAIT.                                                   *)
WriterCalls(w) ==
  /\ writer[w] = "idle"
  /\ \E wait \in {"forever", "timed"} : writer' = [writer EXCEPT ![w] = wait]
  /\ UNCHANGED <<mrdy, rxVars, outVars, semVars, uartVars>>

WriterTakesTx(w) ==
  /\ writer[w] \in {"forever", "timed"}
  /\ cmdTxSem = 1 /\ cmdTxSem' = 0
  /\ writer' = [writer EXCEPT ![w] = "writing"]
  /\ UNCHANGED <<mrdy, rxVars, outVars, cmdRxSem, cmdSBSem, cmdCmdSem,
                 uartVars>>

WriterWrites(w) ==
  /\ writer[w] = "writing"
  /\ UART_write
  /\ writer' = [writer EXCEPT ![w] = "idle"]
  /\ UNCHANGED <<mrdy, rxVars, outVars, semVars, cmdRxSize, uartOpen,
                 reading>>

(* Slip: a log line that timed out gives back what it never had.           *)
WriterTimesOutPosts(w) ==
  /\ writer[w] = "timed"
  /\ writer' = [writer EXCEPT ![w] = "idle"]
  /\ cmdTxSem' = 1
  /\ UNCHANGED <<mrdy, rxVars, outVars, cmdRxSem, cmdSBSem, cmdCmdSem,
                 uartVars>>

(* Semaphore_pend times out: the log line is given up with UART_ERROR.     *)
WriterTimesOut(w) ==
  /\ writer[w] = "timed"
  /\ writer' = [writer EXCEPT ![w] = "idle"]
  /\ UNCHANGED <<mrdy, rxVars, outVars, semVars, uartVars>>

(* cmd_taskFxn leaves its pend on cmdCmdSem.                               *)
CmdTaskWakes ==
  /\ cmdCmdSem = 1 /\ cmdCmdSem' = 0
  /\ UNCHANGED <<mrdy, rxVars, outVars, cmdTxSem, cmdRxSem, cmdSBSem,
                 uartVars, writer>>

WriterNext(w) ==
  WriterCalls(w) \/ WriterTakesTx(w) \/ WriterWrites(w) \/ WriterTimesOut(w)

Next ==
  \/ RxRuns
  \/ RxTakesTx
  \/ cmd_MRDYHandler
  \/ uart_readCallBack
  \/ uart_writeCallBack
  \/ \E w \in Writers : WriterNext(w)
  \/ CmdTaskWakes

(* Tasks that can run do run, the driver ends every write it accepted, and *)
(* a semaphore serves its waiting tasks in the order they came, so a task  *)
(* that waits on cmdTxSem is not passed over for ever.  The host owes      *)
(* nothing: neither MRDY edges nor bytes.                                  *)
Fairness ==
  /\ WF_vars(RxRuns)
  /\ SF_vars(RxTakesTx)
  /\ WF_vars(uart_writeCallBack)
  /\ \A w \in Writers :
       /\ SF_vars(WriterTakesTx(w))
       /\ WF_vars(WriterWrites(w))
       /\ WF_vars(WriterTimesOut(w))

Spec == Init /\ [][Next]_vars

----------------------------------------------------------------------------
(* Properties.                                                             *)

(* Every variable has its type.                                            *)
TypeOK ==
  /\ mrdy \in {"low", "high"} /\ remRdy_state \in {"low", "high"}
  /\ cmdState \in CmdStates /\ rxPc \in RxPcs
  /\ cmdRxBuf \in BOOLEAN /\ cmdActive \in BOOLEAN
  /\ cmdPMSetConstraint \in BOOLEAN /\ srdy \in BOOLEAN
  /\ cmdTxSem \in {0, 1} /\ cmdRxSem \in {0, 1}
  /\ cmdSBSem \in {0, 1} /\ cmdCmdSem \in {0, 1}
  /\ cmdRxSize \in 0..MaxRx
  /\ uartOpen \in BOOLEAN /\ reading \in BOOLEAN /\ txBusy \in BOOLEAN
  /\ writer \in [Writers -> {"idle", "forever", "timed", "writing"}]

(* Where the right to transmit is: in the semaphore, with a write that the *)
(* driver has under way, with the receive task (which also keeps it while  *)
(* the UART is closed), or with a task between its pend and UART_write.    *)
RxHasTx ==
  ~cmdActive \/ rxPc \in {"resumeWrite", "runWrite", "suspendWrite",
                          "suspendClose"}

HasTx(p) ==
  \/ p = "sem" /\ cmdTxSem = 1
  \/ p = "uart" /\ txBusy
  \/ p = "rx" /\ RxHasTx
  \/ p \in Writers /\ writer[p] = "writing"

Places == Writers \cup {"sem", "uart", "rx"}

(* The right to transmit is in exactly one place at all times: no post of  *)
(* cmdTxSem is absorbed because it is already 1, none is lost in a task    *)
(* that gave up, and no two tasks pass the pend together.                  *)
OneTx ==
  /\ \E p \in Places : HasTx(p)
  /\ \A p, q \in Places : HasTx(p) /\ HasTx(q) => p = q

(* A write is under way, or about to be started by another task, only with *)
(* the UART open and the module kept out of standby.                       *)
WritesArePowered ==
  (txBusy \/ \E w \in Writers : writer[w] = "writing")
    => uartOpen /\ cmdPMSetConstraint

(* While the receive task is in CMD_RUN the port really serves: UART open, *)
(* SRDY asserted, standby forbidden; while it is held waiting for MRDY     *)
(* nothing is left on: UART closed, no read, SRDY released, standby        *)
(* allowed.                                                                *)
RunServesHeldSleeps ==
  /\ rxPc \in RunPcs => uartOpen /\ srdy /\ cmdPMSetConstraint
  /\ rxPc = "held" =>
       ~uartOpen /\ ~reading /\ ~txBusy /\ ~srdy /\ ~cmdPMSetConstraint

(* The receive task never waits for bytes with no read armed and no wakeup *)
(* pending, however MRDY edges and callbacks interleave.                   *)
NeverDeaf == rxPc = "runPend" => reading \/ cmdRxSem = 1

(* Closing the UART never cuts a write: not one under way, and not one     *)
(* another task has already won the semaphore for.                         *)
CloseCutsNoWrite ==
  [][uartOpen /\ ~uartOpen' =>
       ~txBusy /\ \A w \in Writers : writer[w] # "writing"]_vars

(* The receive task works on the port only when its ring buffer exists.    *)
(* cmdState starts as CMD_INIT and the MRDY handler overwrites it, so this *)
(* needs EarlyEdge = FALSE.                                                *)
RingBeforeUse == rxPc \in ResumePcs \cup RunPcs => cmdRxBuf

(* A release of MRDY that reaches the receive task outside CMD_INIT and    *)
(* CMD_RESUME puts the port to sleep, or the host asks for it again first. *)
SuspendIsServed ==
  (cmdState = "SUSPEND" /\ rxPc \in {"switch"} \cup RunPcs \cup SuspendPcs)
    ~> (rxPc = "held" \/ mrdy = "low")

(* A task in cmd_write gets its turn while the port stays up.              *)
WriterIsServed ==
  \A w \in Writers :
    writer[w] = "forever" ~> (writer[w] # "forever" \/ ~cmdActive)
=============================================================================

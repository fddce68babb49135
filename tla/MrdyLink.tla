------------------------------ MODULE MrdyLink ------------------------------
(***************************************************************************)
(* The command port's link and the input that wakes it: CmdLink with the   *)
(* host's raw MRDY line, debounced by GpioIn.  cmd_MRDYHandler runs inside *)
(* the debounce clock's handler, and CmdLink's mrdy is the level last      *)
(* reported.                                                               *)
(***************************************************************************)
EXTENDS CmdLink

VARIABLES line, edge, starting, clock

INSTANCE GpioIn WITH curr <- mrdy

pinVars == <<line, edge, starting, clock>>

MrdyInit == Init /\ GpioInInit

LinkSteps ==
  \/ RxRuns \/ RxTakesTx \/ uart_readCallBack \/ uart_writeCallBack \/ CmdTaskWakes
  \/ \E w \in Writers : WriterNext(w)

PinSteps == LineChanges \/ gpioin_IntCallback \/ Util_startClock

(* The level has changed: GPIOIN_EVT_MRDY_DOWN or _UP goes to the link.    *)
MrdyReports == gpioin_MRDYChangeHandler /\ cmd_MRDYHandler

MrdyBounced == gpioin_MRDYChangeHandler /\ UNCHANGED vars

MrdyNext ==
  \/ LinkSteps /\ UNCHANGED pinVars
  \/ PinSteps /\ UNCHANGED vars
  \/ MrdyReports
  \/ MrdyBounced

(* The interrupt and the clock are served; the host owes nothing.          *)
MrdySpec ==
  /\ MrdyInit /\ [][MrdyNext]_<<vars, pinVars>>
  /\ Fairness
  /\ WF_gpioVars(gpioin_IntCallback) /\ WF_gpioVars(Util_startClock)
  /\ WF_gpioVars(MrdyReports \/ MrdyBounced)

----------------------------------------------------------------------------
(* Properties.                                                             *)

(* A host that pulls MRDY low once the port is past CMD_INIT, and holds    *)
(* it, gets a port in CMD_RUN, however the line bounced before.            *)
HostIsServed ==
  (line = "low" /\ mrdy = "high" /\ rxPc \notin InitPcs)
    ~> (rxPc \in RunPcs \/ line = "high")
=============================================================================

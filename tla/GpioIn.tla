------------------------------- MODULE GpioIn -------------------------------
(***************************************************************************)
(* The debounced MRDY input (gpio/gpio_in.c).  Both edges of the line      *)
(* interrupt; the PIN driver's callback starts a one-shot clock when the   *)
(* level differs from the one reported last, and the clock's handler       *)
(* reports the level it then finds.  A clock preempts the callback.        *)
(*                                                                         *)
(* The line is external: it may change, and bounce, at any moment.  An     *)
(* edge during the callback is latched and calls it again.  Durations are  *)
(* left out: a running clock fires at some time.                           *)
(***************************************************************************)

VARIABLES
  line,     \* level of the pin
  edge,     \* an interrupt is latched
  starting, \* gpioin_IntCallback is about to start the clock
  clock,    \* the debounce clock runs
  curr      \* gpioInStatus[GPIOIN_MRDY].curr, as last reported

gpioVars == <<line, edge, starting, clock, curr>>

Levels == {"low", "high"}

(* Interrupts stay disabled from GpioIn_initPins to BIOS_start.            *)
GpioInInit ==
  /\ line \in Levels /\ curr = line
  /\ edge = FALSE /\ starting = FALSE /\ clock = FALSE

LineChanges ==
  /\ line' \in Levels \ {line} /\ edge' = TRUE
  /\ UNCHANGED <<starting, clock, curr>>

gpioin_IntCallback ==
  /\ edge /\ ~starting /\ edge' = FALSE
  /\ starting' = (curr # line)
  /\ UNCHANGED <<line, clock, curr>>

Util_startClock ==
  /\ starting /\ starting' = FALSE /\ clock' = TRUE
  /\ UNCHANGED <<line, edge, curr>>

(* Slip: the level is taken to be the other one, not read again.           *)
MRDYChangeHandlerFlips ==
  /\ clock /\ clock' = FALSE
  /\ curr' \in Levels \ {curr}
  /\ UNCHANGED <<line, edge, starting>>

(* The registered handler is called if curr changes.                       *)
gpioin_MRDYChangeHandler ==
  /\ clock /\ clock' = FALSE
  /\ curr' = line
  /\ UNCHANGED <<line, edge, starting>>

GpioInNext ==
  LineChanges \/ gpioin_IntCallback \/ Util_startClock \/ gpioin_MRDYChangeHandler

GpioInSpec == GpioInInit /\ [][GpioInNext]_gpioVars

(* Every variable has its type.                                            *)
GpioInTypeOK ==
  /\ line \in Levels /\ curr \in Levels
  /\ edge \in BOOLEAN /\ starting \in BOOLEAN /\ clock \in BOOLEAN

(* The reported level is that of the line, or an interrupt, the callback   *)
(* or the clock will still look at it: no bounce between the read of the   *)
(* pin and the start of the clock is lost.                                 *)
SettledIsSeen == curr # line => edge \/ starting \/ clock
=============================================================================

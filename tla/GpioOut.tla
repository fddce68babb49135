------------------------------ MODULE GpioOut -------------------------------
(***************************************************************************)
(* The output pins and their blinking (gpio/gpio_out.c).  GpioOut_set and  *)
(* GpioOut_blink are called by tasks; gpioOut_BlinkHandler is the handler  *)
(* of the one clock that serves all pins, and preempts them.               *)
(*                                                                         *)
(* Time is kept in milliseconds, computed as the 32-bit product            *)
(* Clock_getTicks() * Clock_tickPeriod divided by 1000: it starts again    *)
(* from 0 after Wrap milliseconds, 2^32 / 1000 of them.                    *)
(***************************************************************************)
EXTENDS Integers, FiniteSets

CONSTANTS
  Led,       \* the output pins
  Wrap,      \* the millisecond after which time starts again
  LeftSize,  \* values of the byte that counts blinks
  Calls      \* arguments of GpioOut_blink: <<numBlinks, percent, period>>

VARIABLES
  now,      \* milliseconds, as the code computes them
  running, due,  \* the clock: started, and milliseconds until it fires
  mode,     \* mode bits of each pin
  left, onPct, time, next,
  on,       \* the pin is driven active
  caller    \* GpioOut_blink is about to restart the clock

clockVars == <<now, running, due>>
table == <<mode, left, onPct, time, next>>
vars == <<clockVars, table, on, caller>>

Init ==
  /\ now \in 0..Wrap - 1 /\ running = FALSE /\ due = 0
  /\ mode = [l \in Led |-> {}] /\ left = [l \in Led |-> 0]
  /\ onPct = [l \in Led |-> 0] /\ time = [l \in Led |-> 0]
  /\ next = [l \in Led |-> 0]
  /\ on = [l \in Led |-> TRUE]   \* initPins drives them low, which is active
  /\ caller = "idle"

Tick ==
  /\ running => due > 0
  /\ now' = (now + 1) % Wrap
  /\ due' = IF running THEN due - 1 ELSE due
  /\ UNCHANGED <<running, table, on, caller>>

(* gpioOut_onOff: only the mode ON itself is on.                           *)
gpioOut_onOff(bits) == bits = {"ON"}

SetTo(ids, bits) ==
  /\ mode' = [l \in Led |-> IF l \in ids THEN bits[l] ELSE mode[l]]
  /\ on' = [l \in Led |-> IF l \in ids THEN gpioOut_onOff(bits[l]) ELSE on[l]]
  /\ UNCHANGED <<clockVars, left, onPct, time, next, caller>>

On == [l \in Led |-> {"ON"}]
Off == [l \in Led |-> {}]
Toggled ==
  [l \in Led |-> IF "ON" \in mode[l] THEN mode[l] \ {"ON"} ELSE mode[l] \cup {"ON"}]

GpioOut_set(ids) ==
  /\ caller = "idle"
  /\ \E bits \in {On, Off, Toggled} : SetTo(ids, bits)

(* GpioOut_blink up to Util_stopClock.                                     *)
GpioOut_blink(ids, numBlinks, percent, period) ==
  /\ caller = "idle"
  /\ IF ids = {} \/ percent = 0 \/ period = 0 THEN SetTo(ids, Off)
     ELSE IF percent >= 100 THEN SetTo(ids, On)
     ELSE LET Put(f, v) == [l \in Led |-> IF l \in ids THEN v ELSE f[l]]
          IN  /\ mode' = Put(mode, {"BLINK"} \cup IF numBlinks = 0 THEN {"FLASH"} ELSE {})
              /\ time' = Put(time, period) /\ onPct' = Put(onPct, percent)
              /\ left' = Put(left, numBlinks) /\ next' = Put(next, now)
              /\ caller' = "restart"
              /\ UNCHANGED <<clockVars, on>>

(* Util_stopClock, Util_restartClock(0).                                   *)
BlinkRestarts ==
  /\ caller = "restart" /\ caller' = "idle"
  /\ running' = TRUE /\ due' = 0
  /\ UNCHANGED <<now, table, on>>

----------------------------------------------------------------------------
(* gpioOut_BlinkHandler.                                                   *)

Due(l) == "BLINK" \in mode[l] /\ now >= next[l]
TurnsOff(l) == Due(l) /\ "ON" \in mode[l]
Ends(l) == Due(l) /\ ~TurnsOff(l) /\ left[l] = 0 /\ "FLASH" \notin mode[l]
TurnsOn(l) == Due(l) /\ ~TurnsOff(l) /\ ~Ends(l)

Wait(l) ==
  CASE TurnsOff(l) -> ((100 - onPct[l]) * time[l]) \div 100
    [] TurnsOn(l)  -> (onPct[l] * time[l]) \div 100
    [] Ends(l)     -> 0
    [] OTHER       -> next[l] - now

(* The clock is restarted for the shortest wait that is not 0.             *)
gpioOut_BlinkHandler ==
  /\ running /\ due = 0
  /\ mode' = [l \in Led |-> CASE TurnsOff(l) -> mode[l] \ {"ON"}
                              [] TurnsOn(l)  -> mode[l] \cup {"ON"}
                              [] Ends(l)     -> mode[l] \ {"BLINK"}
                              [] OTHER       -> mode[l]]
  /\ left' = [l \in Led |-> IF TurnsOff(l) /\ "FLASH" \notin mode[l]
                            THEN (left[l] - 1) % LeftSize ELSE left[l]]
  /\ on' = [l \in Led |-> ~TurnsOff(l) /\ (TurnsOn(l) \/ on[l])]
  /\ next' = [l \in Led |-> IF TurnsOff(l) \/ TurnsOn(l) THEN now + Wait(l) ELSE next[l]]
  /\ LET waits == {Wait(l) : l \in {k \in Led : "BLINK" \in mode[k]}} \ {0}
     IN  IF waits = {} THEN running' = FALSE /\ UNCHANGED due
         ELSE running' = TRUE /\ due' \in {w \in waits : \A v \in waits : w <= v}
  /\ UNCHANGED <<now, onPct, time, caller>>

Next ==
  \/ Tick \/ BlinkRestarts \/ gpioOut_BlinkHandler
  \/ \E ids \in SUBSET Led :
       \/ GpioOut_set(ids)
       \/ \E c \in Calls : GpioOut_blink(ids, c[1], c[2], c[3])

(* Time passes and the clock fires when it is due.                         *)
Spec ==
  /\ Init /\ [][Next]_vars
  /\ WF_vars(Tick) /\ WF_vars(gpioOut_BlinkHandler) /\ WF_vars(BlinkRestarts)

----------------------------------------------------------------------------
(* Properties.                                                             *)

(* A pin that blinks and is on goes off again; "gpioOut_BlinkHandler       *)
(* should have no problem" (cc2640 note.txt:49).  Violated: next is        *)
(* computed past the last millisecond before the wrap, and no time is ever *)
(* as late again.                                                          *)
BlinkGoesOn ==
  \A l \in Led :
    ({"BLINK", "ON"} \subseteq mode[l]) ~> ~({"BLINK", "ON"} \subseteq mode[l])
=============================================================================

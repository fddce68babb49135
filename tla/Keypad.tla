------------------------------- MODULE Keypad -------------------------------
(***************************************************************************)
(* Key presses become codes (keypad/kp.c, and the key line of gpio_in.c):  *)
(* the falling edge of the key line starts a debounce clock; when it fires *)
(* with the line still low, transSem is posted; the keypad task then reads *)
(* the key over I2C, logs it, stores it, and steps a state machine that    *)
(* recognises three kinds of code.                                         *)
(*                                                                         *)
(* The keyboard is external: its line is low while a key is held, and I2C  *)
(* reads the key held.  A log write blocks the task, for up to 50 ms each  *)
(* while the command port is asleep: keys may change meanwhile.            *)
(***************************************************************************)
EXTENDS Naturals, Sequences

CONSTANTS
  Key,         \* keys of the keyboard
  KP_MAX_INPUT \* size of the input buffer

None == "none"

ASSUME KeyAssumption == {"*", "#"} \subseteq Key /\ None \notin Key
ASSUME InputAssumption == KP_MAX_INPUT \in Nat /\ KP_MAX_INPUT >= 3

(* Keys kp_KeyMap knows; it does not know KEY_8.                           *)
MappedDigit == Key \cap {"0", "1", "2", "3", "4", "5", "6", "7", "9"}
Mapped == MappedDigit \cup {"*", "#"}

VARIABLES
  key,         \* the key held, or None
  answered,    \* history: the task has read since the press
  clock,       \* the debounce clock runs
  transSem,    \* binary semaphore
  pc,          \* kp_taskRxFxn: "pend", "read", "log", "report"
  got,         \* the key it works on
  inputBuf,
  inputState,
  report       \* the last code reported, and its keys

environment == <<key, answered, clock>>
input == <<got, inputBuf, inputState, report>>
vars == <<environment, transSem, pc, input>>

Init ==
  /\ key = None /\ answered = FALSE /\ clock = FALSE /\ transSem = 0
  /\ pc = "pend" /\ got = None /\ inputBuf = <<>> /\ inputState = "IDLE"
  /\ report = [code |-> "none", keys |-> <<>>]

----------------------------------------------------------------------------
(* The keyboard and its line.                                              *)

(* gpioin_IntCallback, on a falling edge.                                  *)
FallingEdge == clock' = (key' # None)

Presses ==
  /\ key = None /\ key' \in Key /\ answered' = FALSE /\ FallingEdge
  /\ UNCHANGED <<transSem, pc, input>>

Bounces ==
  /\ key # None /\ UNCHANGED <<key, answered>> /\ FallingEdge
  /\ UNCHANGED <<transSem, pc, input>>

Releases ==
  /\ key # None /\ key' = None
  /\ UNCHANGED <<answered, clock, transSem, pc, input>>

(* The debounce clock fires; kp_intHandler posts.                          *)
gpioin_KPIntChangeHandler ==
  /\ clock /\ clock' = FALSE
  /\ transSem' = IF key # None THEN 1 ELSE transSem
  /\ UNCHANGED <<key, answered, pc, input>>

----------------------------------------------------------------------------
(* The state machine.                                                      *)

(* Slip: a star inside a customer code is ignored.                         *)
CodeProcessLax(state, k) ==
  CASE state = "IDLE" /\ k \in MappedDigit -> "CUS_START"
    [] state = "IDLE" /\ k = "*" -> "MNM_CMD_START"
    [] state = "CUS_START" /\ k = "#" -> "CUS_DONE"
    [] state = "CUS_START" -> "CUS_START"
    [] state = "MNM_CMD_START" /\ k \in MappedDigit -> "MNM_START"
    [] state = "MNM_CMD_START" /\ k = "#" -> "CMD_START"
    [] state = "MNM_START" /\ k = "#" -> "MNM_DONE"
    [] state = "CMD_START" /\ k = "#" -> "CMD_DONE"
    [] state \in {"MNM_START", "CMD_START"} /\ k \in MappedDigit -> state
    [] OTHER -> "ERROR"

kp_CodeProcess(state, k) ==
  CASE state = "IDLE" /\ k \in MappedDigit -> "CUS_START"
    [] state = "IDLE" /\ k = "*" -> "MNM_CMD_START"
    [] state = "CUS_START" /\ k = "#" -> "CUS_DONE"
    [] state = "MNM_CMD_START" /\ k \in MappedDigit -> "MNM_START"
    [] state = "MNM_CMD_START" /\ k = "#" -> "CMD_START"
    [] state = "MNM_START" /\ k = "#" -> "MNM_DONE"
    [] state = "CMD_START" /\ k = "#" -> "CMD_DONE"
    [] state \in {"CUS_START", "MNM_START", "CMD_START"} /\ k \in MappedDigit -> state
    [] OTHER -> "ERROR"

(* The code a state reports, if any.                                       *)
CodeOf(state) ==
  CASE state = "CUS_DONE" -> "CUS"
    [] state = "MNM_DONE" -> "MNM"
    [] state = "CMD_DONE" -> "CMD"
    [] state = "ERROR" -> "ERROR"
    [] OTHER -> "none"

(* Slip: the size is not checked.                                          *)
PushKeyUnchecked(k) == [buf |-> Append(inputBuf, k), ok |-> TRUE]

(* The last place of the buffer is for a "#".                              *)
kp_PushKey(k) ==
  IF Len(inputBuf) < KP_MAX_INPUT
  THEN [buf |-> Append(inputBuf, k), ok |-> Len(inputBuf) + 1 < KP_MAX_INPUT \/ k = "#"]
  ELSE [buf |-> inputBuf, ok |-> FALSE]

----------------------------------------------------------------------------
(* kp_taskRxFxn, in KP_RUN.                                                *)

KpTakes ==
  /\ pc = "pend" /\ transSem = 1 /\ transSem' = 0 /\ pc' = "read"
  /\ UNCHANGED <<environment, input>>

(* I2C_transfer fails, or reads the key held; without a key it knows the   *)
(* task pends again.                                                       *)
KpReads ==
  /\ pc = "read" /\ answered' = TRUE
  /\ \/ pc' = "pend" /\ UNCHANGED got
     \/ key \in Mapped /\ pc' = "log" /\ got' = key
  /\ UNCHANGED <<key, clock, transSem, inputBuf, inputState, report>>

(* After the log of kp_KeyMap: the key is stored and the machine steps.    *)
KpSteps ==
  /\ pc = "log"
  /\ LET pushed == kp_PushKey(got)
         state == IF pushed.ok THEN kp_CodeProcess(inputState, got) ELSE inputState
         code == IF pushed.ok THEN CodeOf(state) ELSE "ERROR"
     IN  /\ inputBuf' = pushed.buf /\ inputState' = state
         /\ IF code = "none" THEN pc' = "pend" /\ UNCHANGED report
            ELSE pc' = "report" /\ report' = [code |-> code, keys |-> pushed.buf]
  /\ UNCHANGED <<environment, transSem, got>>

(* Slip: presses made during the report are forgotten too.                 *)
KpClearsAll ==
  /\ pc = "report" /\ pc' = "pend" /\ transSem' = 0
  /\ inputBuf' = <<>> /\ inputState' = "IDLE"
  /\ UNCHANGED <<environment, got, report>>

(* After the two logs of a report: KP_CLEAR_INPUTBUFF.                     *)
KpClears ==
  /\ pc = "report" /\ pc' = "pend"
  /\ inputBuf' = <<>> /\ inputState' = "IDLE"
  /\ UNCHANGED <<environment, transSem, got, report>>

KpTask == KpTakes \/ KpReads \/ KpSteps \/ KpClears

Next == Presses \/ Bounces \/ Releases \/ gpioin_KPIntChangeHandler \/ KpTask

(* The clock fires and the task runs; the user owes nothing.               *)
Spec ==
  /\ Init /\ [][Next]_vars
  /\ WF_vars(gpioin_KPIntChangeHandler) /\ WF_vars(KpTask)

----------------------------------------------------------------------------
(* Properties.                                                             *)

(* Every variable has its type; the buffer keeps to its size.              *)
TypeOK ==
  /\ key \in Key \cup {None} /\ answered \in BOOLEAN /\ clock \in BOOLEAN
  /\ transSem \in {0, 1} /\ pc \in {"pend", "read", "log", "report"}
  /\ got \in Mapped \cup {None}
  /\ inputBuf \in Seq(Mapped) /\ Len(inputBuf) <= KP_MAX_INPUT
  /\ inputState \in {"IDLE", "CUS_START", "MNM_CMD_START", "MNM_START", "CMD_START",
                     "CUS_DONE", "MNM_DONE", "CMD_DONE", "ERROR"}
  /\ report.code \in {"none", "CUS", "MNM", "CMD", "ERROR"}
  /\ report.keys \in Seq(Mapped)

(* The three kinds of code (kp.c:99-102): 000000#, *000000#, *#000000#.    *)
AreDigits(s, from, to) == \A i \in from..to : s[i] \in MappedDigit

IsCode(s) ==
  IF Len(s) < 2 \/ s[Len(s)] # "#" THEN "none"
  ELSE CASE AreDigits(s, 1, Len(s) - 1) -> "CUS"
         [] Len(s) > 2 /\ s[1] = "*" /\ AreDigits(s, 2, Len(s) - 1) -> "MNM"
         [] Len(s) > 2 /\ s[1] = "*" /\ s[2] = "#" /\ AreDigits(s, 3, Len(s) - 1) -> "CMD"
         [] OTHER -> "none"

(* Keys that a code may begin with.                                        *)
IsStart(s) ==
  \/ AreDigits(s, 1, Len(s))
  \/ s[1] = "*" /\ AreDigits(s, 2, Len(s))
  \/ Len(s) >= 2 /\ s[1] = "*" /\ s[2] = "#" /\ AreDigits(s, 3, Len(s))

(* A code is reported exactly when the keys are one, and an error only     *)
(* when they cannot become one in the buffer's 20 places.                  *)
ReportIsRight ==
  /\ report.code \in {"CUS", "MNM", "CMD"} => report.code = IsCode(report.keys)
  /\ report.code = "ERROR" =>
       /\ IsCode(report.keys) = "none"
       /\ ~IsStart(report.keys) \/ Len(report.keys) = KP_MAX_INPUT

(* While the task waits, the keys in the buffer are the beginning of a     *)
(* code that still has room to end.                                        *)
WaitsOnlyForCodes ==
  pc = "pend" => Len(inputBuf) < KP_MAX_INPUT /\ (inputBuf # <<>> => IsStart(inputBuf))

(* A key that is held comes to be read, however long the task was busy.    *)
PressIsAnswered == (key # None /\ ~answered) ~> (key = None \/ answered)
=============================================================================

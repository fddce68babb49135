------------------------------- MODULE CustNV -------------------------------
(***************************************************************************)
(* The lock's parameters (cust_nv.c) and who changes them: AT commands     *)
(* (cmd.c, command task), writes over BLE (doorlockservice.c, run by the   *)
(* stack's task), and the application task that saves after a BLE write    *)
(* (MB2640A.c).  custParas is the working copy, custNV its image, which    *)
(* osal_snv_write puts into flash.                                         *)
(*                                                                         *)
(* Command and application task have the same priority and para_write does *)
(* not block, so their saves exclude each other.  The stack's task has a   *)
(* higher one: a BLE write may fall between any two steps of a save.       *)
(* osal_snv_write is served by that task, in one piece.                    *)
(*                                                                         *)
(* The code copies the parameters one by one, the PIN character by         *)
(* character, when it sets them and when it packs them into the image: a   *)
(* step moves one cell, a digit of the PIN or another parameter.  A PIN is *)
(* the number its digits write, NotDigits four other characters; the other *)
(* parameters are the bytes the code stores.  The engineer mode, FALSE     *)
(* throughout, is left out.  The CRC is sound.                             *)
(***************************************************************************)
EXTENDS Params

CONSTANTS
  Cell,        \* digits of the PIN and other parameters in use
  AtSets,      \* what set commands ask for, pairs <<parameter, number>>
  BlePins,     \* PINs written over BLE
  BleParas,    \* values written to the parameter characteristic
  Orders,      \* which operand of | CustNV_restore evaluates first
  MaxMsgs      \* room for messages to the application task

Digit == {"pin1", "pin2", "pin3", "pin4"}
CellsOf(p) == Cell \cap (IF p = "pin" THEN Digit ELSE {p})

NotADigit == 10

(* A character of a PIN.                                                   *)
DigitOf(pin, c) ==
  CASE pin = NotDigits -> NotADigit
    [] pin # NotDigits /\ c = "pin1" -> (pin \div 1000) % 10
    [] pin # NotDigits /\ c = "pin2" -> (pin \div 100) % 10
    [] pin # NotDigits /\ c = "pin3" -> (pin \div 10) % 10
    [] OTHER -> pin % 10

(* What cell c holds when its parameter is the number n.                   *)
InCell(c, n) == IF c \in Digit THEN DigitOf(n, c) ELSE n

LegalIn(c) == IF c \in Digit THEN 0..9 ELSE Legal(c)
DefaultIn(c) == IF c \in Digit THEN DigitOf(Default("pin"), c) ELSE Default(c)

Image == [Cell -> 0..255]
LegalImage == {f \in Image : \A c \in Cell : f[c] \in LegalIn(c)}

Defaults == [c \in Cell |-> DefaultIn(c)]
Zero == [c \in Cell |-> 0]
Never == [c \in {} |-> 0]         \* flash that has never been written

ParaOf(paras) == [c \in Cell \ Digit |-> paras[c]]

ASSUME CellAssumption == Cell \subseteq Digit \cup (AllParam \ {"pin"})
ASSUME AtAssumption ==
  \A s \in AtSets : /\ s[1] \in AllParam /\ CellsOf(s[1]) # {} /\ s[2] \in Int
                    /\ s[1] = "pin" => s[2] \in Pin
ASSUME BleAssumption ==
  /\ BlePins \subseteq DigitPin
  /\ \A b \in BleParas : \A c \in Cell \ Digit : b[c] \in Legal(c)
ASSUME OrdersAssumption == Orders \subseteq {"restore", "write"} /\ Orders # {}
ASSUME MsgsAssumption == MaxMsgs \in Nat

VARIABLES
  custParas,   \* the working copy
  custNV,      \* its image in RAM
  flash,       \* what osal_snv_read would read
  para,        \* the BLE service's copy, without the PIN
  msgs,        \* SBP_CHAR_CHANGE_EVT messages to the application task
  pc,          \* the setting, saving or restoring under way, "idle" if none
  left,        \* cells it has yet to set or to copy
  call,        \* who asked for it, and what for
  answer,      \* the last answer to a set command
  recent,      \* history: per cell, values custParas had during the save
  owed,        \* history: values since the last save that reached flash began
  behind       \* history: flash may differ from custParas with nothing under way

ram == <<custParas, custNV, para>>
save == <<pc, left, call>>
vars == <<ram, flash, msgs, save, answer, recent, owed, behind>>

(* The save begins when custParas is checked, what is set is set by then.  *)
Saving == pc \in {"check", "write", "flash"}

(* custParas becomes paras.                                                *)
Set(paras) ==
  /\ custParas' = paras
  /\ owed' = [c \in Cell |-> owed[c] \cup {paras[c]}]

Begin(at, cells, by, p, raw) ==
  /\ pc' = at /\ left' = cells
  /\ call' = [by |-> by, p |-> p, raw |-> raw]

SaveBegins == recent' = [c \in Cell |-> {custParas'[c]}]

NoCall == [by |-> "none", p |-> "pin", raw |-> 0]
NoAnswer == [p |-> "pin", raw |-> 0, ok |-> FALSE, snvFailed |-> TRUE]

(* The host is told of a set command's outcome.                            *)
Answer(c, ok, snvFailed) ==
  answer' = IF c.by = "set"
            THEN [p |-> c.p, raw |-> c.raw, ok |-> ok, snvFailed |-> snvFailed]
            ELSE answer

(* The save is over; a restore ends with DoorLock_InitParameter.  Flash is *)
(* left behind by a failure, and by a restore that wrote it first.         *)
Finish(ok, snvFailed) ==
  /\ pc' = "idle" /\ left' = {} /\ call' = NoCall
  /\ para' = IF call.by \in {"restore", "write", "wrote"} THEN ParaOf(custParas) ELSE para
  /\ Answer(call, ok, snvFailed)
  /\ owed' = IF ok /\ call.by # "wrote" THEN recent ELSE owed
  /\ recent' = [c \in Cell |-> {}]
  /\ behind' = (behind \/ ~ok \/ call.by = "wrote")

----------------------------------------------------------------------------
(* Boot.                                                                   *)

(* The order in which para_read and para_restore take the parameters.      *)
Rank(c) ==
  CASE c = "pin1" -> 1 [] c = "pin2" -> 2 [] c = "pin3" -> 3 [] c = "pin4" -> 4
    [] c = "dataMode" -> 5 [] c = "timeZone" -> 6
    [] c = "motorMode" -> 7 [] c = "motorDrvTime" -> 8
    [] c = "officeMode" -> 9 [] c = "officeTime" -> 10 [] c = "hbInterval" -> 11

(* para_read stops at the first one that is out of range, which it does    *)
(* not take.                                                               *)
para_read(image) ==
  [c \in Cell |->
     IF \A d \in Cell : Rank(d) <= Rank(c) => image[d] \in LegalIn(d)
     THEN image[c] ELSE Zero[c]]

(* What CustNV_restore leaves in flash at the first boot, custNV all zero. *)
FirstWrites ==
  {Never} \cup (IF "restore" \in Orders THEN {Defaults} ELSE {})
          \cup (IF "write" \in Orders THEN {Zero} ELSE {})

(* Nothing has been saved yet.                                             *)
FirstOwed(now, paras) ==
  [c \in Cell |-> {paras[c]} \cup (IF now = Never THEN {} ELSE {now[c]})]

(* CustNV_init; DoorLock_AddService copies the parameters afterwards.      *)
CustNV_init(stored, now) ==
  /\ flash' = now
  /\ custNV' = IF stored = Never THEN Defaults ELSE stored
  /\ custParas' = para_read(custNV')
  /\ para' = ParaOf(custParas')
  /\ msgs' = 0 /\ pc' = "idle" /\ left' = {} /\ call' = NoCall /\ answer' = NoAnswer
  /\ recent' = [c \in Cell |-> {}]
  /\ owed' = FirstOwed(now, custParas')
  /\ behind' = (now # custParas')

Init ==
  /\ flash \in FirstWrites
  /\ custNV = Defaults /\ custParas = Defaults /\ para = ParaOf(Defaults)
  /\ msgs = 0 /\ pc = "idle" /\ left = {} /\ call = NoCall /\ answer = NoAnswer
  /\ recent = [c \in Cell |-> {}] /\ owed = FirstOwed(flash, Defaults)
  /\ behind = (flash # Defaults)

(* The lock loses power, at any point, and starts again.                   *)
Restart ==
  \/ flash # Never /\ CustNV_init(flash, flash)
  \/ flash = Never /\ \E now \in FirstWrites : CustNV_init(Never, now)

----------------------------------------------------------------------------
(* Set commands.                                                           *)

AtSet(p, raw) ==
  /\ pc = "idle"
  /\ IF Accepts(p, raw)
     THEN /\ Begin("set", CellsOf(p), "set", p, raw)
          /\ UNCHANGED answer
     ELSE /\ Answer([by |-> "set", p |-> p, raw |-> raw], FALSE, FALSE)
          /\ UNCHANGED save
  /\ UNCHANGED <<ram, flash, msgs, recent, owed, behind>>

(* The setter, or para_restore, changes the working copy before it is      *)
(* known to be saved, one cell at a time.                                  *)
SetCell ==
  /\ pc = "set"
  /\ \E c \in left :
       /\ \A d \in left : Rank(c) <= Rank(d)
       /\ Set([custParas EXCEPT ![c] = IF call.by = "set"
                                      THEN InCell(c, Stored(call.p, call.raw))
                                      ELSE DefaultIn(c)])
       /\ left' = left \ {c}
  /\ \/ left' # {} /\ UNCHANGED <<pc, recent>>
     \/ left' = {} /\ pc' = "check" /\ SaveBegins
  /\ UNCHANGED <<custNV, para, flash, msgs, call, answer, behind>>

----------------------------------------------------------------------------
(* CustNV_save, by the command task or the application task.               *)

SimpleBLEPeripheral_processCharValueChangeEvt ==
  /\ pc = "idle" /\ msgs > 0
  /\ msgs' = msgs - 1
  /\ UNCHANGED <<ram, flash, answer, owed, behind>>
  /\ Begin("check", {}, "app", "pin", 0) /\ SaveBegins

(* Slip: the ranges are not checked.                                       *)
SaveCheckNothing ==
  /\ pc = "check" /\ pc' = "write" /\ left' = Cell
  /\ UNCHANGED <<ram, flash, msgs, call, answer, recent, owed, behind>>

(* para_write refuses values out of range and PINs with other characters.  *)
(* BLE writes bring only legal values, so whichever they fall between, it  *)
(* decides as if it looked at all cells at once.                           *)
SaveCheck ==
  /\ pc = "check"
  /\ \/ /\ \A c \in Cell : custParas[c] \in LegalIn(c)
        /\ pc' = "write" /\ left' = Cell
        /\ UNCHANGED <<call, para, answer, recent, owed, behind>>
     \/ /\ \E c \in Cell : custParas[c] \notin LegalIn(c)
        /\ Finish(FALSE, FALSE)
  /\ UNCHANGED <<custParas, custNV, flash, msgs>>

(* The digits of the PIN are packed in their order, then byte after byte;  *)
(* C leaves open which parameter of a byte is read first.                  *)
Turn(c) == IF c \in Digit THEN Rank(c) ELSE 3 + Section(c)

CopyCell(copied) ==
  /\ pc = "write"
  /\ \E c \in left :
       /\ \A d \in left : Turn(c) <= Turn(d)
       /\ custNV' = [custNV EXCEPT ![c] = IF c \in copied THEN custParas[c] ELSE @]
       /\ IF left # {c}
          THEN /\ left' = left \ {c}
               /\ UNCHANGED <<pc, call, para, answer, recent, owed, behind>>
          ELSE IF call.by \in {"write", "wrote"}
          THEN Finish(call.by = "wrote", call.by = "write")
          ELSE /\ pc' = "flash" /\ left' = {}
               /\ UNCHANGED <<call, para, answer, recent, owed, behind>>
  /\ UNCHANGED <<custParas, flash, msgs>>

(* Slip: the motor's drive time is forgotten.                              *)
SaveWriteMisses == CopyCell(Cell \ {"motorDrvTime"})

(* ... copies one cell into the image, the CRC with the last one ...       *)
SaveWrite == CopyCell(Cell)

(* Slip: the result of osal_snv_write is ignored.                          *)
SaveFlashTrusts ==
  /\ pc = "flash" /\ call.by # "write"
  /\ flash' \in {flash, custNV}
  /\ Finish(TRUE, FALSE)
  /\ UNCHANGED <<custParas, custNV, msgs>>

(* ... and osal_snv_write puts the image into flash, or fails.             *)
SaveFlash ==
  /\ pc = "flash" /\ call.by # "write"
  /\ \/ flash' = custNV /\ Finish(TRUE, FALSE)
     \/ flash' = flash /\ Finish(FALSE, TRUE)
  /\ UNCHANGED <<custParas, custNV, msgs>>

----------------------------------------------------------------------------
(* CustNV_restore, on the command AT+RESTORE.  C leaves open which operand *)
(* of para_restore(..) | osal_snv_write(..) comes first.                   *)

AtRestore ==
  /\ pc = "idle"
  /\ \/ "restore" \in Orders /\ Begin("set", Cell, "restore", "pin", 0)
     \/ "write" \in Orders /\ Begin("flash", {}, "write", "pin", 0)
  /\ UNCHANGED <<ram, flash, msgs, answer, recent, owed, behind>>

(* The flash written first; para_restore follows, then para_write.         *)
RestoreFlash ==
  /\ pc = "flash" /\ call.by = "write"
  /\ \/ flash' = custNV /\ call' = [call EXCEPT !.by = "wrote"]
     \/ UNCHANGED <<flash, call>>
  /\ pc' = "set" /\ left' = Cell
  /\ UNCHANGED <<ram, msgs, answer, recent, owed, behind>>

----------------------------------------------------------------------------
(* Slip: the application task is not told while a save is under way.       *)
EnqueueMsgWhenIdle ==
  \/ UNCHANGED behind /\ msgs' = IF pc = "idle" /\ msgs < MaxMsgs THEN msgs + 1 ELSE msgs
  \/ msgs' = msgs /\ behind' = TRUE

(* Writes over BLE (doorLock_WriteAttrCB), already found valid, and the    *)
(* message to the application task, lost when there is no memory for it.   *)

EnqueueMsg ==
  \/ msgs < MaxMsgs /\ msgs' = msgs + 1 /\ UNCHANGED behind
  \/ msgs' = msgs /\ behind' = TRUE

BleSet(paras) ==
  /\ Set(paras)
  /\ recent' = IF Saving THEN [c \in Cell |-> recent[c] \cup {paras[c]}] ELSE recent
  /\ EnqueueMsg
  /\ UNCHANGED <<custNV, flash, save, answer>>

BleWritePin(pin) ==
  /\ BleSet([c \in Cell |-> IF c \in Digit THEN DigitOf(pin, c) ELSE custParas[c]])
  /\ UNCHANGED para

BleWritePara(b) ==
  /\ BleSet([c \in Cell |-> IF c \in Digit THEN custParas[c] ELSE b[c]])
  /\ para' = b

BleWrites == (\E pin \in BlePins : BleWritePin(pin)) \/ (\E b \in BleParas : BleWritePara(b))

----------------------------------------------------------------------------
Asks == AtRestore \/ \E s \in AtSets : AtSet(s[1], s[2])

Save == SetCell \/ SaveCheck \/ SaveWrite \/ SaveFlash \/ RestoreFlash

Next ==
  \/ Restart \/ Asks \/ BleWrites
  \/ SimpleBLEPeripheral_processCharValueChangeEvt \/ Save

(* The tasks run; nobody owes a command, a BLE write or a power cut.       *)
Spec ==
  /\ Init /\ [][Next]_vars
  /\ WF_vars(Save) /\ WF_vars(SimpleBLEPeripheral_processCharValueChangeEvt)

----------------------------------------------------------------------------
(* Properties.                                                             *)

(* Every variable has its type; at most MaxMsgs messages wait.             *)
TypeOK ==
  /\ custParas \in Image /\ custNV \in Image /\ flash \in Image \cup {Never}
  /\ \A c \in Cell \ Digit : para[c] \in 0..255
  /\ msgs \in 0..MaxMsgs
  /\ pc \in {"idle", "set", "check", "write", "flash"} /\ left \subseteq Cell
  /\ call.by \in {"none", "set", "app", "restore", "write", "wrote"}
  /\ answer.ok \in BOOLEAN /\ behind \in BOOLEAN

(* Flash never holds a value outside the ranges of the NV map in           *)
(* cust_nv.h, whatever was asked for and wherever power fails: an image    *)
(* goes there only after para_write has checked it.  Only the first boot   *)
(* can leave something else, custNV all zero.                              *)
FlashInRange == flash \in FirstWrites \cup LegalImage

(* What an answer OK promises: after a save that succeeded, flash holds    *)
(* for each digit of the PIN and each other parameter a value custParas    *)
(* had when the save was under way or later, so no restart brings back an  *)
(* older one.  It says no more: a PIN that arrives over BLE while another  *)
(* one is packed, or set, leaves digits of both, an OK notwithstanding.    *)
(* (A restore that wrote flash first is answered OK too, but saves         *)
(* nothing.)                                                               *)
OkIsDurable == flash = Never \/ \A c \in Cell : flash[c] \in owed[c]

(* BLE writes may fall into a save and leave a mixture of old and new in   *)
(* flash; but once the application task has no message left, and nothing   *)
(* failed, flash is what custParas is.                                     *)
QuietIsSaved == pc = "idle" /\ msgs = 0 /\ ~behind => flash = custParas

(* When commands, BLE writes and power cuts come to an end, flash catches  *)
(* up with custParas, unless a save failed or a message was lost.          *)
Undisturbed == <>[][~(Restart \/ Asks \/ BleWrites)]_vars
FlashCatchesUp == Undisturbed => <>[](behind \/ flash = custParas)

----------------------------------------------------------------------------
(* What documents and comments say and the code does not do.               *)

(* The parameters can be read over BLE (note of 20170419): once a set      *)
(* command is answered OK and nothing is under way, the characteristic     *)
(* shows the values in use.                                                *)
BleReadsCurrent == pc = "idle" /\ answer.ok => para = ParaOf(custParas)

(* A number inside the format is refused only if the flash write failed.   *)
InRangeIsAccepted ==
  answer.raw \in Format(answer.p) => answer.ok \/ answer.snvFailed
=============================================================================

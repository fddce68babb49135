---------------------------- MODULE CustNVProofs ----------------------------
(***************************************************************************)
(* Proofs about CustNV, for any parameters, commands, BLE writes and room  *)
(* for messages: types, what may be in flash, what an OK promises, and     *)
(* that a quiet lock has saved its parameters.                             *)
(***************************************************************************)
EXTENDS CustNV, TLAPS

(* A character of a PIN fits a byte; of a PIN of digits it is a digit.     *)
LEMMA DigitFacts ==
  ASSUME NEW pin \in Pin, NEW c \in Digit
  PROVE  /\ DigitOf(pin, c) \in 0..255
         /\ pin \in DigitPin => DigitOf(pin, c) \in 0..9
<1>1. CASE pin = NotDigits
  BY <1>1 DEF DigitOf, NotADigit, NotDigits, DigitPin
<1>2. CASE pin # NotDigits
  <2>1. pin \in 0..9999
    BY <1>2 DEF Pin, DigitPin
  <2>2. CASE c = "pin1"
    <3>1. DigitOf(pin, c) = (pin \div 1000) % 10
      BY <1>2, <2>2 DEF DigitOf
    <3> QED
      BY <2>1, <3>1
  <2>3. CASE c = "pin2"
    <3>1. DigitOf(pin, c) = (pin \div 100) % 10
      BY <1>2, <2>3 DEF DigitOf
    <3> QED
      BY <2>1, <3>1
  <2>4. CASE c = "pin3"
    <3>1. DigitOf(pin, c) = (pin \div 10) % 10
      BY <1>2, <2>4 DEF DigitOf
    <3> QED
      BY <2>1, <3>1
  <2>5. CASE c = "pin4"
    <3>1. DigitOf(pin, c) = pin % 10
      BY <1>2, <2>5 DEF DigitOf
    <3> QED
      BY <2>1, <3>1
  <2> QED
    BY <2>2, <2>3, <2>4, <2>5 DEF Digit
<1> QED
  BY <1>1, <1>2

(* The tables of parameters fit together.                                  *)
LEMMA ParamFacts ==
  ASSUME NEW p \in AllParam \ {"pin"}
  PROVE  Legal(p) \subseteq 0..255 /\ Default(p) \in Legal(p)
<1>1. CASE p = "dataMode"
  <2>1. Legal(p) = 0..2
    BY <1>1 DEF Legal
  <2>2. Default(p) = 0
    BY <1>1 DEF Default
  <2> QED
    BY <2>1, <2>2
<1>2. CASE p = "timeZone"
  <2>1. Legal(p) = (0..12) \cup (241..252)
    BY <1>2 DEF Legal
  <2>2. Default(p) = 8
    BY <1>2 DEF Default
  <2> QED
    BY <2>1, <2>2
<1>3. CASE p = "motorMode"
  <2>1. Legal(p) = 0..1
    BY <1>3 DEF Legal
  <2>2. Default(p) = 0
    BY <1>3 DEF Default
  <2> QED
    BY <2>1, <2>2
<1>4. CASE p = "motorDrvTime"
  <2>1. Legal(p) = 4..127
    BY <1>4 DEF Legal
  <2>2. Default(p) = 4
    BY <1>4 DEF Default
  <2> QED
    BY <2>1, <2>2
<1>5. CASE p = "officeMode"
  <2>1. Legal(p) = 0..1
    BY <1>5 DEF Legal
  <2>2. Default(p) = 0
    BY <1>5 DEF Default
  <2> QED
    BY <2>1, <2>2
<1>6. CASE p = "officeTime"
  <2>1. Legal(p) = 2..7
    BY <1>6 DEF Legal
  <2>2. Default(p) = 2
    BY <1>6 DEF Default
  <2> QED
    BY <2>1, <2>2
<1>7. CASE p = "hbInterval"
  <2>1. Legal(p) = 0..3
    BY <1>7 DEF Legal
  <2>2. Default(p) = 1
    BY <1>7 DEF Default
  <2> QED
    BY <2>1, <2>2
<1> QED
  BY <1>1, <1>2, <1>3, <1>4, <1>5, <1>6, <1>7 DEF AllParam

(* So do those of the cells.                                               *)
LEMMA CellFacts ==
  ASSUME NEW c \in Cell
  PROVE  LegalIn(c) \subseteq 0..255 /\ DefaultIn(c) \in LegalIn(c)
<1>1. CASE c \in Digit
  <2>1. LegalIn(c) = 0..9 /\ DefaultIn(c) = DigitOf(1662, c)
    BY <1>1 DEF LegalIn, DefaultIn, Default
  <2>2. 1662 \in Pin /\ 1662 \in DigitPin
    BY DEF Pin, DigitPin
  <2> QED
    BY <1>1, <2>1, <2>2, DigitFacts
<1>2. CASE c \notin Digit
  <2>1. c \in AllParam \ {"pin"}
    BY <1>2, CellAssumption
  <2>2. LegalIn(c) = Legal(c) /\ DefaultIn(c) = Default(c)
    BY <1>2 DEF LegalIn, DefaultIn
  <2> QED
    BY <2>1, <2>2, ParamFacts
<1> QED
  BY <1>1, <1>2

(* What a setter keeps is a byte, or a PIN.                                *)
LEMMA StoredIsByte ==
  ASSUME NEW p \in AllParam \ {"pin"}, NEW raw \in Int, Accepts(p, raw)
  PROVE  Stored(p, raw) \in 0..255
<1>1. CASE p = "timeZone"
  <2>1. Int8(raw) \in -12..12
    BY <1>1 DEF Accepts
  <2>2. raw % 256 \in 0..255
    OBVIOUS
  <2>3. CASE Int8(raw) < 0
    <3>1. Stored(p, raw) = 240 + (-Int8(raw))
      BY <1>1, <2>3 DEF Stored
    <3> HIDE DEF Int8
    <3> QED
      BY <2>1, <2>3, <3>1
  <2>4. CASE ~(Int8(raw) < 0)
    BY <1>1, <2>2, <2>4 DEF Stored
  <2> QED
    BY <2>3, <2>4
<1>2. CASE p # "timeZone"
  <2>1. raw % 256 \in 0..255
    OBVIOUS
  <2> QED
    BY <1>2, <2>1 DEF Stored
<1> QED
  BY <1>1, <1>2

(* A set command that was accepted, for parameter p.                       *)
Asked(p, raw) ==
  p \in AllParam /\ raw \in Int /\ (p = "pin" => raw \in Pin) /\ Accepts(p, raw)

(* What it puts into a cell of its parameter fits a byte.                  *)
LEMMA AskedIsByte ==
  ASSUME NEW p, NEW raw, Asked(p, raw), NEW c \in CellsOf(p)
  PROVE  InCell(c, Stored(p, raw)) \in 0..255
<1>1. CASE p = "pin"
  <2>1. c \in Digit /\ Stored(p, raw) = raw /\ raw \in Pin
    BY <1>1 DEF CellsOf, Stored, Asked
  <2> QED
    BY <2>1, DigitFacts DEF InCell
<1>2. CASE p # "pin"
  <2>1. c = p /\ c \in Cell
    BY <1>2 DEF CellsOf
  <2>2. p \notin Digit
    BY <1>2 DEF Asked, AllParam, Digit
  <2>3. Stored(p, raw) \in 0..255
    BY <1>2, StoredIsByte DEF Asked
  <2> QED
    BY <2>1, <2>2, <2>3 DEF InCell
<1> QED
  BY <1>1, <1>2

(* The defaults are legal, and zeros an image.                             *)
LEMMA ConstantImages == Defaults \in LegalImage /\ Zero \in Image
<1>1. Defaults \in Image /\ \A c \in Cell : Defaults[c] = DefaultIn(c)
  <2>1. \A c \in Cell : DefaultIn(c) \in 0..255
    BY CellFacts
  <2> QED
    BY <2>1 DEF Defaults, Image
<1>2. Zero \in Image
  BY DEF Zero, Image
<1> QED
  BY <1>1, <1>2, CellFacts DEF LegalImage

(* What para_read makes of an image: values in it, or zeros.               *)
LEMMA ReadImage ==
  ASSUME NEW f \in Image PROVE para_read(f) \in Image
BY DEF para_read, Image, Zero

(* The defaults are read as they were written.                             *)
LEMMA ReadDefaults == para_read(Defaults) = Defaults
<1>1. \A c \in Cell : Defaults[c] \in LegalIn(c)
  BY CellFacts DEF Defaults
<1>2. para_read(Defaults) = [c \in Cell |-> Defaults[c]]
  BY <1>1 DEF para_read
<1> QED
  BY <1>2 DEF Defaults

(* What may be in flash at first is an image, or was never written.        *)
LEMMA FirstImages == FirstWrites \subseteq Image \cup {Never}
BY ConstantImages DEF FirstWrites, LegalImage

----------------------------------------------------------------------------
(* Types.                                                                  *)
Callers == {"none", "set", "app", "restore", "write", "wrote"}
Points == {"idle", "set", "check", "write", "flash"}

ParasOK == custParas \in Image
NvOK == custNV \in Image
FlashOK == flash \in Image \cup {Never}
ParaOK == \A c \in Cell \ Digit : para[c] \in 0..255
PlaceOK == msgs \in 0..MaxMsgs /\ pc \in Points /\ left \subseteq Cell
CallOK ==
  /\ call \in [by : Callers, p : AllParam, raw : Int]
  /\ call.by = "set" => Asked(call.p, call.raw)
  /\ call.by = "set" /\ pc = "set" => left \subseteq CellsOf(call.p)
ToldOK == answer.ok \in BOOLEAN /\ behind \in BOOLEAN

TypeInv == ParasOK /\ NvOK /\ FlashOK /\ ParaOK /\ PlaceOK /\ CallOK /\ ToldOK

(* A parameter of an image fits a byte.                                    *)
LEMMA ParaOfType ==
  ASSUME NEW f \in Image, NEW c \in Cell \ Digit
  PROVE  ParaOf(f)[c] \in 0..255
BY DEF ParaOf, Image

(* A save or restore that ends.                                            *)
LEMMA FinishType ==
  ASSUME TypeInv, NEW ok \in BOOLEAN, NEW failed \in BOOLEAN, Finish(ok, failed)
  PROVE  ParaOK' /\ CallOK' /\ ToldOK' /\ pc' = "idle" /\ left' = {}
<1>1. ParaOK'
  <2>1. para' = para \/ para' = ParaOf(custParas)
    BY DEF Finish
  <2> QED
    BY <2>1, ParaOfType DEF TypeInv, ParaOK, ParasOK
<1>2. pc' = "idle" /\ left' = {} /\ call' = NoCall
  BY DEF Finish
<1>3. CallOK'
  BY <1>2 DEF NoCall, CallOK, Callers, AllParam
<1>4. ToldOK'
  <2>1. answer'.ok \in BOOLEAN
    BY DEF Finish, Answer, TypeInv, ToldOK
  <2>2. behind' \in BOOLEAN
    BY DEF Finish
  <2> QED
    BY <2>1, <2>2 DEF ToldOK
<1> QED
  BY <1>1, <1>2, <1>3, <1>4

(* A start leaves every variable in its type, whatever is in flash.        *)
LEMMA RestartType ==
  ASSUME NEW stored \in Image \cup {Never}, NEW now \in Image \cup {Never},
         CustNV_init(stored, now)
  PROVE  TypeInv'
<1>1. custNV' \in Image
  BY ConstantImages DEF CustNV_init, LegalImage
<1>2. custParas' \in Image
  BY <1>1, ReadImage DEF CustNV_init
<1>3. ParaOK'
  BY <1>2, ParaOfType DEF CustNV_init, ParaOK
<1>4. PlaceOK'
  BY MsgsAssumption DEF CustNV_init, PlaceOK, Points
<1>5. CallOK'
  BY DEF CustNV_init, CallOK, NoCall, Callers, AllParam
<1>6. ToldOK'
  BY DEF CustNV_init, ToldOK, NoAnswer
<1>7. FlashOK'
  BY DEF CustNV_init, FlashOK
<1> QED
  BY <1>1, <1>2, <1>3, <1>4, <1>5, <1>6, <1>7 DEF TypeInv, ParasOK, NvOK

(* So does a set command.                                                  *)
LEMMA AtSetType ==
  ASSUME TypeInv, NEW s \in AtSets, AtSet(s[1], s[2])
  PROVE  TypeInv'
<1> DEFINE p == s[1]  raw == s[2]
<1>1. p \in AllParam /\ raw \in Int /\ (p = "pin" => raw \in Pin)
  BY AtAssumption
<1> HIDE DEF p, raw
<1>2. AtSet(p, raw)
  BY DEF p, raw
<1>3. UNCHANGED <<custParas, custNV, para, flash, msgs, behind>>
  BY <1>2 DEF AtSet, ram
<1>4. CASE Accepts(p, raw)
  <2>1. /\ call' = [by |-> "set", p |-> p, raw |-> raw] /\ answer' = answer
        /\ pc' = "set" /\ left' = CellsOf(p)
    BY <1>2, <1>4 DEF AtSet, Begin
  <2>2. CallOK'
    BY <1>1, <1>4, <2>1 DEF CallOK, Callers, Asked
  <2>3. PlaceOK'
    BY <1>3, <2>1 DEF PlaceOK, Points, TypeInv, CellsOf
  <2> QED
    BY <1>3, <2>1, <2>2, <2>3 DEF TypeInv, ParasOK, NvOK, FlashOK, ParaOK, ToldOK
<1>5. CASE ~Accepts(p, raw)
  <2>1. /\ UNCHANGED <<pc, left, call>>
        /\ Answer([by |-> "set", p |-> p, raw |-> raw], FALSE, FALSE)
    BY <1>2, <1>5 DEF AtSet, save
  <2>2. answer'.ok = FALSE
    BY <2>1 DEF Answer
  <2> QED
    BY <1>3, <2>1, <2>2 DEF TypeInv, ParasOK, NvOK, FlashOK, ParaOK, PlaceOK, CallOK, ToldOK
<1> QED
  BY <1>4, <1>5

(* A BLE write brings an image, with legal values where it changes one.    *)
LEMMA BleSets ==
  ASSUME TypeInv, BleWrites
  PROVE  /\ UNCHANGED <<custNV, flash, pc, left, call, answer>> /\ EnqueueMsg
         /\ ParaOK'
         /\ \E paras \in Image : BleSet(paras)
         /\ \A c \in Cell : custParas'[c] = custParas[c] \/ custParas'[c] \in LegalIn(c)
<1>1. ASSUME NEW pin \in BlePins, BleWritePin(pin)
      PROVE  /\ ParaOK' /\ \E paras \in Image : BleSet(paras)
             /\ \A c \in Cell : custParas'[c] = custParas[c] \/ custParas'[c] \in LegalIn(c)
  <2> DEFINE new == [c \in Cell |-> IF c \in Digit THEN DigitOf(pin, c) ELSE custParas[c]]
  <2>1. BleSet(new) /\ para' = para
    BY <1>1 DEF BleWritePin
  <2>2. \A c \in Digit : DigitOf(pin, c) \in 0..9
    BY DigitFacts, BleAssumption DEF Pin
  <2>3. new \in Image
    BY <2>2 DEF TypeInv, ParasOK, Image
  <2>4. \A c \in Cell : new[c] = custParas[c] \/ new[c] \in LegalIn(c)
    BY <2>2 DEF LegalIn
  <2>5. custParas' = new
    BY <2>1 DEF BleSet, Set
  <2>6. ParaOK'
    BY <2>1 DEF TypeInv, ParaOK
  <2> QED
    BY <2>1, <2>3, <2>4, <2>5, <2>6
<1>2. ASSUME NEW b \in BleParas, BleWritePara(b)
      PROVE  /\ ParaOK' /\ \E paras \in Image : BleSet(paras)
             /\ \A c \in Cell : custParas'[c] = custParas[c] \/ custParas'[c] \in LegalIn(c)
  <2> DEFINE new == [c \in Cell |-> IF c \in Digit THEN custParas[c] ELSE b[c]]
  <2>1. BleSet(new) /\ para' = b
    BY <1>2 DEF BleWritePara
  <2>2. \A c \in Cell \ Digit : b[c] \in LegalIn(c) /\ b[c] \in 0..255
    BY BleAssumption, CellFacts DEF LegalIn
  <2>3. new \in Image
    BY <2>2 DEF TypeInv, ParasOK, Image
  <2>4. \A c \in Cell : new[c] = custParas[c] \/ new[c] \in LegalIn(c)
    BY <2>2
  <2>5. custParas' = new
    BY <2>1 DEF BleSet, Set
  <2>6. ParaOK'
    BY <2>1, <2>2 DEF ParaOK
  <2> QED
    BY <2>1, <2>3, <2>4, <2>5, <2>6
<1>3. UNCHANGED <<custNV, flash, pc, left, call, answer>> /\ EnqueueMsg
  BY DEF BleWrites, BleWritePin, BleWritePara, BleSet, save
<1> QED
  BY <1>1, <1>2, <1>3 DEF BleWrites

(* So it keeps the types.                                                  *)
LEMMA BleWritesType ==
  ASSUME TypeInv, BleWrites
  PROVE  TypeInv'
<1>1. UNCHANGED <<custNV, flash, pc, left, call, answer>> /\ EnqueueMsg /\ ParaOK'
  BY BleSets
<1>2. custParas' \in Image
  BY BleSets DEF BleSet, Set
<1>3. msgs' \in 0..MaxMsgs
  BY <1>1, MsgsAssumption DEF EnqueueMsg, TypeInv, PlaceOK
<1>4. behind' \in BOOLEAN
  <2>1. behind' = behind \/ behind' = TRUE
    BY <1>1, Zenon DEF EnqueueMsg
  <2> QED
    BY <2>1, Zenon DEF TypeInv, ToldOK
<1> QED
  BY <1>1, <1>2, <1>3, <1>4 DEF TypeInv, ParasOK, NvOK, FlashOK, PlaceOK, CallOK, ToldOK

(* What a step of a setter or of para_restore does to the working copy.    *)
LEMMA SetCellSets ==
  ASSUME TypeInv, SetCell
  PROVE  /\ \E c \in left, n \in 0..255 :
              Set([custParas EXCEPT ![c] = n]) /\ left' = left \ {c}
         /\ pc = "set" /\ (pc' = "set" \/ (pc' = "check" /\ left' = {}))
         /\ UNCHANGED <<custNV, para, flash, msgs, call, answer, behind>>
<1>1. PICK c \in left :
        /\ Set([custParas EXCEPT ![c] = IF call.by = "set"
                                       THEN InCell(c, Stored(call.p, call.raw))
                                       ELSE DefaultIn(c)])
        /\ left' = left \ {c}
  BY DEF SetCell
<1>2. pc = "set" /\ UNCHANGED <<custNV, para, flash, msgs, call, answer, behind>>
      /\ (pc' = "set" \/ (pc' = "check" /\ left' = {}))
  BY DEF SetCell
<1>3. c \in Cell
  BY DEF TypeInv, PlaceOK
<1>4. CASE call.by = "set"
  <2>1. Asked(call.p, call.raw) /\ c \in CellsOf(call.p)
    BY <1>2, <1>4 DEF TypeInv, CallOK
  <2>2. InCell(c, Stored(call.p, call.raw)) \in 0..255
    BY <2>1, AskedIsByte
  <2>3. Set([custParas EXCEPT ![c] = InCell(c, Stored(call.p, call.raw))])
    BY <1>1, <1>4
  <2> QED
    BY <1>1, <1>2, <2>2, <2>3
<1>5. CASE call.by # "set"
  <2>1. DefaultIn(c) \in 0..255
    BY <1>3, CellFacts
  <2>2. Set([custParas EXCEPT ![c] = DefaultIn(c)])
    BY <1>1, <1>5
  <2> QED
    BY <1>1, <1>2, <2>1, <2>2
<1> QED
  BY <1>4, <1>5

(* What a step of para_write does to the image.                            *)
LEMMA SaveWriteCopies ==
  ASSUME TypeInv, SaveWrite
  PROVE  \E c \in left :
           /\ pc = "write" /\ UNCHANGED <<custParas, flash, msgs>>
           /\ custNV' = [custNV EXCEPT ![c] = custParas[c]]
           /\ \/ /\ left' = left \ {c}
                 /\ UNCHANGED <<pc, call, para, answer, recent, owed, behind>>
              \/ /\ left = {c} /\ call.by \in {"write", "wrote"}
                 /\ Finish(call.by = "wrote", call.by = "write")
              \/ /\ left = {c} /\ pc' = "flash" /\ left' = {}
                 /\ call.by \notin {"write", "wrote"}
                 /\ UNCHANGED <<call, para, answer, recent, owed, behind>>
<1>1. PICK c \in left :
       /\ custNV' = [custNV EXCEPT ![c] = IF c \in Cell THEN custParas[c] ELSE @]
       /\ IF left # {c}
          THEN /\ left' = left \ {c}
               /\ UNCHANGED <<pc, call, para, answer, recent, owed, behind>>
          ELSE IF call.by \in {"write", "wrote"}
          THEN Finish(call.by = "wrote", call.by = "write")
          ELSE /\ pc' = "flash" /\ left' = {}
               /\ UNCHANGED <<call, para, answer, recent, owed, behind>>
  BY DEF SaveWrite, CopyCell
<1>2. pc = "write" /\ UNCHANGED <<custParas, flash, msgs>>
  BY DEF SaveWrite, CopyCell
<1>3. custNV' = [custNV EXCEPT ![c] = custParas[c]]
  BY <1>1 DEF TypeInv, PlaceOK
<1>4. CASE left # {c}
  BY <1>1, <1>2, <1>3, <1>4
<1>5. CASE left = {c} /\ call.by \in {"write", "wrote"}
  BY <1>1, <1>2, <1>3, <1>5
<1>6. CASE left = {c} /\ call.by \notin {"write", "wrote"}
  BY <1>1, <1>2, <1>3, <1>6
<1> QED
  BY <1>4, <1>5, <1>6

(* Each step of a save keeps the types.                                    *)
LEMMA SaveType ==
  ASSUME TypeInv, Save
  PROVE  TypeInv'
<1>1. CASE SaveCheck
  <2>1. UNCHANGED <<custParas, custNV, flash, msgs>> /\ pc = "check"
    BY <1>1 DEF SaveCheck
  <2>2. CASE pc' = "write" /\ left' = Cell /\ UNCHANGED <<call, para, answer, behind>>
    BY <2>1, <2>2 DEF TypeInv, ParasOK, NvOK, FlashOK, ParaOK, PlaceOK, CallOK, ToldOK, Points
  <2>3. CASE Finish(FALSE, FALSE)
    <3>1. ParaOK' /\ CallOK' /\ ToldOK' /\ pc' = "idle" /\ left' = {}
      BY <2>3, FinishType
    <3> QED
      BY <2>1, <3>1 DEF TypeInv, ParasOK, NvOK, FlashOK, PlaceOK, Points
  <2> QED
    BY <1>1, <2>2, <2>3 DEF SaveCheck
<1>2. CASE SaveWrite
  <2>1. PICK c \in left :
           /\ pc = "write" /\ UNCHANGED <<custParas, flash, msgs>>
           /\ custNV' = [custNV EXCEPT ![c] = custParas[c]]
           /\ \/ left' = left \ {c} /\ UNCHANGED <<pc, call, para, answer, behind>>
              \/ Finish(call.by = "wrote", call.by = "write")
              \/ /\ pc' = "flash" /\ left' = {}
                 /\ UNCHANGED <<call, para, answer, behind>>
    BY <1>2, SaveWriteCopies
  <2>2. custNV' \in Image
    BY <2>1 DEF TypeInv, NvOK, ParasOK, PlaceOK, Image
  <2>3. CASE left' = left \ {c} /\ UNCHANGED <<pc, call, para, answer, behind>>
    BY <2>1, <2>2, <2>3 DEF TypeInv, ParasOK, NvOK, FlashOK, ParaOK, PlaceOK, CallOK, ToldOK
  <2>4. CASE Finish(call.by = "wrote", call.by = "write")
    <3>1. ParaOK' /\ CallOK' /\ ToldOK' /\ pc' = "idle" /\ left' = {}
      BY <2>4, FinishType
    <3> QED
      BY <2>1, <2>2, <3>1 DEF TypeInv, ParasOK, NvOK, FlashOK, PlaceOK, Points
  <2>5. CASE pc' = "flash" /\ left' = {} /\ UNCHANGED <<call, para, answer, behind>>
    BY <2>1, <2>2, <2>5
       DEF TypeInv, ParasOK, NvOK, FlashOK, ParaOK, PlaceOK, CallOK, ToldOK, Points
  <2> QED
    BY <2>1, <2>3, <2>4, <2>5
<1>3. CASE SaveFlash
  <2>1. UNCHANGED <<custParas, custNV, msgs>>
    BY <1>3 DEF SaveFlash
  <2>2. FlashOK' /\ \E ok \in BOOLEAN, failed \in BOOLEAN : Finish(ok, failed)
    BY <1>3 DEF SaveFlash, TypeInv, FlashOK, NvOK
  <2>3. ParaOK' /\ CallOK' /\ ToldOK' /\ pc' = "idle" /\ left' = {}
    BY <2>2, FinishType
  <2> QED
    BY <2>1, <2>2, <2>3 DEF TypeInv, ParasOK, NvOK, PlaceOK, Points
<1>4. CASE RestoreFlash
  <2>1. /\ UNCHANGED <<custParas, custNV, para, msgs, answer, behind>>
        /\ pc' = "set" /\ left' = Cell
    BY <1>4 DEF RestoreFlash, ram
  <2>2. FlashOK'
    BY <1>4 DEF RestoreFlash, TypeInv, FlashOK, NvOK
  <2>3. call.by = "write" /\ (call' = call \/ call' = [call EXCEPT !.by = "wrote"])
    BY <1>4 DEF RestoreFlash
  <2>4. CallOK'
    BY <2>3 DEF TypeInv, CallOK, Callers
  <2> QED
    BY <2>1, <2>2, <2>4 DEF TypeInv, ParasOK, NvOK, ParaOK, PlaceOK, ToldOK, Points
<1>5. CASE SetCell
  <2>1. PICK c \in left, n \in 0..255 :
          Set([custParas EXCEPT ![c] = n]) /\ left' = left \ {c}
    BY <1>5, SetCellSets
  <2>2. /\ pc = "set" /\ pc' \in {"set", "check"}
        /\ UNCHANGED <<custNV, para, flash, msgs, call, answer, behind>>
    BY <1>5, SetCellSets
  <2>3. custParas' \in Image
    BY <2>1 DEF Set, TypeInv, ParasOK, PlaceOK, Image
  <2>4. PlaceOK' /\ CallOK'
    BY <2>1, <2>2 DEF TypeInv, PlaceOK, CallOK, Points
  <2> QED
    BY <2>2, <2>3, <2>4 DEF TypeInv, ParasOK, NvOK, FlashOK, ParaOK, ToldOK
<1> QED
  BY <1>1, <1>2, <1>3, <1>4, <1>5 DEF Save

(* Every step keeps the types.                                             *)
LEMMA TypeInvStep == TypeInv /\ [Next]_vars => TypeInv'
<1> SUFFICES ASSUME TypeInv, [Next]_vars PROVE TypeInv'
  OBVIOUS
<1>1. CASE Restart
  BY <1>1, RestartType, FirstImages DEF Restart, TypeInv, FlashOK
<1>2. CASE AtRestore
  <2>1. UNCHANGED <<custParas, custNV, para, flash, msgs, answer, behind>>
    BY <1>2 DEF AtRestore, ram
  <2>2. /\ \E by \in {"restore", "write"} : call' = [by |-> by, p |-> "pin", raw |-> 0]
        /\ pc' \in {"set", "flash"}
        /\ left' \in {Cell, {}}
    BY <1>2 DEF AtRestore, Begin
  <2>3. CallOK'
    BY <2>2 DEF CallOK, Callers, AllParam
  <2> QED
    BY <2>1, <2>2, <2>3 DEF TypeInv, ParasOK, NvOK, FlashOK, ParaOK, PlaceOK, ToldOK, Points
<1>3. CASE SimpleBLEPeripheral_processCharValueChangeEvt
  <2>1. /\ UNCHANGED <<custParas, custNV, para, flash, answer, behind>>
        /\ msgs > 0 /\ msgs' = msgs - 1
        /\ call' = [by |-> "app", p |-> "pin", raw |-> 0]
        /\ pc' = "check" /\ left' = {}
    BY <1>3 DEF SimpleBLEPeripheral_processCharValueChangeEvt, ram, Begin
  <2>2. CallOK'
    BY <2>1 DEF CallOK, Callers, AllParam
  <2>3. msgs' \in 0..MaxMsgs
    BY <2>1, MsgsAssumption DEF TypeInv, PlaceOK
  <2> QED
    BY <2>1, <2>2, <2>3 DEF TypeInv, ParasOK, NvOK, FlashOK, ParaOK, PlaceOK, ToldOK, Points
<1>4. CASE UNCHANGED vars
  BY <1>4 DEF vars, ram, save, TypeInv, ParasOK, NvOK, FlashOK, ParaOK, PlaceOK, CallOK, ToldOK
<1> QED
  BY <1>1, <1>2, <1>3, <1>4, AtSetType, BleWritesType, SaveType DEF Next, Asks

(* The types hold at first.                                                *)
LEMMA TypeInvInit == Init => TypeInv
<1> SUFFICES ASSUME Init PROVE TypeInv
  OBVIOUS
<1>1. Defaults \in Image
  BY ConstantImages DEF LegalImage
<1>2. ParasOK /\ NvOK /\ FlashOK
  BY <1>1, FirstImages DEF Init, ParasOK, NvOK, FlashOK
<1>3. ParaOK
  BY <1>1, ParaOfType DEF Init, ParaOK
<1>4. PlaceOK
  BY MsgsAssumption DEF Init, PlaceOK, Points
<1>5. CallOK /\ ToldOK
  BY DEF Init, CallOK, Callers, AllParam, NoCall, ToldOK, NoAnswer
<1> QED
  BY <1>2, <1>3, <1>4, <1>5 DEF TypeInv

(* The types hold always.                                                  *)
LEMMA Typed == Spec => []TypeInv
<1>1. TypeInv /\ [Next]_vars => TypeInv'
  BY TypeInvStep
<1> QED
  BY <1>1, TypeInvInit, PTL DEF Spec

(* Every variable keeps its type, whatever set commands ask for.           *)
THEOREM TypeCorrect == Spec => []TypeOK
<1>1. TypeInv => TypeOK
  BY DEF TypeInv, ParasOK, NvOK, FlashOK, ParaOK, PlaceOK, CallOK, ToldOK, Points, Callers, TypeOK
<1> QED
  BY <1>1, Typed, PTL

----------------------------------------------------------------------------
(* What may be written to flash.  Once the parameters are checked, they    *)
(* stay legal, since BLE writes only bring legal ones: so what is copied   *)
(* to the image is.                                                        *)
Storable == (FirstWrites \ {Never}) \cup LegalImage

RangeInv ==
  /\ flash \in FirstWrites \cup LegalImage
  /\ pc # "write" => custNV \in Storable
  /\ pc = "write" => \A c \in Cell : /\ custParas[c] \in LegalIn(c)
                                     /\ c \notin left => custNV[c] \in LegalIn(c)

(* A start keeps it so: flash holds legal values or a first write.         *)
LEMMA RangeRestart ==
  ASSUME NEW stored \in FirstWrites \cup LegalImage,
         NEW now \in FirstWrites \cup LegalImage, CustNV_init(stored, now)
  PROVE  RangeInv'
<1>1. custNV' \in Storable
  BY ConstantImages DEF CustNV_init, Storable
<1> QED
  BY <1>1 DEF CustNV_init, RangeInv

(* Every step keeps what is stored, and about to be stored, legal.         *)
LEMMA RangeStep == TypeInv /\ RangeInv /\ [Next]_vars => RangeInv'
<1> SUFFICES ASSUME TypeInv, RangeInv, [Next]_vars PROVE RangeInv'
  OBVIOUS
<1>1. CASE Restart
  BY <1>1, RangeRestart DEF Restart, RangeInv
<1>2. ASSUME UNCHANGED <<flash, custNV>>, pc # "write", pc' # "write" PROVE RangeInv'
  BY <1>2 DEF RangeInv
<1>3. CASE AtRestore
  BY <1>2, <1>3 DEF AtRestore, Begin, ram
<1>4. ASSUME NEW s \in AtSets, AtSet(s[1], s[2]) PROVE RangeInv'
  <2>1. UNCHANGED <<flash, custNV>> /\ pc = "idle"
    BY <1>4 DEF AtSet, ram
  <2>2. pc' = "set" \/ pc' = pc
    BY <1>4 DEF AtSet, Begin, save
  <2> QED
    BY <1>2, <2>1, <2>2
<1>5. CASE SimpleBLEPeripheral_processCharValueChangeEvt
  BY <1>2, <1>5 DEF SimpleBLEPeripheral_processCharValueChangeEvt, Begin, ram
<1>6. CASE BleWrites
  <2>1. /\ UNCHANGED <<flash, custNV, pc, left>>
        /\ \A c \in Cell : custParas'[c] = custParas[c] \/ custParas'[c] \in LegalIn(c)
    BY <1>6, BleSets
  <2> QED
    BY <2>1 DEF RangeInv
<1>7. CASE SaveCheck
  <2>1. UNCHANGED <<flash, custNV, custParas>> /\ pc = "check"
    BY <1>7 DEF SaveCheck
  <2>2. CASE Finish(FALSE, FALSE)
    BY <1>2, <2>1, <2>2 DEF Finish
  <2>3. CASE (\A c \in Cell : custParas[c] \in LegalIn(c)) /\ pc' = "write" /\ left' = Cell
    BY <2>1, <2>3 DEF RangeInv
  <2> QED
    BY <1>7, <2>2, <2>3 DEF SaveCheck
<1>8. CASE SaveWrite
  <2>1. PICK c \in left :
           /\ pc = "write" /\ UNCHANGED <<custParas, flash>>
           /\ custNV' = [custNV EXCEPT ![c] = custParas[c]]
           /\ \/ left' = left \ {c} /\ pc' = pc
              \/ left = {c} /\ pc' \in {"idle", "flash"}
    BY <1>8, SaveWriteCopies DEF Finish
  <2>2. c \in Cell /\ custNV \in Image
    BY DEF TypeInv, PlaceOK, NvOK
  <2>3. \A d \in Cell : d \notin left \/ d = c => custNV'[d] \in LegalIn(d)
    BY <2>1, <2>2 DEF RangeInv, Image
  <2>4. CASE left' = left \ {c} /\ pc' = pc
    BY <2>1, <2>3, <2>4 DEF RangeInv
  <2>5. CASE left = {c} /\ pc' \in {"idle", "flash"}
    <3>1. \A d \in Cell : custNV'[d] \in LegalIn(d)
      BY <2>3, <2>5
    <3>2. custNV' \in Image
      BY <1>8, SaveType DEF Save, TypeInv, NvOK
    <3>3. custNV' \in Storable
      BY <3>1, <3>2 DEF Storable, LegalImage
    <3> QED
      BY <2>1, <2>5, <3>3 DEF RangeInv
  <2> QED
    BY <2>1, <2>4, <2>5
<1>9. CASE SaveFlash
  <2>1. custNV' = custNV /\ pc = "flash" /\ flash' \in {flash, custNV} /\ pc' = "idle"
    BY <1>9 DEF SaveFlash, Finish
  <2> QED
    BY <2>1 DEF RangeInv, Storable
<1>10. CASE RestoreFlash
  <2>1. custNV' = custNV /\ pc = "flash" /\ flash' \in {flash, custNV} /\ pc' = "set"
    BY <1>10 DEF RestoreFlash, ram
  <2> QED
    BY <2>1 DEF RangeInv, Storable
<1>11. CASE SetCell
  BY <1>2, <1>11, SetCellSets
<1>12. CASE UNCHANGED vars
  BY <1>12 DEF vars, ram, save, RangeInv
<1> QED
  BY <1>1, <1>3, <1>4, <1>5, <1>6, <1>7, <1>8, <1>9, <1>10, <1>11, <1>12
     DEF Next, Asks, Save

(* What is stored, and about to be stored, is always legal.                *)
LEMMA Ranged == Spec => []RangeInv
<1>1. Init => RangeInv
  BY ConstantImages DEF Init, RangeInv, Storable
<1>2. TypeInv /\ RangeInv /\ [Next]_vars => RangeInv'
  BY RangeStep
<1> QED
  BY <1>1, <1>2, Typed, PTL DEF Spec

(* Flash holds only images that para_write has checked, or what the first  *)
(* boot left there, wherever power fails.                                  *)
THEOREM FlashInRangeInvariant == Spec => []FlashInRange
<1>1. RangeInv => FlashInRange
  BY DEF RangeInv, FlashInRange
<1> QED
  BY <1>1, Ranged, PTL

----------------------------------------------------------------------------
(* What an OK promises.  While a save is under way the working copy, and   *)
(* what is already copied to the image, are values of that save; and the   *)
(* working copy, the image and flash always hold values owed.              *)
Owes(c) == custParas[c] \in owed[c] /\ custNV[c] \in owed[c]
FlashOwes(c) == flash = Never \/ flash[c] \in owed[c]
Restoring == call.by \in {"write", "wrote"}
SaveIsRecent(c) == Saving /\ ~(pc = "flash" /\ Restoring) => custParas[c] \in recent[c]
CopyIsRecent(c) ==
  (pc = "write" /\ c \notin left) \/ (pc = "flash" /\ ~Restoring)
    => custNV[c] \in recent[c]

OwedInv == \A c \in Cell : Owes(c) /\ FlashOwes(c) /\ SaveIsRecent(c) /\ CopyIsRecent(c)

(* After a start what flash lacks is owed, if it was read right.           *)
LEMMA OwedRestart ==
  ASSUME NEW stored, NEW now \in Image \cup {Never}, CustNV_init(stored, now),
         stored = Never \/ stored = now
  PROVE  OwedInv'
<1>1. custNV' = custParas' \/ custNV' = now
  BY ReadDefaults DEF CustNV_init
<1>2. owed' = FirstOwed(now, custParas') /\ flash' = now /\ pc' = "idle"
  BY DEF CustNV_init
<1>3. now # Never => \A c \in Cell : owed'[c] = {custParas'[c]} \cup {now[c]}
  BY <1>2 DEF FirstOwed
<1>4. \A c \in Cell : custParas'[c] \in owed'[c]
  BY <1>2 DEF FirstOwed
<1>5. now = Never => custNV' = custParas'
  BY ReadDefaults DEF CustNV_init
<1> QED
  BY <1>1, <1>2, <1>3, <1>4, <1>5
     DEF OwedInv, Owes, FlashOwes, SaveIsRecent, CopyIsRecent, Saving

(* No step forgets a change that has yet to be saved.                      *)
LEMMA OwedStep == TypeInv /\ OwedInv /\ [Next]_vars => OwedInv'
<1> SUFFICES ASSUME TypeInv, OwedInv, [Next]_vars PROVE OwedInv'
  OBVIOUS
<1> USE DEF Saving, Restoring
<1>1. CASE Restart
  <2>1. flash \in Image \cup {Never}
    BY DEF TypeInv, FlashOK
  <2> QED
    BY <1>1, <2>1, OwedRestart, FirstImages DEF Restart
<1>2. ASSUME UNCHANGED <<custParas, custNV, flash, owed>>,
             pc' \in {"idle", "set"} \/ (pc' = "flash" /\ Restoring')
      PROVE  OwedInv'
  BY <1>2 DEF OwedInv, Owes, FlashOwes, SaveIsRecent, CopyIsRecent
<1>3. CASE AtRestore
  BY <1>2, <1>3 DEF AtRestore, Begin, ram
<1>4. ASSUME NEW s \in AtSets, AtSet(s[1], s[2]) PROVE OwedInv'
  <2>1. UNCHANGED <<custParas, custNV, flash, owed>> /\ pc = "idle"
    BY <1>4 DEF AtSet, ram
  <2>2. pc' = "set" \/ pc' = pc
    BY <1>4 DEF AtSet, Begin, save
  <2> QED
    BY <1>2, <2>1, <2>2
<1>5. CASE SimpleBLEPeripheral_processCharValueChangeEvt
  <2>1. /\ UNCHANGED <<custParas, custNV, flash, owed>> /\ pc' = "check"
        /\ \A c \in Cell : recent'[c] = {custParas'[c]}
    BY <1>5 DEF SimpleBLEPeripheral_processCharValueChangeEvt, Begin, SaveBegins, ram
  <2> QED
    BY <2>1 DEF OwedInv, Owes, FlashOwes, SaveIsRecent, CopyIsRecent
<1>6. CASE BleWrites
  <2>1. UNCHANGED <<custNV, flash, pc, left, call>>
    BY <1>6, BleSets
  <2>2. PICK paras \in Image : BleSet(paras)
    BY <1>6, BleSets
  <2>3. \A c \in Cell : custParas'[c] = paras[c] /\ owed'[c] = owed[c] \cup {paras[c]}
    BY <2>2 DEF BleSet, Set
  <2>4. CASE Saving
    <3>1. \A c \in Cell : recent'[c] = recent[c] \cup {paras[c]}
      BY <2>2, <2>4 DEF BleSet
    <3> QED
      BY <2>1, <2>3, <3>1 DEF OwedInv, Owes, FlashOwes, SaveIsRecent, CopyIsRecent
  <2>5. CASE ~Saving
    BY <2>1, <2>3, <2>5 DEF OwedInv, Owes, FlashOwes, SaveIsRecent, CopyIsRecent
  <2> QED
    BY <2>4, <2>5
<1>7. CASE SetCell
  <2>1. PICK c \in left, n \in 0..255 :
          Set([custParas EXCEPT ![c] = n]) /\ left' = left \ {c}
    BY <1>7, SetCellSets
  <2>2. UNCHANGED <<custNV, flash, call>>
    BY <1>7, SetCellSets
  <2>3. \A d \in Cell : owed'[d] = owed[d] \cup {custParas'[d]}
    BY <2>1 DEF Set
  <2>4. pc' = "set" \/ (pc' = "check" /\ \A d \in Cell : recent'[d] = {custParas'[d]})
    BY <1>7 DEF SetCell, SaveBegins
  <2>5. CASE pc' = "set"
    BY <2>2, <2>3, <2>5 DEF OwedInv, Owes, FlashOwes, SaveIsRecent, CopyIsRecent
  <2>6. CASE pc' = "check" /\ \A d \in Cell : recent'[d] = {custParas'[d]}
    BY <2>2, <2>3, <2>6 DEF OwedInv, Owes, FlashOwes, SaveIsRecent, CopyIsRecent
  <2> QED
    BY <2>4, <2>5, <2>6
<1>8. CASE SaveCheck
  <2>1. UNCHANGED <<custParas, custNV, flash>> /\ pc = "check"
    BY <1>8 DEF SaveCheck
  <2>2. CASE Finish(FALSE, FALSE)
    <3>1. pc' = "idle" /\ owed' = owed
      BY <2>2 DEF Finish
    <3> QED
      BY <1>2, <2>1, <3>1
  <2>3. CASE pc' = "write" /\ left' = Cell /\ UNCHANGED <<call, recent, owed>>
    BY <2>1, <2>3 DEF OwedInv, Owes, FlashOwes, SaveIsRecent, CopyIsRecent
  <2> QED
    BY <1>8, <2>2, <2>3 DEF SaveCheck
<1>9. CASE SaveWrite
  <2>1. PICK c \in left :
           /\ pc = "write" /\ UNCHANGED <<custParas, flash>>
           /\ custNV' = [custNV EXCEPT ![c] = custParas[c]]
           /\ \/ left' = left \ {c} /\ UNCHANGED <<pc, call, recent, owed>>
              \/ /\ Restoring /\ Finish(call.by = "wrote", call.by = "write")
              \/ /\ left = {c} /\ pc' = "flash"
                 /\ UNCHANGED <<call, recent, owed>>
    BY <1>9, SaveWriteCopies
  <2>2. c \in Cell /\ custNV \in Image
    BY DEF TypeInv, PlaceOK, NvOK
  <2>3. \A d \in Cell : /\ d \notin left \/ d = c => custNV'[d] \in recent[d]
                         /\ custNV'[d] \in owed[d]
    <3>1. \A d \in Cell : custNV'[d] = IF d = c THEN custParas[d] ELSE custNV[d]
      BY <2>1, <2>2 DEF Image
    <3> QED
      BY <2>1, <3>1 DEF OwedInv, Owes, SaveIsRecent, CopyIsRecent
  <2>4. CASE left' = left \ {c} /\ UNCHANGED <<pc, call, recent, owed>>
    BY <2>1, <2>3, <2>4 DEF OwedInv, Owes, FlashOwes, SaveIsRecent, CopyIsRecent
  <2>5. CASE Restoring /\ Finish(call.by = "wrote", call.by = "write")
    <3>1. pc' = "idle" /\ owed' = owed
      BY <2>5 DEF Finish
    <3> QED
      BY <2>1, <2>3, <3>1 DEF OwedInv, Owes, FlashOwes, SaveIsRecent, CopyIsRecent
  <2>6. CASE left = {c} /\ pc' = "flash" /\ UNCHANGED <<call, recent, owed>>
    BY <2>1, <2>3, <2>6 DEF OwedInv, Owes, FlashOwes, SaveIsRecent, CopyIsRecent
  <2> QED
    BY <2>1, <2>4, <2>5, <2>6
<1>10. CASE SaveFlash
  <2>1. UNCHANGED <<custParas, custNV>> /\ pc = "flash" /\ call.by # "write"
    BY <1>10 DEF SaveFlash
  <2>2. CASE flash' = custNV /\ Finish(TRUE, FALSE)
    <3>1. pc' = "idle" /\ owed' = IF call.by # "wrote" THEN recent ELSE owed
      BY <2>2 DEF Finish
    <3> QED
      BY <2>1, <2>2, <3>1 DEF OwedInv, Owes, FlashOwes, SaveIsRecent, CopyIsRecent
  <2>3. CASE flash' = flash /\ Finish(FALSE, TRUE)
    <3>1. pc' = "idle" /\ owed' = owed
      BY <2>3 DEF Finish
    <3> QED
      BY <1>2, <2>1, <2>3, <3>1
  <2> QED
    BY <1>10, <2>2, <2>3 DEF SaveFlash
<1>11. CASE RestoreFlash
  <2>1. /\ pc' = "set" /\ flash' \in {flash, custNV}
        /\ UNCHANGED <<custParas, custNV, owed>>
    BY <1>11 DEF RestoreFlash, ram
  <2> QED
    BY <2>1 DEF OwedInv, Owes, FlashOwes, SaveIsRecent, CopyIsRecent
<1>12. CASE UNCHANGED vars
  BY <1>12 DEF vars, ram, save, OwedInv, Owes, FlashOwes, SaveIsRecent, CopyIsRecent
<1> QED
  BY <1>1, <1>3, <1>4, <1>5, <1>6, <1>7, <1>8, <1>9, <1>10, <1>11, <1>12
     DEF Next, Asks, Save

(* After a save that was answered OK, flash holds for each digit of the    *)
(* PIN and each other parameter a value custParas had since that save      *)
(* began, wherever between two of them BLE writes fell.                    *)
THEOREM OkIsDurableInvariant == Spec => []OkIsDurable
<1>1. Init => OwedInv
  <2> SUFFICES ASSUME Init PROVE OwedInv
    OBVIOUS
  <2>1. /\ custNV = custParas /\ pc = "idle"
        /\ \A c \in Cell : custParas[c] \in owed[c] /\ (flash = Never \/ flash[c] \in owed[c])
    BY DEF Init, FirstOwed
  <2> QED
    BY <2>1 DEF OwedInv, Owes, FlashOwes, SaveIsRecent, CopyIsRecent, Saving
<1>2. TypeInv /\ OwedInv /\ [Next]_vars => OwedInv'
  BY OwedStep
<1>3. OwedInv => OkIsDurable
  BY DEF OwedInv, FlashOwes, OkIsDurable
<1> QED
  BY <1>1, <1>2, <1>3, Typed, PTL DEF Spec

----------------------------------------------------------------------------
(* A quiet lock has saved.  With no message and no failure, nothing has    *)
(* changed custParas since the save under way was checked.                 *)
Settled ==
  /\ pc = "idle" => flash = custParas
  /\ pc = "write" => \A c \in Cell : c \notin left => custNV[c] = custParas[c]
  /\ pc = "flash" /\ call.by # "write" => custNV = custParas

QuietInv == msgs = 0 /\ ~behind => Settled

(* Every step keeps it so: what is not behind has settled once no message  *)
(* is under way.                                                           *)
LEMMA QuietStep == TypeInv /\ QuietInv /\ [Next]_vars => QuietInv'
<1> SUFFICES ASSUME TypeInv, QuietInv, [Next]_vars, msgs' = 0, ~behind'
    PROVE Settled'
  BY DEF QuietInv
<1>1. CASE Restart
  <2>1. pc' = "idle" /\ (behind' = (flash' # custParas'))
    BY <1>1 DEF Restart, CustNV_init
  <2> QED
    BY <2>1 DEF Settled
<1>2. CASE AtRestore
  <2>1. pc' = "set" \/ (pc' = "flash" /\ call'.by = "write")
    BY <1>2 DEF AtRestore, Begin
  <2> QED
    BY <2>1 DEF Settled
<1>3. ASSUME NEW s \in AtSets, AtSet(s[1], s[2]) PROVE Settled'
  <2>1. CASE Accepts(s[1], s[2])
    BY <1>3, <2>1 DEF AtSet, Begin, Settled
  <2>2. CASE ~Accepts(s[1], s[2])
    BY <1>3, <2>2 DEF AtSet, save, ram, QuietInv, Settled
  <2> QED
    BY <2>1, <2>2
<1>4. CASE SimpleBLEPeripheral_processCharValueChangeEvt
  BY <1>4 DEF SimpleBLEPeripheral_processCharValueChangeEvt, Begin, Settled
<1>5. CASE BleWrites
  <2>1. EnqueueMsg
    BY <1>5, BleSets
  <2>2. CASE msgs' = msgs + 1
    BY <2>2 DEF TypeInv, PlaceOK
  <2>3. CASE behind' = TRUE
    BY <2>3
  <2> QED
    BY <2>1, <2>2, <2>3 DEF EnqueueMsg
<1>6. CASE SetCell
  <2>1. pc' \in {"set", "check"}
    BY <1>6, SetCellSets
  <2> QED
    BY <2>1 DEF Settled
<1>7. CASE SaveCheck
  <2>1. CASE Finish(FALSE, FALSE)
    BY <2>1 DEF Finish
  <2>2. CASE pc' = "write" /\ left' = Cell
    BY <2>2 DEF Settled
  <2> QED
    BY <1>7, <2>1, <2>2 DEF SaveCheck
<1>8. CASE SaveWrite
  <2>1. PICK c \in left :
           /\ pc = "write" /\ UNCHANGED <<custParas, flash, msgs>>
           /\ custNV' = [custNV EXCEPT ![c] = custParas[c]]
           /\ \/ left' = left \ {c} /\ UNCHANGED <<pc, call, behind>>
              \/ call.by \in {"write", "wrote"} /\ Finish(call.by = "wrote", call.by = "write")
              \/ left = {c} /\ pc' = "flash" /\ UNCHANGED <<call, behind>>
    BY <1>8, SaveWriteCopies
  <2>2. CASE call.by \in {"write", "wrote"} /\ Finish(call.by = "wrote", call.by = "write")
    BY <2>2 DEF Finish
  <2>3. CASE UNCHANGED behind
    <3>1. c \in Cell /\ custNV \in Image /\ custParas \in Image
      BY DEF TypeInv, PlaceOK, NvOK, ParasOK
    <3>2. \A d \in Cell : d \notin left \/ d = c => custNV'[d] = custParas[d]
      BY <2>1, <2>3, <3>1 DEF QuietInv, Settled, Image
    <3>3. CASE left' = left \ {c} /\ pc' = pc
      BY <2>1, <3>2, <3>3 DEF Settled
    <3>4. CASE left = {c} /\ pc' = "flash"
      <4>1. \A d \in Cell : custNV'[d] = custParas'[d]
        BY <2>1, <3>2, <3>4
      <4>2. custNV' \in [Cell -> 0..255] /\ custParas' \in [Cell -> 0..255]
        BY <2>1, <3>1 DEF Image
      <4>3. custNV' = custParas'
        BY <4>1, <4>2
      <4> QED
        BY <3>4, <4>3 DEF Settled
    <3> QED
      BY <2>1, <2>2, <3>3, <3>4
  <2> QED
    BY <2>1, <2>2, <2>3
<1>9. CASE SaveFlash
  <2>1. CASE flash' = custNV /\ Finish(TRUE, FALSE)
    <3>1. UNCHANGED <<custParas, msgs>> /\ pc = "flash" /\ call.by # "write"
      BY <1>9 DEF SaveFlash
    <3>2. ~behind /\ pc' = "idle"
      BY <2>1 DEF Finish
    <3> QED
      BY <2>1, <3>1, <3>2 DEF QuietInv, Settled
  <2>2. CASE Finish(FALSE, TRUE)
    BY <2>2 DEF Finish
  <2> QED
    BY <1>9, <2>1, <2>2 DEF SaveFlash
<1>10. CASE RestoreFlash
  BY <1>10 DEF RestoreFlash, Settled
<1>11. CASE UNCHANGED vars
  BY <1>11 DEF vars, ram, save, QuietInv, Settled
<1> QED
  BY <1>1, <1>2, <1>3, <1>4, <1>5, <1>6, <1>7, <1>8, <1>9, <1>10, <1>11
     DEF Next, Asks, Save

(* Once no message waits and nothing failed, flash is the working copy.    *)
THEOREM QuietIsSavedInvariant == Spec => []QuietIsSaved
<1>1. Init => QuietInv
  BY DEF Init, QuietInv, Settled
<1>2. TypeInv /\ QuietInv /\ [Next]_vars => QuietInv'
  BY QuietStep
<1>3. QuietInv => QuietIsSaved
  BY DEF QuietInv, Settled, QuietIsSaved
<1> QED
  BY <1>1, <1>2, <1>3, Typed, PTL DEF Spec
=============================================================================

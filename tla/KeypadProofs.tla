---------------------------- MODULE KeypadProofs ----------------------------
(***************************************************************************)
(* Proofs about Keypad, for every keyboard with a star and a hash and      *)
(* every size of the buffer.  What kp.c keeps in a state and a buffer must *)
(* tell the same story: InputInv ties each state to the shape of the keys  *)
(* that lead to it.  Then every code and every error is reported for what  *)
(* it is, since one more key either keeps a shape or ends it.              *)
(***************************************************************************)
EXTENDS Keypad, TLAPS

(* The keys in the buffer while the machine is in a state; it has room,    *)
(* since a full buffer is always reported and cleared.                     *)
Shape(state, s) ==
  CASE state = "IDLE" -> s = <<>>
    [] state = "CUS_START" -> Len(s) >= 1 /\ AreDigits(s, 1, Len(s))
    [] state = "MNM_CMD_START" -> Len(s) = 1 /\ s[1] = "*"
    [] state = "MNM_START" -> Len(s) >= 2 /\ s[1] = "*" /\ AreDigits(s, 2, Len(s))
    [] state = "CMD_START" ->
         Len(s) >= 2 /\ s[1] = "*" /\ s[2] = "#" /\ AreDigits(s, 3, Len(s))
    [] OTHER -> FALSE

InputInv ==
  /\ pc # "report" => Shape(inputState, inputBuf) /\ Len(inputBuf) < KP_MAX_INPUT
  /\ pc = "log" => got \in Mapped

(* A star or a hash is no digit.                                           *)
LEMMA NoDigits == "*" \notin MappedDigit /\ "#" \notin MappedDigit /\ "*" # "#"
  BY DEF MappedDigit

(* A key that is mapped is a digit or ends the input.                      *)
LEMMA KeyIsMapped == \A k \in Mapped : k \in MappedDigit \/ k = "*" \/ k = "#"
  BY DEF Mapped

(* What is known of the keys once one more is stored.                      *)
LEMMA Stored ==
  ASSUME NEW s \in Seq(Mapped), NEW k \in Mapped
  PROVE  /\ Append(s, k) \in Seq(Mapped)
         /\ Len(Append(s, k)) = Len(s) + 1
         /\ Append(s, k)[Len(s) + 1] = k
         /\ \A i \in 1..Len(s) : Append(s, k)[i] = s[i]
  OBVIOUS

(* One more key that the machine goes on with.                             *)
LEMMA GoesOn ==
  ASSUME NEW s \in Seq(Mapped), NEW k \in Mapped, NEW state, Shape(state, s),
         CodeOf(kp_CodeProcess(state, k)) = "none"
  PROVE  /\ Shape(kp_CodeProcess(state, k), Append(s, k))
         /\ k = "#" => Len(s) = 1
<1> DEFINE t == Append(s, k)
<1>0. /\ Len(s) \in Nat /\ Len(t) = Len(s) + 1
      /\ t[Len(s) + 1] = k /\ \A i \in 1..Len(s) : t[i] = s[i]
  BY Stored
<1> HIDE DEF t
<1>1. CASE state = "IDLE"
  BY <1>1, <1>0, NoDigits, KeyIsMapped DEF Shape, CodeOf, kp_CodeProcess, AreDigits
<1>2. CASE state = "CUS_START"
  <2>1. k \in MappedDigit /\ kp_CodeProcess(state, k) = "CUS_START"
    BY <1>2, NoDigits, KeyIsMapped DEF CodeOf, kp_CodeProcess
  <2>2. Len(t) >= 1 /\ AreDigits(t, 1, Len(t))
    BY <1>2, <1>0, <2>1 DEF Shape, AreDigits
  <2>3. Shape("CUS_START", t)
    BY <2>2 DEF Shape
  <2> QED
    BY <2>1, <2>3, NoDigits DEF t
<1>3. CASE state = "MNM_CMD_START"
  <2>0. Len(s) = 1 /\ s[1] = "*"
    BY <1>3 DEF Shape
  <2>1. Len(s) = 1 /\ Len(t) = 2 /\ t[1] = "*" /\ t[2] = k
    BY <2>0, <1>0
  <2>2. CASE k \in MappedDigit
    <3>1. kp_CodeProcess(state, k) = "MNM_START"
      BY <1>3, <2>2, NoDigits DEF kp_CodeProcess
    <3>2. AreDigits(t, 2, Len(t))
      BY <2>1, <2>2 DEF AreDigits
    <3>3. Shape("MNM_START", t)
      BY <2>1, <3>2 DEF Shape
    <3> QED
      BY <2>1, <3>1, <3>3 DEF t
  <2>3. CASE k = "#"
    <3>1. kp_CodeProcess(state, k) = "CMD_START"
      BY <1>3, <2>3, NoDigits DEF kp_CodeProcess
    <3>2. AreDigits(t, 3, Len(t))
      BY <2>1 DEF AreDigits
    <3>3. Shape("CMD_START", t)
      BY <2>1, <2>3, <3>2 DEF Shape
    <3> QED
      BY <2>1, <3>1, <3>3 DEF t
  <2>4. k # "*"
    BY <1>3, NoDigits DEF kp_CodeProcess, CodeOf
  <2> QED
    BY <2>2, <2>3, <2>4, KeyIsMapped
<1>4. CASE state = "MNM_START"
  BY <1>4, <1>0, NoDigits, KeyIsMapped DEF Shape, CodeOf, kp_CodeProcess, AreDigits
<1>5. CASE state = "CMD_START"
  BY <1>5, <1>0, NoDigits, KeyIsMapped DEF Shape, CodeOf, kp_CodeProcess, AreDigits
<1> QED
  BY <1>1, <1>2, <1>3, <1>4, <1>5 DEF Shape, t

(* A key that completes a code completes the code it is reported as.       *)
LEMMA Completes ==
  ASSUME NEW s \in Seq(Mapped), NEW k \in Mapped, NEW state, Shape(state, s),
         CodeOf(kp_CodeProcess(state, k)) \in {"CUS", "MNM", "CMD"}
  PROVE  IsCode(Append(s, k)) = CodeOf(kp_CodeProcess(state, k))
<1> DEFINE t == Append(s, k)
<1>0. /\ Len(s) \in Nat /\ Len(t) = Len(s) + 1
      /\ t[Len(s) + 1] = k /\ \A i \in 1..Len(s) : t[i] = s[i]
  BY Stored
<1> HIDE DEF t
<1>1. CASE state = "CUS_START"
  <2>1. k = "#" /\ CodeOf(kp_CodeProcess(state, k)) = "CUS"
    BY <1>1, NoDigits, KeyIsMapped DEF CodeOf, kp_CodeProcess
  <2>2. Len(t) >= 2 /\ t[Len(t)] = "#" /\ AreDigits(t, 1, Len(t) - 1)
    BY <1>1, <1>0, <2>1 DEF Shape, AreDigits
  <2>3. t[1] # "*"
    BY <2>2, <1>0, NoDigits DEF AreDigits
  <2>4. IsCode(t) = "CUS"
    BY <2>2, <2>3, <1>0 DEF IsCode
  <2> QED
    BY <2>1, <2>4 DEF t
<1>2. CASE state = "MNM_START"
  <2>1. k = "#" /\ CodeOf(kp_CodeProcess(state, k)) = "MNM"
    BY <1>2, NoDigits, KeyIsMapped DEF CodeOf, kp_CodeProcess
  <2>2. Len(t) > 2 /\ t[Len(t)] = "#" /\ t[1] = "*" /\ AreDigits(t, 2, Len(t) - 1)
    BY <1>2, <1>0, <2>1 DEF Shape, AreDigits
  <2>3. ~AreDigits(t, 1, Len(t) - 1) /\ t[2] # "#"
    BY <1>0, <2>2, NoDigits DEF AreDigits
  <2>4. IsCode(t) = "MNM"
    BY <2>2, <2>3, <1>0 DEF IsCode
  <2> QED
    BY <2>1, <2>4 DEF t
<1>3. CASE state = "CMD_START"
  <2>1. k = "#" /\ CodeOf(kp_CodeProcess(state, k)) = "CMD"
    BY <1>3, NoDigits, KeyIsMapped DEF CodeOf, kp_CodeProcess
  <2>2. /\ Len(t) > 2 /\ t[Len(t)] = "#" /\ t[1] = "*" /\ t[2] = "#"
        /\ AreDigits(t, 3, Len(t) - 1)
    BY <1>3, <1>0, <2>1 DEF Shape, AreDigits
  <2>3. ~AreDigits(t, 1, Len(t) - 1) /\ ~AreDigits(t, 2, Len(t) - 1)
    BY <1>0, <2>2, NoDigits DEF AreDigits
  <2>4. IsCode(t) = "CMD"
    BY <2>2, <2>3, <1>0 DEF IsCode
  <2> QED
    BY <2>1, <2>4 DEF t
<1>4. state \in {"CUS_START", "MNM_START", "CMD_START"}
  BY DEF Shape, CodeOf, kp_CodeProcess
<1> QED
  BY <1>1, <1>2, <1>3, <1>4

(* A key that is refused leaves keys that are no code and begin none.      *)
LEMMA Refuses ==
  ASSUME NEW s \in Seq(Mapped), NEW k \in Mapped, NEW state, Shape(state, s),
         CodeOf(kp_CodeProcess(state, k)) = "ERROR"
  PROVE  IsCode(Append(s, k)) = "none" /\ ~IsStart(Append(s, k))
<1> DEFINE t == Append(s, k)
<1>0. /\ Len(s) \in Nat /\ Len(t) = Len(s) + 1
      /\ t[Len(s) + 1] = k /\ \A i \in 1..Len(s) : t[i] = s[i]
  BY Stored
<1> HIDE DEF t
<1>1. CASE state = "IDLE"
  <2>1. k = "#" /\ Len(t) = 1 /\ t[1] = "#"
    BY <1>1, <1>0, NoDigits, KeyIsMapped DEF Shape, CodeOf, kp_CodeProcess
  <2> QED
    BY <2>1, NoDigits DEF IsCode, IsStart, AreDigits, t
<1>2. CASE state # "IDLE"
  <2>1. k = "*" /\ t[Len(t)] = "*" /\ Len(t) >= 2
    BY <1>2, <1>0, NoDigits, KeyIsMapped DEF Shape, CodeOf, kp_CodeProcess
  <2>2. IsCode(t) = "none"
    BY <2>1, NoDigits DEF IsCode
  <2>3. ~AreDigits(t, 1, Len(t)) /\ ~AreDigits(t, 2, Len(t))
    BY <2>1, NoDigits DEF AreDigits
  <2>4. Len(t) >= 3 => ~AreDigits(t, 3, Len(t))
    BY <2>1, NoDigits DEF AreDigits
  <2>5. Len(t) = 2 => t[2] # "#"
    BY <2>1, NoDigits
  <2> QED
    BY <2>1, <2>2, <2>3, <2>4, <2>5, <1>0 DEF IsStart, t
<1> QED
  BY <1>1, <1>2

(* One step of the machine, with a key that finds a place in the buffer or *)
(* not.                                                                    *)
LEMMA StepsInput ==
  ASSUME TypeOK, InputInv, ReportIsRight, KpSteps
  PROVE  InputInv' /\ ReportIsRight'
<1> DEFINE t == Append(inputBuf, got)
           next == kp_CodeProcess(inputState, got)
<1>0. t = Append(inputBuf, got) /\ next = kp_CodeProcess(inputState, got)
  OBVIOUS
<1> HIDE DEF t, next
<1>1. /\ pc = "log" /\ got \in Mapped /\ inputBuf \in Seq(Mapped)
      /\ Shape(inputState, inputBuf) /\ Len(inputBuf) < KP_MAX_INPUT
      /\ Len(inputBuf) \in Nat /\ Len(t) = Len(inputBuf) + 1
  BY <1>0, Stored DEF KpSteps, TypeOK, InputInv
<1>2. kp_PushKey(got).buf = t /\ inputBuf' = t
  BY <1>0, <1>1 DEF KpSteps, kp_PushKey
<1>3. kp_PushKey(got).ok <=> Len(t) < KP_MAX_INPUT \/ got = "#"
  BY <1>0, <1>1 DEF kp_PushKey
<1>4. CASE ~kp_PushKey(got).ok
  <2>1. pc' = "report" /\ report' = [code |-> "ERROR", keys |-> t]
    BY <1>2, <1>4 DEF KpSteps
  <2>2. t[Len(t)] # "#" /\ Len(t) = KP_MAX_INPUT
    BY <1>0, <1>1, <1>3, <1>4, Stored, InputAssumption
  <2>3. IsCode(t) = "none"
    BY <2>2 DEF IsCode
  <2> QED
    BY <2>1, <2>2, <2>3 DEF InputInv, ReportIsRight
<1>5. CASE kp_PushKey(got).ok
  <2>1. inputState' = next
    BY <1>0, <1>5 DEF KpSteps
  <2>2. CodeOf(next) \in {"none", "CUS", "MNM", "CMD", "ERROR"}
    BY DEF CodeOf
  <2>3. CASE CodeOf(next) = "none"
    <3>1. pc' = "pend" /\ report' = report
      BY <1>0, <1>5, <2>3 DEF KpSteps
    <3>2. Shape(next, t) /\ (got = "#" => Len(inputBuf) = 1)
      BY <1>0, <1>1, <2>3, GoesOn
    <3>3. CASE got = "#"
      <4>1. Len(inputBuf) = 1
        BY <3>2, <3>3
      <4>2. Len(t) < KP_MAX_INPUT
        BY <1>1, <4>1, InputAssumption
      <4> QED
        BY <1>2, <2>1, <3>1, <3>2, <4>2 DEF InputInv, ReportIsRight
    <3>4. CASE Len(t) < KP_MAX_INPUT
      BY <1>2, <2>1, <3>1, <3>2, <3>4 DEF InputInv, ReportIsRight
    <3> QED
      BY <1>3, <1>5, <3>3, <3>4
  <2>4. CASE CodeOf(next) # "none"
    <3>1. pc' = "report" /\ report' = [code |-> CodeOf(next), keys |-> t]
      BY <1>0, <1>2, <1>5, <2>4 DEF KpSteps
    <3>2. CodeOf(next) \in {"CUS", "MNM", "CMD"} => IsCode(t) = CodeOf(next)
      BY <1>0, <1>1, Completes
    <3>3. CodeOf(next) = "ERROR" => IsCode(t) = "none" /\ ~IsStart(t)
      BY <1>0, <1>1, Refuses
    <3> QED
      BY <3>1, <3>2, <3>3 DEF InputInv, ReportIsRight
  <2> QED
    BY <2>3, <2>4
<1> QED
  BY <1>4, <1>5

(* Every step leaves each variable in its type.                            *)
LEMMA TypeInductive == TypeOK /\ InputInv /\ [Next]_vars => TypeOK'
<1> SUFFICES ASSUME TypeOK, InputInv, [Next]_vars PROVE TypeOK'
  OBVIOUS
<1> USE DEF TypeOK
<1>1. CASE Presses
  BY <1>1 DEF Presses, FallingEdge, input
<1>2. CASE Bounces
  BY <1>2 DEF Bounces, FallingEdge, input
<1>3. CASE Releases
  BY <1>3 DEF Releases, input
<1>4. CASE gpioin_KPIntChangeHandler
  BY <1>4 DEF gpioin_KPIntChangeHandler, input
<1>5. CASE KpTakes
  BY <1>5 DEF KpTakes, environment, input
<1>6. CASE KpReads
  <2>1. UNCHANGED <<key, clock, transSem, inputBuf, inputState, report>>
    BY <1>6 DEF KpReads
  <2>2. answered' = TRUE /\ pc' \in {"pend", "log"} /\ got' \in Mapped \cup {None}
    BY <1>6 DEF KpReads
  <2> QED
    BY <2>1, <2>2
<1>7. CASE KpSteps
  <2>1. UNCHANGED <<key, answered, clock, transSem, got>> /\ pc' \in {"pend", "report"}
    BY <1>7 DEF KpSteps, environment
  <2>2. got \in Mapped /\ Len(inputBuf) < KP_MAX_INPUT /\ Len(inputBuf) \in Nat
    BY <1>7 DEF KpSteps, InputInv
  <2>3. inputBuf' = Append(inputBuf, got)
    BY <1>7, <2>2 DEF KpSteps, kp_PushKey
  <2>4. inputBuf' \in Seq(Mapped) /\ Len(inputBuf') <= KP_MAX_INPUT
    BY <2>2, <2>3, Stored, InputAssumption
  <2>5. inputState' \in {"IDLE", "CUS_START", "MNM_CMD_START", "MNM_START", "CMD_START",
                         "CUS_DONE", "MNM_DONE", "CMD_DONE", "ERROR"}
    <3>1. inputState' \in {inputState, kp_CodeProcess(inputState, got)}
      BY <1>7 DEF KpSteps
    <3> QED
      BY <3>1 DEF kp_CodeProcess
  <2>6. \/ UNCHANGED report
        \/ \E code \in {"none", "CUS", "MNM", "CMD", "ERROR"} :
             report' = [code |-> code, keys |-> inputBuf']
    <3>1. CodeOf(kp_CodeProcess(inputState, got)) \in {"none", "CUS", "MNM", "CMD", "ERROR"}
      BY DEF CodeOf
    <3> QED
      BY <1>7, <3>1 DEF KpSteps
  <2>7. report'.code \in {"none", "CUS", "MNM", "CMD", "ERROR"} /\ report'.keys \in Seq(Mapped)
    BY <2>4, <2>6
  <2> QED
    BY <2>1, <2>4, <2>5, <2>7
<1>8. CASE KpClears
  BY <1>8, InputAssumption DEF KpClears, environment
<1>9. CASE UNCHANGED vars
  BY <1>9 DEF vars, environment, input
<1> QED
  BY <1>1, <1>2, <1>3, <1>4, <1>5, <1>6, <1>7, <1>8, <1>9 DEF Next, KpTask

(* Every step keeps the shape of the keys, and reports them for what they  *)
(* are.                                                                    *)
LEMMA InputInductive ==
  TypeOK /\ InputInv /\ ReportIsRight /\ [Next]_vars => InputInv' /\ ReportIsRight'
<1> SUFFICES ASSUME TypeOK, InputInv, ReportIsRight, [Next]_vars
             PROVE  InputInv' /\ ReportIsRight'
  OBVIOUS
<1>1. CASE UNCHANGED <<pc, got, inputBuf, inputState, report>>
  BY <1>1 DEF InputInv, ReportIsRight
<1>2. CASE KpTakes
  BY <1>2 DEF KpTakes, input, InputInv, ReportIsRight
<1>3. CASE KpReads
  BY <1>3 DEF KpReads, InputInv, ReportIsRight
<1>4. CASE KpSteps
  BY <1>4, StepsInput
<1>5. CASE KpClears
  <2>1. Shape("IDLE", <<>>) /\ Len(<<>>) < KP_MAX_INPUT
    BY InputAssumption DEF Shape
  <2> QED
    BY <1>5, <2>1 DEF KpClears, InputInv, ReportIsRight
<1> QED
  BY <1>1, <1>2, <1>3, <1>4, <1>5
     DEF Next, KpTask, Presses, Bounces, Releases, gpioin_KPIntChangeHandler, vars, input

(* The story holds from the start on.                                      *)
LEMMA InputAlways == Spec => [](TypeOK /\ InputInv /\ ReportIsRight)
<1>1. ASSUME Init PROVE TypeOK /\ InputInv /\ ReportIsRight
  <2>1. Shape("IDLE", <<>>) /\ Len(<<>>) = 0 /\ <<>> \in Seq(Mapped)
    BY DEF Shape
  <2>2. TypeOK
    <3>1. inputBuf \in Seq(Mapped) /\ Len(inputBuf) <= KP_MAX_INPUT
      BY <1>1, <2>1, InputAssumption DEF Init
    <3>2. report.code = "none" /\ report.keys \in Seq(Mapped)
      BY <1>1, <2>1 DEF Init
    <3> QED
      BY <1>1, <3>1, <3>2 DEF Init, TypeOK
  <2>3. InputInv
    BY <1>1, <2>1, InputAssumption DEF Init, InputInv
  <2>4. ReportIsRight
    BY <1>1 DEF Init, ReportIsRight
  <2> QED
    BY <2>2, <2>3, <2>4
<1>2. TypeOK /\ InputInv /\ ReportIsRight /\ [Next]_vars
      => TypeOK' /\ InputInv' /\ ReportIsRight'
  BY TypeInductive, InputInductive
<1> QED
  BY <1>1, <1>2, PTL DEF Spec

(* Every variable of the key task keeps its type, and the buffer its size: *)
(* the store of kp_PushKey never writes past inputBuff (kp.c).             *)
THEOREM TypeCorrect == Spec => []TypeOK
  BY InputAlways, PTL

(* Whatever keys are pressed, a code is reported exactly when the keys are *)
(* one, and an error only when they cannot become one (kp_CodeProcess).    *)
THEOREM ReportIsRightInvariant == Spec => []ReportIsRight
  BY InputAlways, PTL

(* Whenever the key task waits for a key, what it has is the beginning of  *)
(* a code that has room to end: it never waits with a buffer nobody clears.*)
THEOREM WaitsOnlyForCodesInvariant == Spec => []WaitsOnlyForCodes
<1>1. ASSUME TypeOK, InputInv, pc = "pend", inputBuf # <<>> PROVE IsStart(inputBuf)
  <2>1. Shape(inputState, inputBuf) /\ Len(inputBuf) \in Nat
    BY <1>1 DEF InputInv, TypeOK
  <2>2. CASE inputState = "MNM_CMD_START"
    <3>1. Len(inputBuf) = 1 /\ inputBuf[1] = "*"
      BY <2>1, <2>2 DEF Shape
    <3>2. AreDigits(inputBuf, 2, Len(inputBuf))
      BY <3>1 DEF AreDigits
    <3> QED
      BY <3>1, <3>2 DEF IsStart
  <2> QED
    BY <1>1, <2>1, <2>2 DEF Shape, IsStart
<1>2. TypeOK /\ InputInv => WaitsOnlyForCodes
  BY <1>1 DEF InputInv, WaitsOnlyForCodes
<1> QED
  BY <1>2, InputAlways, PTL
=============================================================================

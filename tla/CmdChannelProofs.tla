--------------------------- MODULE CmdChannelProofs -------------------------
(***************************************************************************)
(* Proofs about CmdChannel, for any bytes, room, chunks and mishaps:       *)
(* types, that the copy of the command task stays the front of the ring    *)
(* buffer, that no wake-up is lost, that the port implements LineStream,   *)
(* and that a port that sleeps can take more: pieces of lines which an     *)
(* overflow leaves behind are three at the most, and none is longer than   *)
(* the host's longest line.                                                *)
(***************************************************************************)
EXTENDS CmdChannel, FiniteSetTheorems, WellFoundedInduction, TLAPS

(* A set of numbers that is not empty has a least one.                     *)
LEMMA Least ==
  ASSUME NEW T, T \subseteq Nat, T # {}
  PROVE  \E x \in T : \A y \in T : x <= y
<1> DEFINE below == OpToRel(<, Nat)
<1>1. IsWellFoundedOn(below, Nat)
  BY NatLessThanWellFounded, Zenon
<1>2. \A x, y \in Nat : x < y => <<x, y>> \in below
  BY DEF OpToRel
<1> HIDE DEF below
<1>3. PICK x \in T : \A y \in T : ~ (<<y, x>> \in below)
  BY <1>1, WFMin
<1>4. \A y \in T : ~ (y < x)
  BY <1>2, <1>3, Zenon
<1>5. \A y \in T : x <= y
  BY <1>4
<1> QED
  BY <1>5

(* What is left of a sequence, and the front of one.                       *)
LEMMA RestFacts ==
  ASSUME NEW S, NEW s \in Seq(S), NEW i \in 0..Len(s)
  PROVE  /\ Rest(s, i) \in Seq(S) /\ Len(Rest(s, i)) = Len(s) - i
         /\ \A j \in 1..Len(s) - i : Rest(s, i)[j] = s[i + j]
BY DEF Rest

(* The front of a sequence.                                                *)
LEMMA FrontFacts ==
  ASSUME NEW S, NEW s \in Seq(S), NEW i \in 0..Len(s)
  PROVE  /\ SubSeq(s, 1, i) \in Seq(S) /\ Len(SubSeq(s, 1, i)) = i
         /\ \A j \in 1..i : SubSeq(s, 1, i)[j] = s[j]
OBVIOUS

(* A piece cut from the middle of a sequence.                              *)
LEMMA CutFacts ==
  ASSUME NEW S, NEW s \in Seq(S), NEW i \in 0..Len(s), NEW e \in 1..Len(s) - i
  PROVE  /\ SubSeq(s, i + 1, i + e) \in Seq(S) /\ Len(SubSeq(s, i + 1, i + e)) = e
         /\ \A j \in 1..e : SubSeq(s, i + 1, i + e)[j] = s[i + j]
OBVIOUS

(* A sequence and what is appended to it.                                  *)
LEMMA ConcatFacts ==
  ASSUME NEW S, NEW s \in Seq(S), NEW x \in Seq(S)
  PROVE  /\ s \o x \in Seq(S) /\ Len(s \o x) = Len(s) + Len(x)
         /\ \A j \in 1..Len(s) : (s \o x)[j] = s[j]
         /\ \A j \in 1..Len(x) : (s \o x)[Len(s) + j] = x[j]
OBVIOUS

(* Sequences of the same elements are the same.                            *)
LEMMA SameSeq ==
  ASSUME NEW S, NEW s \in Seq(S), NEW t \in Seq(S), Len(s) = Len(t),
         \A j \in 1..Len(s) : s[j] = t[j]
  PROVE  s = t
OBVIOUS

(* The ends of lines, one by one.                                          *)
LEMMA EndsFacts ==
  ASSUME NEW s
  PROVE  \A i : i \in Ends(s) <=> i \in 2..Len(s) /\ s[i - 1] = "r" /\ s[i] = "n"
BY DEF Ends

(* Of the ends of lines in a sequence, if any, there is a last one.        *)
LEMMA LastEnd ==
  ASSUME NEW S, NEW s \in Seq(S)
  PROVE  \E l \in Ends(s) \cup {0} : \A f \in Ends(s) : f <= l
<1> DEFINE ends == Ends(s) \cup {0}
           far == {Len(s) - i : i \in ends}
<1>1. Len(s) \in Nat
  OBVIOUS
<1>2. ends \subseteq 0..Len(s) /\ 0 \in ends /\ Ends(s) \subseteq ends
  BY <1>1, EndsFacts
<1> HIDE DEF ends
<1>3. far \subseteq Nat /\ far # {}
  BY <1>1, <1>2
<1>4. \E m \in far : \A d \in far : m <= d
  BY <1>3, Least
<1>5. PICK i \in ends : \A j \in ends : Len(s) - i <= Len(s) - j
  BY <1>4
<1>6. \A j \in ends : j <= i
  BY <1>1, <1>2, <1>5
<1> QED
  BY <1>2, <1>6 DEF ends

(* What strstr sees is a front.                                            *)
LEMMA VisibleFacts ==
  ASSUME NEW S, NEW s \in Seq(S)
  PROVE  \E n \in 0..Len(s) : Visible(s) = SubSeq(s, 1, n)
<1> DEFINE nuls == {i \in 1..Len(s) : s[i] = "0"}
<1>1. CASE nuls = {}
  <2>1. Visible(s) = s
    BY <1>1 DEF Visible
  <2>2. s = SubSeq(s, 1, Len(s)) /\ Len(s) \in 0..Len(s)
    OBVIOUS
  <2> QED
    BY <2>1, <2>2
<1>2. CASE nuls # {}
  <2> DEFINE m == CHOOSE i \in nuls : \A j \in nuls : i <= j
  <2>1. \E i \in nuls : \A j \in nuls : i <= j
    <3>1. nuls \in SUBSET Nat
      OBVIOUS
    <3> HIDE DEF nuls
    <3> QED
      BY <1>2, <3>1, Least
  <2>2. m \in 1..Len(s)
    BY <2>1
  <2>3. Visible(s) = SubSeq(s, 1, m - 1)
    BY <1>2 DEF Visible
  <2> HIDE DEF m
  <2> QED
    BY <2>2, <2>3
<1> QED
  BY <1>1, <1>2

(* The ends of lines strstr sees in a piece of a buffer are ends in it;    *)
(* the first one seen is the first one.                                    *)
LEMMA VisibleEnds ==
  ASSUME NEW S, NEW s \in Seq(S), NEW t \in Seq(S), Len(s) <= Len(t),
         \A j \in 1..Len(s) : s[j] = t[j], NEW e \in Ends(Visible(s)),
         \A f \in Ends(Visible(s)) : e <= f
  PROVE  e \in 2..Len(s) /\ e \in Ends(t) /\ \A f \in Ends(t) : e <= f
<1>1. PICK n \in 0..Len(s) : Visible(s) = SubSeq(s, 1, n)
  BY VisibleFacts
<1>2. /\ SubSeq(s, 1, n) \in Seq(S) /\ Len(SubSeq(s, 1, n)) = n
      /\ \A j \in 1..n : SubSeq(s, 1, n)[j] = s[j]
  BY FrontFacts
<1>3. e \in 2..n /\ s[e - 1] = "r" /\ s[e] = "n"
  BY <1>1, <1>2 DEF Ends
<1>4. e \in Ends(t)
  BY <1>3 DEF Ends
<1>5. ASSUME NEW f \in Ends(t), f < e PROVE FALSE
  <2>1. f \in 2..n /\ t[f - 1] = "r" /\ t[f] = "n"
    BY <1>3, <1>5 DEF Ends
  <2>2. s[f - 1] = "r" /\ s[f] = "n"
    BY <2>1
  <2>3. f \in Ends(Visible(s))
    BY <1>1, <1>2, <2>1, <2>2 DEF Ends
  <2> QED
    BY <1>3, <1>5, <2>3
<1>6. \A f \in Ends(t) : f \in Nat
  BY DEF Ends
<1> QED
  BY <1>3, <1>4, <1>5, <1>6

----------------------------------------------------------------------------
(* Types, and the copy.                                                    *)
BufOK == cmdRxBuf \in Seq(Byte) /\ Len(cmdRxBuf) <= Capacity
PlaceOK == cmdCmdSem \in {0, 1} /\ pc \in {"pend", "cut", "handle"}
CopyOK == cmd \in Seq(Byte) /\ sizesize \in 0..Len(cmd)
LineOK == line \in Seq(Byte) /\ (line = <<>> <=> pc # "handle")
HostOK == hostLine \in Seq(Byte) /\ mishaps \in 0..MaxMishaps /\ wiped \in Nat

(* The copy is the front of the buffer, and empty while the task pends.    *)
FrontOK ==
  /\ Len(cmd) <= Len(cmdRxBuf)
  /\ \A j \in 1..Len(cmd) : cmd[j] = cmdRxBuf[j]
  /\ pc = "pend" => cmd = <<>>

TypeInv == BufOK /\ PlaceOK /\ CopyOK /\ LineOK /\ HostOK /\ FrontOK

(* The types hold at first.                                                *)
LEMMA TypeInit == Init => TypeInv
BY CapacityAssumption, MishapsAssumption
   DEF Init, TypeInv, BufOK, PlaceOK, CopyOK, LineOK, HostOK, FrontOK

(* What UART_read gives is a sequence of bytes.                            *)
LEMMA ChunkType ==
  ASSUME NEW n \in Nat, NEW chunk \in [1..n -> Byte]
  PROVE  chunk \in Seq(Byte)
OBVIOUS

(* What the host sends.                                                    *)
LEMMA HostType ==
  ASSUME HostOK, NEW n \in 1..MaxChunk, NEW chunk \in [1..n -> Byte], HostSends(chunk)
  PROVE  hostLine' \in Seq(Byte) /\ mishaps' \in 0..MaxMishaps /\ mishaps' >= mishaps
<1> DEFINE sent == hostLine \o chunk
           ends == Ends(sent) \cup {0}
           last == CHOOSE i \in ends : \A j \in Ends(sent) : j <= i
           nuls == {i \in 1..Len(chunk) : chunk[i] = "0"}
<1>1. n \in Nat /\ chunk \in Seq(Byte)
  BY MaxChunkAssumption, ChunkType
<1>2. sent \in Seq(Byte)
  BY <1>1 DEF HostOK
<1>3. last \in 0..Len(sent)
  <2> HIDE DEF sent
  <2>1. last \in Ends(sent) \cup {0}
    BY <1>2, LastEnd
  <2>2. Len(sent) \in Nat
    BY <1>2
  <2> HIDE DEF last
  <2> QED
    BY <2>1, <2>2, EndsFacts
<1>4. hostLine' = Rest(sent, last)
  BY DEF HostSends
<1>5. hostLine' \in Seq(Byte)
  <2> HIDE DEF sent, last
  <2> QED
    BY <1>2, <1>3, <1>4, RestFacts
<1>6. Cardinality(nuls) \in Nat
  <2>1. IsFiniteSet(1..Len(chunk)) /\ nuls \subseteq 1..Len(chunk)
    BY <1>1, FS_Interval
  <2> HIDE DEF nuls
  <2> QED
    BY <2>1, FS_Subset, FS_CardinalityType
<1>7. /\ mishaps' = mishaps + Cardinality(nuls)
      /\ mishaps + wiped + Cardinality(nuls) <= MaxMishaps
  BY DEF HostSends
<1> HIDE DEF nuls
<1> QED
  BY <1>5, <1>6, <1>7, MishapsAssumption DEF HostOK

(* What the ring buffer accepts is put behind what it has.                 *)
LEMMA WriteType ==
  ASSUME BufOK, NEW n \in 1..MaxChunk, NEW chunk \in [1..n -> Byte],
         Ringbuff_write(chunk)
  PROVE  /\ BufOK' /\ Len(cmdRxBuf') >= Len(cmdRxBuf)
         /\ \A j \in 1..Len(cmdRxBuf) : cmdRxBuf'[j] = cmdRxBuf[j]
<1> DEFINE all == cmdRxBuf \o chunk
           m == IF Len(all) < Capacity THEN Len(all) ELSE Capacity
<1>1. n \in Nat /\ chunk \in Seq(Byte)
  BY MaxChunkAssumption, ChunkType
<1>2. /\ all \in Seq(Byte) /\ Len(all) >= Len(cmdRxBuf)
      /\ \A j \in 1..Len(cmdRxBuf) : all[j] = cmdRxBuf[j]
  BY <1>1 DEF BufOK
<1>3. cmdRxBuf' = SubSeq(all, 1, m)
  BY DEF Ringbuff_write
<1> HIDE DEF all
<1>4. m \in 0..Len(all) /\ m <= Capacity /\ m >= Len(cmdRxBuf)
  BY <1>2, CapacityAssumption DEF BufOK
<1> HIDE DEF m
<1>5. /\ cmdRxBuf' \in Seq(Byte) /\ Len(cmdRxBuf') = m
      /\ \A j \in 1..m : cmdRxBuf'[j] = all[j]
  BY <1>2, <1>3, <1>4, FrontFacts
<1> QED
  BY <1>2, <1>4, <1>5 DEF BufOK

(* A line is cut.                                                          *)
LEMMA CutType ==
  ASSUME TypeInv, NEW e \in Ends(Visible(Rest(cmd, sizesize))),
         \A f \in Ends(Visible(Rest(cmd, sizesize))) : e <= f
  PROVE  /\ sizesize + e \in 0..Len(cmd) /\ e \in 1..Len(cmd) - sizesize
         /\ e \in Ends(Rest(cmdRxBuf, sizesize))
         /\ \A f \in Ends(Rest(cmdRxBuf, sizesize)) : e <= f
<1> DEFINE s == Rest(cmd, sizesize)
           t == Rest(cmdRxBuf, sizesize)
<1>1. /\ s \in Seq(Byte) /\ Len(s) = Len(cmd) - sizesize
      /\ \A j \in 1..Len(cmd) - sizesize : s[j] = cmd[sizesize + j]
  BY RestFacts DEF TypeInv, CopyOK
<1>2. /\ t \in Seq(Byte) /\ Len(t) = Len(cmdRxBuf) - sizesize
      /\ \A j \in 1..Len(cmdRxBuf) - sizesize : t[j] = cmdRxBuf[sizesize + j]
  <2>1. cmdRxBuf \in Seq(Byte) /\ sizesize \in 0..Len(cmdRxBuf)
    BY DEF TypeInv, BufOK, CopyOK, FrontOK
  <2> QED
    BY <2>1, RestFacts
<1> HIDE DEF s, t
<1>3. Len(s) <= Len(t) /\ \A j \in 1..Len(s) : s[j] = t[j]
  BY <1>1, <1>2 DEF TypeInv, BufOK, CopyOK, FrontOK
<1>4. e \in 2..Len(s) /\ e \in Ends(t) /\ \A f \in Ends(t) : e <= f
  BY <1>1, <1>2, <1>3, VisibleEnds DEF s
<1> QED
  BY <1>1, <1>4 DEF t, TypeInv, CopyOK

(* The receive task keeps the types, posts the semaphore, and only adds to *)
(* the buffer.                                                             *)
LEMMA ReceiveType ==
  ASSUME TypeInv, RxReceives
  PROVE  /\ TypeInv' /\ cmdCmdSem' = 1 /\ UNCHANGED task /\ mishaps' >= mishaps
         /\ Len(cmdRxBuf') >= Len(cmdRxBuf)
         /\ \A j \in 1..Len(cmdRxBuf) : cmdRxBuf'[j] = cmdRxBuf[j]
<1>1. PICK n \in 1..MaxChunk : \E chunk \in [1..n -> Byte] :
        HostSends(chunk) /\ Ringbuff_write(chunk)
  BY DEF RxReceives
<1>2. HostOK' /\ mishaps' >= mishaps
  BY <1>1, HostType DEF RxReceives, TypeInv, HostOK
<1>3. /\ BufOK' /\ Len(cmdRxBuf') >= Len(cmdRxBuf)
      /\ \A j \in 1..Len(cmdRxBuf) : cmdRxBuf'[j] = cmdRxBuf[j]
  BY <1>1, WriteType DEF TypeInv
<1>4. cmdCmdSem' = 1 /\ UNCHANGED <<pc, cmd, sizesize, line>>
  BY DEF RxReceives, task
<1>5. PlaceOK' /\ CopyOK' /\ LineOK'
  BY <1>4 DEF TypeInv, PlaceOK, CopyOK, LineOK
<1>6. FrontOK'
  BY <1>3, <1>4 DEF TypeInv, FrontOK, BufOK, CopyOK
<1> QED
  BY <1>2, <1>3, <1>4, <1>5, <1>6 DEF TypeInv, task

(* A lost read changes only what the host has sent.                        *)
LEMMA WipeType ==
  ASSUME TypeInv, RxWipes
  PROVE  /\ TypeInv' /\ mishaps' >= mishaps /\ wiped' = wiped + 1
         /\ UNCHANGED <<cmdRxBuf, cmdCmdSem, pc, cmd, sizesize, line>>
<1>1. PICK n \in 1..MaxChunk : \E chunk \in [1..n -> Byte] : HostSends(chunk)
  BY DEF RxWipes
<1>2. UNCHANGED <<cmdRxBuf, cmdCmdSem, pc, cmd, sizesize, line>> /\ wiped' = wiped + 1
  BY DEF RxWipes, task
<1>3. HostOK' /\ mishaps' >= mishaps
  BY <1>1, <1>2, HostType DEF TypeInv, HostOK
<1>4. BufOK' /\ PlaceOK' /\ CopyOK' /\ LineOK' /\ FrontOK'
  BY <1>2 DEF TypeInv, BufOK, PlaceOK, CopyOK, LineOK, FrontOK
<1> QED
  BY <1>2, <1>3, <1>4 DEF TypeInv

(* The command task keeps the types.                                       *)
LEMMA CmdType ==
  ASSUME TypeInv, CmdTask
  PROVE  TypeInv' /\ mishaps' >= mishaps /\ wiped' = wiped
<1>1. CASE CmdWakes
  <2>1. cmdCmdSem' = 0 /\ UNCHANGED <<cmdRxBuf, line, hostLine, wiped>> /\ pc = "pend"
    BY <1>1 DEF CmdWakes
  <2>2. HostOK' /\ mishaps' >= mishaps
    BY <1>1, MishapsAssumption DEF CmdWakes, MallocFails, TypeInv, HostOK
  <2>3. CASE pc' = "cut" /\ cmd' = cmdRxBuf /\ sizesize' = 0
    BY <2>1, <2>2, <2>3
       DEF TypeInv, BufOK, PlaceOK, CopyOK, LineOK, FrontOK
  <2>4. CASE UNCHANGED <<pc, cmd, sizesize>>
    BY <2>1, <2>2, <2>4
       DEF TypeInv, BufOK, PlaceOK, CopyOK, LineOK, FrontOK
  <2> QED
    BY <1>1, <2>3, <2>4 DEF CmdWakes
<1>2. CASE CmdCuts
  <2>1. PICK e \in Ends(Visible(Rest(cmd, sizesize))) :
          /\ \A f \in Ends(Visible(Rest(cmd, sizesize))) : e <= f
          /\ sizesize' = sizesize + e
          /\ \/ /\ pc' = "handle" /\ line' = SubSeq(cmd, sizesize + 1, sizesize + e)
                /\ UNCHANGED mishaps
             \/ MallocFails /\ UNCHANGED <<pc, line>>
    BY <1>2 DEF CmdCuts
  <2>2. UNCHANGED <<cmdRxBuf, cmdCmdSem, cmd, hostLine, wiped>> /\ pc = "cut"
    BY <1>2 DEF CmdCuts
  <2>3. sizesize' \in 0..Len(cmd) /\ e \in 1..Len(cmd) - sizesize
    BY <2>1, CutType
  <2>4. HostOK' /\ mishaps' >= mishaps
    BY <2>1, <2>2, MishapsAssumption DEF MallocFails, TypeInv, HostOK
  <2>5. LineOK'
    <3>1. cmd \in Seq(Byte) /\ sizesize \in 0..Len(cmd)
      BY DEF TypeInv, CopyOK
    <3>2. /\ SubSeq(cmd, sizesize + 1, sizesize + e) \in Seq(Byte)
          /\ Len(SubSeq(cmd, sizesize + 1, sizesize + e)) = e /\ e > 0
      BY <2>3, <3>1, CutFacts
    <3>3. CASE pc' = "handle" /\ line' = SubSeq(cmd, sizesize + 1, sizesize + e)
      <4>1. Len(line') > 0
        BY <3>2, <3>3
      <4>2. line' # <<>>
        BY <4>1
      <4> QED
        BY <3>2, <3>3, <4>2 DEF LineOK
    <3>4. CASE UNCHANGED <<pc, line>>
      BY <3>4 DEF TypeInv, LineOK
    <3> QED
      BY <2>1, <3>3, <3>4
  <2>6. PlaceOK' /\ CopyOK' /\ BufOK'
    BY <2>1, <2>2, <2>3 DEF TypeInv, PlaceOK, CopyOK, BufOK
  <2>7. FrontOK'
    BY <2>1, <2>2 DEF TypeInv, FrontOK
  <2> QED
    BY <2>2, <2>4, <2>5, <2>6, <2>7 DEF TypeInv
<1>3. CASE CmdHandled
  <2>1. UNCHANGED <<cmdRxBuf, cmdCmdSem, cmd, sizesize, hostLine, mishaps, wiped>>
        /\ pc' = "cut" /\ line' = <<>>
    BY <1>3 DEF CmdHandled
  <2>2. mishaps \in Nat
    BY MishapsAssumption DEF TypeInv, HostOK
  <2> QED
    BY <2>1, <2>2 DEF TypeInv, BufOK, PlaceOK, CopyOK, LineOK, HostOK, FrontOK
<1>4. CASE CmdDeletes
  <2>1. /\ UNCHANGED <<cmdCmdSem, line, hostLine, mishaps, wiped>>
        /\ pc = "cut" /\ pc' = "pend" /\ cmd' = <<>> /\ sizesize' = 0
        /\ cmdRxBuf' = Rest(cmdRxBuf, sizesize)
    BY <1>4 DEF CmdDeletes
  <2>2. cmdRxBuf' \in Seq(Byte) /\ Len(cmdRxBuf') = Len(cmdRxBuf) - sizesize
    <3>1. cmdRxBuf \in Seq(Byte) /\ sizesize \in 0..Len(cmdRxBuf)
      BY DEF TypeInv, BufOK, CopyOK, FrontOK
    <3> QED
      BY <2>1, <3>1, RestFacts
  <2>3. BufOK'
    BY <2>2, CapacityAssumption DEF TypeInv, BufOK, CopyOK
  <2>4. mishaps \in Nat
    BY MishapsAssumption DEF TypeInv, HostOK
  <2> QED
    BY <2>1, <2>2, <2>3, <2>4 DEF TypeInv, PlaceOK, CopyOK, LineOK, HostOK, FrontOK
<1> QED
  BY <1>1, <1>2, <1>3, <1>4 DEF CmdTask

(* Every step keeps the types.                                             *)
LEMMA TypeStep == TypeInv /\ [Next]_vars => TypeInv'
<1> SUFFICES ASSUME TypeInv, [Next]_vars PROVE TypeInv'
  OBVIOUS
<1>1. CASE UNCHANGED vars
  BY <1>1 DEF vars, task, TypeInv, BufOK, PlaceOK, CopyOK, LineOK, HostOK, FrontOK
<1> QED
  BY <1>1, ReceiveType, WipeType, CmdType DEF Next

(* The types hold always.                                                  *)
LEMMA Typed == Spec => []TypeInv
<1>1. TypeInv /\ [Next]_vars => TypeInv'
  BY TypeStep
<1> QED
  BY <1>1, TypeInit, PTL DEF Spec

(* Every variable keeps its type, the ring buffer its size.                *)
THEOREM TypeCorrect == Spec => []TypeOK
<1>1. TypeInv => TypeOK
  BY DEF TypeInv, BufOK, PlaceOK, CopyOK, LineOK, HostOK, TypeOK
<1> QED
  BY <1>1, Typed, PTL

(* While the command task works on its copy, the copy stays the front of   *)
(* the ring buffer, whatever is received meanwhile.                        *)
THEOREM CopyIsFrontInvariant == Spec => []CopyIsFront
<1>1. TypeInv => CopyIsFront
  <2> SUFFICES ASSUME TypeInv PROVE CopyIsFront
    OBVIOUS
  <2>1. /\ SubSeq(cmdRxBuf, 1, Len(cmd)) \in Seq(Byte)
        /\ Len(SubSeq(cmdRxBuf, 1, Len(cmd))) = Len(cmd)
        /\ \A j \in 1..Len(cmd) : SubSeq(cmdRxBuf, 1, Len(cmd))[j] = cmdRxBuf[j]
    BY FrontFacts DEF TypeInv, BufOK, CopyOK, FrontOK
  <2> QED
    BY <2>1, SameSeq DEF TypeInv, CopyOK, FrontOK, CopyIsFront
<1> QED
  BY <1>1, Typed, PTL

----------------------------------------------------------------------------
(* No wake-up is lost.  As long as the semaphore is not posted, nothing    *)
(* was received since the command task took its copy.                      *)
WakeInv ==
  /\ cmdCmdSem = 0 /\ pc # "pend" => cmdRxBuf = cmd
  /\ IdleHasNoLine

(* An empty buffer has no line.                                            *)
LEMMA NoEnds == Ends(Visible(<<>>)) = {}
<1>1. Visible(<<>>) = <<>>
  <2>1. {i \in 1..Len(<<>>) : <<>>[i] = "0"} = {}
    OBVIOUS
  <2> QED
    BY <2>1 DEF Visible
<1>2. Len(<<>>) = 0
  OBVIOUS
<1> QED
  BY <1>1, <1>2 DEF Ends

(* Every step keeps it so: with no signal, the copy is the buffer, or the  *)
(* task pends without a line.                                              *)
LEMMA WakeStep == TypeInv /\ WakeInv /\ [Next]_vars => WakeInv'
<1> SUFFICES ASSUME TypeInv, WakeInv, [Next]_vars PROVE WakeInv'
  OBVIOUS
<1> USE DEF WakeInv, IdleHasNoLine, Idle
<1>1. CASE RxReceives
  BY <1>1, ReceiveType
<1>2. CASE CmdWakes
  <2>1. pc = "pend" /\ cmdCmdSem' = 0 /\ cmdRxBuf' = cmdRxBuf
    BY <1>2 DEF CmdWakes
  <2>2. CASE cmdRxBuf # <<>> /\ pc' = "cut" /\ cmd' = cmdRxBuf
    BY <2>1, <2>2
  <2>3. CASE cmdRxBuf = <<>> /\ pc' = pc
    BY <2>1, <2>3, NoEnds
  <2>4. CASE MallocFails /\ pc' = pc
    <3>1. mishaps' # 0
      BY <2>4, MishapsAssumption DEF MallocFails, TypeInv, HostOK
    <3> QED
      BY <2>1, <2>4, <3>1
  <2> QED
    BY <1>2, <2>2, <2>3, <2>4 DEF CmdWakes
<1>3. CASE CmdCuts
  <2>1. UNCHANGED <<cmdRxBuf, cmdCmdSem, cmd>> /\ pc = "cut" /\ pc' \in {"handle", "cut"}
    BY <1>3 DEF CmdCuts
  <2> QED
    BY <2>1
<1>4. CASE CmdHandled
  BY <1>4 DEF CmdHandled
<1>5. CASE CmdDeletes
  <2>1. /\ pc = "cut" /\ cmdCmdSem' = cmdCmdSem /\ pc' = "pend"
        /\ cmdRxBuf' = Rest(cmdRxBuf, sizesize)
        /\ Ends(Visible(Rest(cmd, sizesize))) = {}
    BY <1>5 DEF CmdDeletes
  <2> QED
    BY <2>1
<1>6. CASE RxWipes
  <2>1. TypeInv' /\ mishaps' >= mishaps /\ UNCHANGED <<cmdRxBuf, cmdCmdSem, pc, cmd>>
    BY <1>6, WipeType
  <2>2. mishaps' = 0 => mishaps = 0
    BY <2>1, MishapsAssumption DEF TypeInv, HostOK
  <2> QED
    BY <2>1, <2>2
<1>7. CASE UNCHANGED vars
  BY <1>7 DEF vars, task
<1> QED
  BY <1>1, <1>2, <1>3, <1>4, <1>5, <1>6, <1>7 DEF Next, CmdTask

(* The command task never pends on cmdCmdSem with a line it could see in   *)
(* the ring buffer, as long as no byte was NUL and memory was found.       *)
THEOREM NoLineSleeps == Spec => []IdleHasNoLine
<1>1. Init => WakeInv
  BY NoEnds DEF Init, WakeInv, IdleHasNoLine
<1>2. TypeInv /\ WakeInv /\ [Next]_vars => WakeInv'
  BY WakeStep
<1>3. WakeInv => IdleHasNoLine
  BY DEF WakeInv
<1> QED
  BY <1>1, <1>2, <1>3, Typed, PTL DEF Spec

----------------------------------------------------------------------------
(* The port is a stream of lines.                                          *)
Pending == Rest(cmdRxBuf, sizesize)

(* The bytes that wait are the buffer without the lines cut from it.       *)
LEMMA PendingFacts ==
  ASSUME TypeInv
  PROVE  /\ Pending \in Seq(Byte) /\ Len(Pending) = Len(cmdRxBuf) - sizesize
         /\ \A j \in 1..Len(Pending) : Pending[j] = cmdRxBuf[sizesize + j]
<1>1. cmdRxBuf \in Seq(Byte) /\ sizesize \in 0..Len(cmdRxBuf)
  BY DEF TypeInv, BufOK, CopyOK, FrontOK
<1> QED
  BY <1>1, RestFacts DEF Pending

(* The same after a step.                                                  *)
LEMMA PendingFactsNext ==
  ASSUME TypeInv'
  PROVE  /\ Pending' \in Seq(Byte) /\ Len(Pending') = Len(cmdRxBuf') - sizesize'
         /\ \A j \in 1..Len(Pending') : Pending'[j] = cmdRxBuf'[sizesize' + j]
<1>1. cmdRxBuf' \in Seq(Byte) /\ sizesize' \in 0..Len(cmdRxBuf')
  BY DEF TypeInv, BufOK, CopyOK, FrontOK
<1> QED
  BY <1>1, RestFacts DEF Pending

(* The receive task adds bytes to those that wait.                         *)
LEMMA StreamAccepts ==
  ASSUME TypeInv, TypeInv', RxReceives PROVE Stream!Accept
<1>1. /\ UNCHANGED <<sizesize, line>> /\ Len(cmdRxBuf') >= Len(cmdRxBuf)
      /\ \A j \in 1..Len(cmdRxBuf) : cmdRxBuf'[j] = cmdRxBuf[j]
  BY ReceiveType DEF task
<1>2. /\ Pending \in Seq(Byte) /\ Len(Pending) = Len(cmdRxBuf) - sizesize
      /\ \A j \in 1..Len(Pending) : Pending[j] = cmdRxBuf[sizesize + j]
  BY PendingFacts
<1>3. /\ Pending' \in Seq(Byte) /\ Len(Pending') = Len(cmdRxBuf') - sizesize'
      /\ \A j \in 1..Len(Pending') : Pending'[j] = cmdRxBuf'[sizesize' + j]
  BY PendingFactsNext
<1>4. sizesize \in Nat /\ Len(cmdRxBuf) \in Nat /\ Len(cmdRxBuf') \in Nat
  BY DEF TypeInv, CopyOK, BufOK
<1>5. Len(Pending) \in 0..Len(Pending')
  BY <1>1, <1>2, <1>3, <1>4
<1>6. \A j \in 1..Len(Pending) : Pending'[j] = Pending[j]
  BY <1>1, <1>2, <1>3, <1>4
<1>7. SubSeq(Pending', 1, Len(Pending)) = Pending
  <2>1. /\ SubSeq(Pending', 1, Len(Pending)) \in Seq(Byte)
        /\ Len(SubSeq(Pending', 1, Len(Pending))) = Len(Pending)
        /\ \A j \in 1..Len(Pending) : SubSeq(Pending', 1, Len(Pending))[j] = Pending'[j]
    BY <1>3, <1>5, FrontFacts
  <2> QED
    BY <1>2, <1>6, <2>1, SameSeq
<1> QED
  BY <1>1, <1>5, <1>7 DEF Stream!Accept, Pending

(* A cut takes the first line of those that wait.                          *)
LEMMA StreamTakes ==
  ASSUME TypeInv, TypeInv', CmdCuts PROVE \E e \in Stream!Ends(Pending) : Stream!TakeLine(e)
<1>1. PICK e \in Ends(Visible(Rest(cmd, sizesize))) :
        /\ \A f \in Ends(Visible(Rest(cmd, sizesize))) : e <= f
        /\ sizesize' = sizesize + e
        /\ \/ /\ pc' = "handle" /\ line' = SubSeq(cmd, sizesize + 1, sizesize + e)
              /\ UNCHANGED mishaps
           \/ MallocFails /\ UNCHANGED <<pc, line>>
  BY DEF CmdCuts
<1>2. /\ sizesize + e \in 0..Len(cmd) /\ e \in 1..Len(cmd) - sizesize
      /\ e \in Ends(Pending) /\ \A f \in Ends(Pending) : e <= f
  BY <1>1, CutType DEF Pending
<1>3. e \in Stream!Ends(Pending) /\ Stream!FirstEnd(Pending, e)
  BY <1>2 DEF Stream!Ends, Stream!FirstEnd, Ends
<1>4. UNCHANGED <<cmdRxBuf, cmd>>
  BY DEF CmdCuts
<1>5. /\ Pending \in Seq(Byte) /\ Len(Pending) = Len(cmdRxBuf) - sizesize
      /\ \A j \in 1..Len(Pending) : Pending[j] = cmdRxBuf[sizesize + j]
  BY PendingFacts
<1>6. /\ Pending' \in Seq(Byte) /\ Len(Pending') = Len(cmdRxBuf') - sizesize'
      /\ \A j \in 1..Len(Pending') : Pending'[j] = cmdRxBuf'[sizesize' + j]
  BY PendingFactsNext
<1>7. /\ sizesize \in Nat /\ Len(cmdRxBuf) \in Nat /\ Len(cmd) \in Nat
      /\ Len(cmd) <= Len(cmdRxBuf) /\ sizesize <= Len(cmd) /\ e \in 1..Len(Pending)
  BY <1>2, <1>5 DEF TypeInv, CopyOK, BufOK, FrontOK
<1>8. Pending' = SubSeq(Pending, e + 1, Len(Pending))
  <2>1. /\ Rest(Pending, e) \in Seq(Byte) /\ Len(Rest(Pending, e)) = Len(Pending) - e
        /\ \A j \in 1..Len(Pending) - e : Rest(Pending, e)[j] = Pending[e + j]
    <3>1. e \in 0..Len(Pending)
      BY <1>5, <1>7
    <3> QED
      BY <1>5, <3>1, RestFacts
  <2>2. Len(Pending') = Len(Pending) - e
    BY <1>1, <1>4, <1>5, <1>6, <1>7
  <2>3. \A j \in 1..Len(Pending) - e : Pending'[j] = Pending[e + j]
    BY <1>1, <1>4, <1>5, <1>6, <1>7, <2>2
  <2>4. Pending' = Rest(Pending, e)
    BY <1>6, <2>1, <2>2, <2>3, SameSeq
  <2> QED
    BY <2>4 DEF Rest
<1>9. SubSeq(cmd, sizesize + 1, sizesize + e) = SubSeq(Pending, 1, e)
  <2>1. cmd \in Seq(Byte) /\ \A j \in 1..Len(cmd) : cmd[j] = cmdRxBuf[j]
    BY DEF TypeInv, CopyOK, FrontOK
  <2>2. /\ SubSeq(cmd, sizesize + 1, sizesize + e) \in Seq(Byte)
        /\ Len(SubSeq(cmd, sizesize + 1, sizesize + e)) = e
        /\ \A j \in 1..e : SubSeq(cmd, sizesize + 1, sizesize + e)[j] = cmd[sizesize + j]
    BY <1>2, <1>7, <2>1, CutFacts
  <2>3. /\ SubSeq(Pending, 1, e) \in Seq(Byte) /\ Len(SubSeq(Pending, 1, e)) = e
        /\ \A j \in 1..e : SubSeq(Pending, 1, e)[j] = Pending[j]
    BY <1>5, <1>7, FrontFacts
  <2>4. \A j \in 1..e : cmd[sizesize + j] = Pending[j]
    <3>1. \A j \in 1..e : sizesize + j \in 1..Len(cmd) /\ j \in 1..Len(Pending)
      BY <1>2, <1>5, <1>7
    <3> QED
      BY <1>5, <2>1, <3>1
  <2> QED
    BY <2>2, <2>3, <2>4, SameSeq
<1>10. line' = SubSeq(Pending, 1, e) \/ (MaxMishaps > 0 /\ line' = line)
  <2>1. MallocFails => MaxMishaps > 0
    BY MishapsAssumption DEF MallocFails, TypeInv, HostOK
  <2> QED
    BY <1>1, <1>9, <2>1
<1>11. line = <<>>
  BY DEF CmdCuts, TypeInv, LineOK
<1> QED
  BY <1>3, <1>8, <1>10, <1>11 DEF Stream!TakeLine, Pending

(* Every step is a step of LineStream, or changes nothing of it.           *)
LEMMA StreamStep ==
  ASSUME TypeInv, TypeInv', [Next]_vars
  PROVE  [Stream!Next]_<<Pending, line>>
<1>1. CASE RxReceives
  BY <1>1, StreamAccepts DEF Stream!Next
<1>2. CASE CmdCuts
  BY <1>2, StreamTakes DEF Stream!Next, Pending
<1>3. CASE CmdWakes
  <2>1. UNCHANGED <<cmdRxBuf, line>> /\ (sizesize' = 0 \/ sizesize' = sizesize)
    BY <1>3 DEF CmdWakes
  <2>2. sizesize = 0
    BY <1>3 DEF CmdWakes, TypeInv, CopyOK, FrontOK
  <2> QED
    BY <2>1, <2>2 DEF Pending
<1>4. CASE CmdHandled
  BY <1>4 DEF CmdHandled, TypeInv, LineOK, Stream!Handled, Stream!Next, Pending
<1>5. CASE CmdDeletes
  <2>1. cmdRxBuf' = Pending /\ sizesize' = 0 /\ line' = line
    BY <1>5 DEF CmdDeletes, Pending
  <2>2. Rest(Pending, 0) = Pending
    BY PendingFacts DEF Rest
  <2>3. Pending' = Pending
    BY <2>1, <2>2 DEF Pending
  <2> QED
    BY <2>1, <2>3
<1>6. CASE UNCHANGED vars
  BY <1>6 DEF vars, task, Pending
<1>7. CASE RxWipes
  BY <1>7 DEF RxWipes, task, Pending
<1> QED
  BY <1>1, <1>2, <1>3, <1>4, <1>5, <1>6, <1>7 DEF Next, CmdTask

(* The port implements LineStream: every byte the buffer accepted is       *)
(* handled once, in order, in whole lines.                                 *)
THEOREM ImplementsLineStream == Spec => HandlesLinesInOrder
<1>1. Init => Stream!Init
  BY DEF Init, Stream!Init, Rest
<1>2. TypeInv /\ TypeInv' /\ [Next]_vars => [Stream!Next]_<<Rest(cmdRxBuf, sizesize), line>>
  BY StreamStep DEF Pending
<1> QED
  BY <1>1, <1>2, Typed, PTL DEF Spec, HandlesLinesInOrder, Stream!Spec

----------------------------------------------------------------------------
(* A port that sleeps can take more.  The buffer is at most three pieces   *)
(* long once its lines are handled.  Up to k1 lies what a delete left of   *)
(* a copy, in which there is no end of a line; from k1 to k2 lies what     *)
(* followed the copy up to the place where the buffer was full and bytes   *)
(* were dropped; after k2 the buffer agrees with the host byte for byte,   *)
(* until it is full again.                                                 *)

(* The bytes from i on, up to j: no line among them is longer than the     *)
(* host's longest.                                                         *)
Piece(b, i, j) ==
  \A k \in i..j : j - k > MaxLine => \E f \in Ends(b) : k + 2 <= f /\ f <= j

(* After k the bytes end as the host's do, with its line h not yet ended.  *)
Live(b, k, h) ==
  /\ \A j \in 1..Len(h) : j <= Len(b) - k => b[Len(b) + 1 - j] = h[Len(h) + 1 - j]
  /\ Len(b) - k >= Len(h) + 1 => b[Len(b) - Len(h)] = "n"
  /\ Len(b) - k >= Len(h) + 2 => b[Len(b) - Len(h) - 1] = "r"

Pieces(b, k1, k2) ==
  /\ k1 <= k2 /\ k2 <= Len(b) /\ k1 <= MaxLine
  /\ \A f \in Ends(b) : f > k1
  /\ Piece(b, k1, k2) /\ Piece(b, k2, Len(b))

BytesInv ==
  /\ \A i \in 1..Len(cmdRxBuf) : cmdRxBuf[i] # "0"
  /\ sizesize = 0 \/ sizesize \in Ends(cmdRxBuf)
  /\ Len(hostLine) < MaxLine

PiecesInv ==
  \E k1, k2 \in Nat :
    /\ Pieces(cmdRxBuf, k1, k2)
    /\ pc # "pend" => k2 <= Len(cmd)
    /\ Len(cmdRxBuf) = Capacity \/ Live(cmdRxBuf, k2, hostLine)

RoomInv == mishaps = 0 /\ wiped = 0 => BytesInv /\ PiecesInv

(* A sequence and a longer one that begins with it have the same ends as   *)
(* far as the shorter one goes.                                            *)
LEMMA FrontEnds ==
  ASSUME NEW S, NEW s \in Seq(S), NEW t \in Seq(S), Len(s) <= Len(t),
         \A j \in 1..Len(s) : t[j] = s[j]
  PROVE  /\ Ends(s) \subseteq Ends(t)
         /\ \A f \in Ends(t) : f <= Len(s) => f \in Ends(s)
<1>1. Len(s) \in Nat /\ Len(t) \in Nat
  OBVIOUS
<1>2. ASSUME NEW f \in Ends(s) PROVE f \in Ends(t)
  <2>1. f \in 2..Len(s) /\ s[f - 1] = "r" /\ s[f] = "n"
    BY <1>2, EndsFacts
  <2>2. f \in 2..Len(t) /\ t[f - 1] = "r" /\ t[f] = "n"
    BY <1>1, <2>1
  <2> QED
    BY <2>2, EndsFacts
<1>3. ASSUME NEW f \in Ends(t), f <= Len(s) PROVE f \in Ends(s)
  <2>1. f \in 2..Len(t) /\ t[f - 1] = "r" /\ t[f] = "n"
    BY <1>3, EndsFacts
  <2>2. f \in 2..Len(s) /\ s[f - 1] = "r" /\ s[f] = "n"
    BY <1>1, <1>3, <2>1
  <2> QED
    BY <2>2, EndsFacts
<1> QED
  BY <1>2, <1>3

(* The ends after the i-th byte are the ends of what follows it, but for   *)
(* one cut in two.                                                         *)
LEMMA RestEnds ==
  ASSUME NEW S, NEW s \in Seq(S), NEW i \in 0..Len(s)
  PROVE  /\ \A e \in Ends(Rest(s, i)) : i + e \in Ends(s)
         /\ \A f \in Ends(s) : i + 2 <= f => f - i \in Ends(Rest(s, i))
<1> DEFINE t == Rest(s, i)
<1>1. t \in Seq(S) /\ Len(t) = Len(s) - i /\ \A j \in 1..Len(s) - i : t[j] = s[i + j]
  BY RestFacts
<1> HIDE DEF t
<1>2. Len(s) \in Nat /\ i \in Nat
  OBVIOUS
<1>3. ASSUME NEW e \in Ends(t) PROVE i + e \in Ends(s)
  <2>1. e \in 2..Len(t) /\ t[e - 1] = "r" /\ t[e] = "n"
    BY <1>3, EndsFacts
  <2>2. t[e - 1] = s[i + (e - 1)] /\ t[e] = s[i + e]
    <3>1. e - 1 \in 1..Len(s) - i /\ e \in 1..Len(s) - i
      BY <1>1, <1>2, <2>1
    <3> QED
      BY <1>1, <3>1
  <2>3. i + e \in 2..Len(s) /\ i + (e - 1) = i + e - 1
    BY <1>1, <1>2, <2>1
  <2> QED
    BY <2>1, <2>2, <2>3, EndsFacts
<1>4. ASSUME NEW f \in Ends(s), i + 2 <= f PROVE f - i \in Ends(t)
  <2>1. f \in 2..Len(s) /\ s[f - 1] = "r" /\ s[f] = "n"
    BY <1>4, EndsFacts
  <2>2. f - i \in 2..Len(t) /\ f - i - 1 \in 1..Len(t)
    BY <1>1, <1>2, <1>4, <2>1
  <2>3. t[f - i] = s[i + (f - i)] /\ t[f - i - 1] = s[i + (f - i - 1)]
    <3>1. f - i \in 1..Len(s) - i /\ f - i - 1 \in 1..Len(s) - i
      BY <1>1, <1>2, <2>2
    <3> QED
      BY <1>1, <3>1
  <2>4. i + (f - i) = f /\ i + (f - i - 1) = f - 1
    BY <1>2, <2>1
  <2> QED
    BY <2>1, <2>2, <2>3, <2>4, EndsFacts
<1> QED
  BY <1>3, <1>4 DEF t

(* Every line the host sends fits, so what it has sent of a line when the  *)
(* port stops listening is shorter than a line.                            *)
LEMMA HostLineFits ==
  ASSUME 2 <= MaxLine, NEW S, NEW sent \in Seq(S), LinesFit(sent),
         NEW u \in Seq(S), Len(u) <= Len(sent), \A j \in 1..Len(u) : sent[j] = u[j],
         NEW l \in Ends(u) \cup {0}, \A f \in Ends(u) : f <= l
  PROVE  l \in 0..Len(u) /\ Len(u) - l < MaxLine
<1>1. Len(u) \in Nat /\ Len(sent) \in Nat /\ MaxLine \in Nat
  BY MaxChunkAssumption
<1>2. l \in 0..Len(u)
  BY <1>1, EndsFacts
<1>3. l \in Ends(sent) \cup {0}
  BY FrontEnds
<1>4. l \in 0..Len(sent)
  BY <1>1, <1>2
<1>5. Len(Rest(sent, l)) = Len(sent) - l
  BY <1>4, RestFacts
<1>6. CASE \E e \in Ends(Rest(sent, l)) : e <= MaxLine
  <2>1. PICK e \in Ends(Rest(sent, l)) : e <= MaxLine
    BY <1>6
  <2>2. e \in 2..Len(Rest(sent, l))
    BY <2>1, EndsFacts
  <2>3. l + e \in Ends(sent)
    BY <1>4, <2>1, RestEnds
  <2>4. l + e <= Len(u) => l + e \in Ends(u)
    BY <2>3, FrontEnds
  <2>5. ~ (l + e <= Len(u))
    BY <1>1, <1>2, <1>5, <2>2, <2>4
  <2> QED
    BY <1>1, <1>2, <1>5, <2>1, <2>2, <2>5
<1>7. CASE Len(Rest(sent, l)) <= MaxLine - 1
  BY <1>1, <1>2, <1>5, <1>7
<1>8. Len(Rest(sent, l)) <= MaxLine - 2 => Len(Rest(sent, l)) <= MaxLine - 1
  BY <1>1, <1>4, <1>5
<1> QED
  BY <1>1, <1>3, <1>4, <1>5, <1>6, <1>7, <1>8 DEF LinesFit

(* As long as nothing is dropped, the buffer goes on as the host does.     *)
LEMMA LiveExtends ==
  ASSUME NEW S, NEW b \in Seq(S), NEW x \in Seq(S), NEW h \in Seq(S),
         NEW k \in 0..Len(b), Live(b, k, h),
         NEW l \in Ends(h \o x) \cup {0}
  PROVE  Live(b \o x, k, Rest(h \o x, l))
<1> DEFINE u == h \o x
           c == b \o x
           r == Rest(u, l)
<1>1. Len(b) \in Nat /\ Len(x) \in Nat /\ Len(h) \in Nat
  OBVIOUS
<1>2. /\ u \in Seq(S) /\ Len(u) = Len(h) + Len(x)
      /\ \A j \in 1..Len(h) : u[j] = h[j]
      /\ \A j \in 1..Len(x) : u[Len(h) + j] = x[j]
  BY ConcatFacts
<1>3. /\ c \in Seq(S) /\ Len(c) = Len(b) + Len(x)
      /\ \A j \in 1..Len(b) : c[j] = b[j]
      /\ \A j \in 1..Len(x) : c[Len(b) + j] = x[j]
  BY ConcatFacts
<1>4. l # 0 => l \in 2..Len(u) /\ u[l - 1] = "r" /\ u[l] = "n"
  <2>1. l \in Ends(u) \/ l = 0
    OBVIOUS
  <2> HIDE DEF u
  <2> QED
    BY <2>1, EndsFacts
<1> HIDE DEF u, c, r
<1>5. Len(u) \in Nat /\ l \in 0..Len(u)
  BY <1>1, <1>2, <1>4
<1>6. Len(r) = Len(u) - l /\ \A j \in 1..Len(u) - l : r[j] = u[l + j]
  BY <1>2, <1>5, RestFacts DEF r
<1>7. ASSUME NEW j \in 1..Len(u), j <= Len(c) - k
      PROVE  c[Len(c) + 1 - j] = u[Len(u) + 1 - j]
  <2>1. CASE j <= Len(x)
    <3>1. Len(x) + 1 - j \in 1..Len(x)
      BY <1>1, <2>1
    <3>2. /\ Len(c) + 1 - j = Len(b) + (Len(x) + 1 - j)
          /\ Len(u) + 1 - j = Len(h) + (Len(x) + 1 - j)
      BY <1>1, <1>2, <1>3
    <3> QED
      BY <1>2, <1>3, <3>1, <3>2
  <2>2. CASE j > Len(x)
    <3>1. PICK i \in Nat : i = j - Len(x)
      BY <1>1, <2>2
    <3>2. i \in 1..Len(h) /\ i <= Len(b) - k
      BY <1>1, <1>2, <1>3, <1>7, <2>2, <3>1
    <3>3. b[Len(b) + 1 - i] = h[Len(h) + 1 - i]
      BY <3>2 DEF Live
    <3>4. Len(b) + 1 - i \in 1..Len(b) /\ Len(h) + 1 - i \in 1..Len(h)
      BY <1>1, <3>2
    <3>5. Len(c) + 1 - j = Len(b) + 1 - i /\ Len(u) + 1 - j = Len(h) + 1 - i
      BY <1>1, <1>2, <1>3, <3>1
    <3> QED
      BY <1>2, <1>3, <3>3, <3>4, <3>5
  <2> QED
    BY <1>1, <2>1, <2>2
<1>8. ASSUME NEW j \in 1..Len(r), j <= Len(c) - k
      PROVE  c[Len(c) + 1 - j] = r[Len(r) + 1 - j]
  <2>1. j \in 1..Len(u) /\ Len(r) + 1 - j \in 1..Len(u) - l
    BY <1>1, <1>2, <1>4, <1>6, <1>5
  <2>2. r[Len(r) + 1 - j] = u[l + (Len(r) + 1 - j)]
    BY <1>6, <2>1
  <2>3. l + (Len(r) + 1 - j) = Len(u) + 1 - j
    BY <1>1, <1>2, <1>4, <1>6, <1>5
  <2> QED
    BY <1>7, <1>8, <2>1, <2>2, <2>3
<1>9. CASE l = 0
  <2>1. Len(r) = Len(h) + Len(x)
    BY <1>1, <1>2, <1>6, <1>9
  <2>2. ASSUME Len(c) - k >= Len(r) + 1 PROVE c[Len(c) - Len(r)] = "n"
    <3>1. Len(b) - k >= Len(h) + 1 /\ Len(c) - Len(r) = Len(b) - Len(h)
      BY <1>1, <1>3, <2>1, <2>2
    <3>2. Len(b) - Len(h) \in 1..Len(b)
      BY <1>1, <3>1
    <3> QED
      BY <1>3, <3>1, <3>2 DEF Live
  <2>3. ASSUME Len(c) - k >= Len(r) + 2 PROVE c[Len(c) - Len(r) - 1] = "r"
    <3>1. Len(b) - k >= Len(h) + 2 /\ Len(c) - Len(r) - 1 = Len(b) - Len(h) - 1
      BY <1>1, <1>3, <2>1, <2>3
    <3>2. Len(b) - Len(h) - 1 \in 1..Len(b)
      BY <1>1, <3>1
    <3> QED
      BY <1>3, <3>1, <3>2 DEF Live
  <2> QED
    BY <1>8, <2>2, <2>3 DEF Live, c, r, u
<1>10. CASE l # 0
  <2>1. ASSUME Len(c) - k >= Len(r) + 1 PROVE c[Len(c) - Len(r)] = "n"
    <3>1. PICK j \in Nat : j = Len(u) + 1 - l
      BY <1>5, <1>10, <1>4
    <3>2. /\ j \in 1..Len(u) /\ j <= Len(c) - k
          /\ Len(c) + 1 - j = Len(c) - Len(r) /\ Len(u) + 1 - j = l
      BY <1>1, <1>2, <1>3, <1>4, <1>6, <1>5, <1>10, <2>1, <3>1
    <3> QED
      BY <1>4, <1>7, <1>10, <3>2
  <2>2. ASSUME Len(c) - k >= Len(r) + 2 PROVE c[Len(c) - Len(r) - 1] = "r"
    <3>1. PICK j \in Nat : j = Len(u) + 2 - l
      <4>1. Len(u) + 2 - l \in Nat
        BY <1>5
      <4> QED
        BY <4>1
    <3>2. /\ j \in 1..Len(u) /\ j <= Len(c) - k
          /\ Len(c) + 1 - j = Len(c) - Len(r) - 1 /\ Len(u) + 1 - j = l - 1
      BY <1>1, <1>2, <1>3, <1>4, <1>6, <1>5, <1>10, <2>2, <3>1
    <3> QED
      BY <1>4, <1>7, <1>10, <3>2
  <2> QED
    BY <1>8, <2>1, <2>2 DEF Live, c, r, u
<1> QED
  BY <1>9, <1>10

(* What agrees with the host is a piece of a line.                         *)
LEMMA LiveIsPiece ==
  ASSUME NEW S, NEW b \in Seq(S), NEW h \in Seq(S), Len(h) < MaxLine,
         NEW k \in 0..Len(b), Live(b, k, h)
  PROVE  Piece(b, k, Len(b))
<1>1. Len(b) \in Nat /\ Len(h) \in Nat /\ MaxLine \in Nat
  BY MaxChunkAssumption
<1>2. ASSUME NEW m \in k..Len(b), Len(b) - m > MaxLine
      PROVE  \E f \in Ends(b) : m + 2 <= f /\ f <= Len(b)
  <2>1. Len(b) - k >= Len(h) + 2 /\ Len(b) - m >= Len(h) + 2
    BY <1>1, <1>2
  <2>2. b[Len(b) - Len(h)] = "n" /\ b[Len(b) - Len(h) - 1] = "r"
    BY <1>1, <2>1 DEF Live
  <2>3. Len(b) - Len(h) \in 2..Len(b) /\ m + 2 <= Len(b) - Len(h)
    BY <1>1, <2>1
  <2>4. Len(b) - Len(h) \in Ends(b)
    BY <2>2, <2>3, EndsFacts
  <2> QED
    BY <1>1, <2>3, <2>4
<1> QED
  BY <1>2 DEF Piece

(* What the host sends goes on from its present line, and leaves the rest  *)
(* of the last one.                                                        *)
LEMMA HostFacts ==
  ASSUME HostOK, NEW chunk \in Seq(Byte), HostSends(chunk)
  PROVE  /\ LinesFit(hostLine \o chunk)
         /\ \E l \in Ends(hostLine \o chunk) \cup {0} :
              /\ \A f \in Ends(hostLine \o chunk) : f <= l
              /\ hostLine' = Rest(hostLine \o chunk, l)
         /\ mishaps' = 0 => mishaps = 0 /\ \A i \in 1..Len(chunk) : chunk[i] # "0"
<1> DEFINE sent == hostLine \o chunk
           last == CHOOSE i \in Ends(sent) \cup {0} : \A j \in Ends(sent) : j <= i
           nuls == {i \in 1..Len(chunk) : chunk[i] = "0"}
<1>1. LinesFit(sent) /\ hostLine' = Rest(sent, last) /\ mishaps' = mishaps + Cardinality(nuls)
  BY DEF HostSends
<1>2. sent \in Seq(Byte)
  BY ConcatFacts DEF HostOK
<1> HIDE DEF sent
<1>3. last \in Ends(sent) \cup {0} /\ \A f \in Ends(sent) : f <= last
  BY <1>2, LastEnd
<1> HIDE DEF last
<1>4. IsFiniteSet(nuls)
  <2>1. Len(chunk) \in Nat
    OBVIOUS
  <2>2. IsFiniteSet(1..Len(chunk)) /\ nuls \subseteq 1..Len(chunk)
    BY <2>1, FS_Interval
  <2> HIDE DEF nuls
  <2> QED
    BY <2>2, FS_Subset
<1>5. Cardinality(nuls) \in Nat /\ (Cardinality(nuls) = 0 => nuls = {})
  <2> HIDE DEF nuls
  <2> QED
    BY <1>4, FS_CardinalityType, FS_EmptySet
<1>6. mishaps \in Nat
  BY MishapsAssumption DEF HostOK
<1>7. mishaps' = 0 => mishaps = 0 /\ nuls = {}
  <2> HIDE DEF nuls
  <2> QED
    BY <1>1, <1>5, <1>6
<1>8. nuls = {} => \A i \in 1..Len(chunk) : chunk[i] # "0"
  OBVIOUS
<1> QED
  BY <1>1, <1>3, <1>7, <1>8 DEF sent

(* What the buffer accepts: all of it, or as much as fills the buffer.     *)
LEMMA WriteFacts ==
  ASSUME BufOK, NEW chunk \in Seq(Byte), Ringbuff_write(chunk)
  PROVE  \E p \in 0..Len(chunk) :
           /\ cmdRxBuf' = cmdRxBuf \o SubSeq(chunk, 1, p)
           /\ p = Len(chunk) \/ Len(cmdRxBuf) + p = Capacity
<1> DEFINE all == cmdRxBuf \o chunk
<1>1. /\ all \in Seq(Byte) /\ Len(all) = Len(cmdRxBuf) + Len(chunk)
      /\ \A j \in 1..Len(cmdRxBuf) : all[j] = cmdRxBuf[j]
      /\ \A j \in 1..Len(chunk) : all[Len(cmdRxBuf) + j] = chunk[j]
  BY ConcatFacts DEF BufOK
<1>2. cmdRxBuf' = SubSeq(all, 1, IF Len(all) < Capacity THEN Len(all) ELSE Capacity)
  BY DEF Ringbuff_write
<1> HIDE DEF all
<1>3. /\ Len(cmdRxBuf) \in Nat /\ Len(chunk) \in Nat /\ Capacity \in Nat
      /\ cmdRxBuf \in Seq(Byte) /\ Len(cmdRxBuf) <= Capacity
  BY CapacityAssumption DEF BufOK
<1>4. PICK m \in 0..Len(all) : /\ cmdRxBuf' = SubSeq(all, 1, m)
                               /\ m = Len(all) \/ m = Capacity
                               /\ m >= Len(cmdRxBuf)
  <2>1. CASE Len(all) < Capacity
    BY <1>1, <1>2, <1>3, <2>1
  <2>2. CASE ~ (Len(all) < Capacity)
    BY <1>1, <1>2, <1>3, <2>2
  <2> QED
    BY <2>1, <2>2
<1>5. PICK p \in Nat : p = m - Len(cmdRxBuf)
  BY <1>1, <1>3, <1>4
<1>6. p \in 0..Len(chunk) /\ (p = Len(chunk) \/ Len(cmdRxBuf) + p = Capacity)
  BY <1>1, <1>3, <1>4, <1>5
<1>7. /\ SubSeq(all, 1, m) \in Seq(Byte) /\ Len(SubSeq(all, 1, m)) = m
      /\ \A j \in 1..m : SubSeq(all, 1, m)[j] = all[j]
  BY <1>1, <1>4, FrontFacts
<1>8. /\ SubSeq(chunk, 1, p) \in Seq(Byte) /\ Len(SubSeq(chunk, 1, p)) = p
      /\ \A j \in 1..p : SubSeq(chunk, 1, p)[j] = chunk[j]
  BY <1>6, FrontFacts
<1> DEFINE x == SubSeq(chunk, 1, p)
           b == SubSeq(all, 1, m)
<1> HIDE DEF x, b
<1>9. /\ cmdRxBuf \o x \in Seq(Byte) /\ Len(cmdRxBuf \o x) = Len(cmdRxBuf) + Len(x)
      /\ \A j \in 1..Len(cmdRxBuf) : (cmdRxBuf \o x)[j] = cmdRxBuf[j]
      /\ \A j \in 1..Len(x) : (cmdRxBuf \o x)[Len(cmdRxBuf) + j] = x[j]
  BY <1>3, <1>8, ConcatFacts DEF x
<1>10. ASSUME NEW j \in 1..m PROVE b[j] = (cmdRxBuf \o x)[j]
  <2>1. CASE j <= Len(cmdRxBuf)
    BY <1>1, <1>3, <1>7, <1>9, <2>1 DEF b
  <2>2. CASE j > Len(cmdRxBuf)
    <3>1. PICK i \in 1..p : j = Len(cmdRxBuf) + i
      <4>1. j - Len(cmdRxBuf) \in 1..p
        BY <1>3, <1>4, <1>5, <2>2
      <4> QED
        BY <1>3, <4>1
    <3>2. all[j] = chunk[i] /\ x[i] = chunk[i]
      BY <1>1, <1>3, <1>6, <1>8, <3>1 DEF x
    <3> QED
      BY <1>7, <1>8, <1>9, <3>1, <3>2 DEF b, x
  <2> QED
    <3>1. m \in Nat
      BY <1>1, <1>4
    <3>2. j \in Nat
      BY <3>1
    <3>3. j <= Len(cmdRxBuf) \/ j > Len(cmdRxBuf)
      BY <1>3, <3>2
    <3> QED
      BY <2>1, <2>2, <3>3, Zenon
<1>11. b = cmdRxBuf \o x
  <2>1. Len(b) = Len(cmdRxBuf \o x)
    BY <1>1, <1>3, <1>4, <1>5, <1>7, <1>8, <1>9 DEF b, x
  <2> QED
    BY <1>7, <1>9, <1>10, <2>1, SameSeq DEF b
<1> QED
  BY <1>4, <1>6, <1>11 DEF b, x

(* The receive task adds a sequence of bytes.                              *)
LEMMA ReceivesSome ==
  ASSUME RxReceives
  PROVE  \E chunk \in Seq(Byte) : HostSends(chunk) /\ Ringbuff_write(chunk)
<1>1. PICK n \in 1..MaxChunk : \E chunk \in [1..n -> Byte] :
        HostSends(chunk) /\ Ringbuff_write(chunk)
  BY DEF RxReceives
<1>2. PICK chunk \in [1..n -> Byte] : HostSends(chunk) /\ Ringbuff_write(chunk)
  BY <1>1
<1>3. chunk \in Seq(Byte)
  BY MaxChunkAssumption, ChunkType
<1> QED
  BY <1>2, <1>3

(* No byte received is NUL, and what is received is shorter than a line    *)
(* when it is the beginning of one.                                        *)
LEMMA BytesReceive ==
  ASSUME 2 <= MaxLine, TypeInv, BytesInv, RxReceives, mishaps' = 0
  PROVE  BytesInv'
<1>1. \E chunk \in Seq(Byte) : HostSends(chunk) /\ Ringbuff_write(chunk)
  BY ReceivesSome
<1>2. PICK chunk \in Seq(Byte) : HostSends(chunk) /\ Ringbuff_write(chunk)
  BY <1>1
<1>3. chunk \in Seq(Byte) /\ Len(chunk) \in Nat
  OBVIOUS
<1>4. PICK p \in 0..Len(chunk) : cmdRxBuf' = cmdRxBuf \o SubSeq(chunk, 1, p)
  BY <1>2, <1>3, WriteFacts DEF TypeInv
<1>5. /\ LinesFit(hostLine \o chunk)
      /\ \E l \in Ends(hostLine \o chunk) \cup {0} :
           /\ \A f \in Ends(hostLine \o chunk) : f <= l
           /\ hostLine' = Rest(hostLine \o chunk, l)
      /\ \A i \in 1..Len(chunk) : chunk[i] # "0"
  BY <1>2, <1>3, HostFacts DEF TypeInv
<1>6. cmdRxBuf \in Seq(Byte) /\ cmdRxBuf' \in Seq(Byte) /\ hostLine \in Seq(Byte)
  BY ReceiveType DEF TypeInv, BufOK, HostOK
<1>7. \A i \in 1..Len(cmdRxBuf') : cmdRxBuf'[i] # "0"
  <2>a. SubSeq(chunk, 1, p) \in Seq(Byte)
    BY <1>3, FrontFacts
  <2>b. PICK x \in Seq(Byte) : x = SubSeq(chunk, 1, p)
    BY <2>a
  <2>1. x \in Seq(Byte) /\ Len(x) = p /\ \A j \in 1..p : x[j] = chunk[j]
    BY <1>3, <2>b, FrontFacts
  <2>2. /\ Len(cmdRxBuf \o x) = Len(cmdRxBuf) + Len(x)
        /\ \A j \in 1..Len(cmdRxBuf) : (cmdRxBuf \o x)[j] = cmdRxBuf[j]
        /\ \A j \in 1..Len(x) : (cmdRxBuf \o x)[Len(cmdRxBuf) + j] = x[j]
    <3>1. cmdRxBuf \in Seq(Byte)
      BY <1>6
    <3> QED
      BY <3>1, ConcatFacts
  <2>3. \A i \in 1..Len(x) : x[i] # "0"
    BY <1>3, <1>5, <2>1
  <2>4. \A i \in 1..Len(cmdRxBuf) : cmdRxBuf[i] # "0"
    BY DEF BytesInv
  <2>5. ASSUME NEW i \in 1..Len(cmdRxBuf \o x) PROVE (cmdRxBuf \o x)[i] # "0"
    <3>1. Len(cmdRxBuf) \in Nat /\ Len(x) \in Nat
      BY <1>6, <2>1
    <3>2. CASE i <= Len(cmdRxBuf)
      BY <2>2, <2>4, <3>1, <3>2
    <3>3. CASE i > Len(cmdRxBuf)
      <4>1. i - Len(cmdRxBuf) \in 1..Len(x) /\ Len(cmdRxBuf) + (i - Len(cmdRxBuf)) = i
        BY <2>2, <3>1, <3>3
      <4> QED
        BY <2>2, <2>3, <4>1
    <3> QED
      BY <2>2, <3>1, <3>2, <3>3
  <2> QED
    BY <1>4, <2>5, <2>b
<1>8. sizesize' = 0 \/ sizesize' \in Ends(cmdRxBuf')
  <2>1. /\ sizesize' = sizesize /\ Len(cmdRxBuf') >= Len(cmdRxBuf)
        /\ \A j \in 1..Len(cmdRxBuf) : cmdRxBuf'[j] = cmdRxBuf[j]
    BY ReceiveType DEF task
  <2>2. Ends(cmdRxBuf) \subseteq Ends(cmdRxBuf')
    BY <1>6, <2>1, FrontEnds
  <2> QED
    BY <2>1, <2>2 DEF BytesInv
<1>9. Len(hostLine') < MaxLine
  <2> DEFINE sent == hostLine \o chunk
  <2>1. sent \in Seq(Byte) /\ Len(sent) \in Nat
    BY <1>3, <1>6, ConcatFacts
  <2>2. PICK l \in Ends(sent) \cup {0} : (\A f \in Ends(sent) : f <= l) /\ hostLine' = Rest(sent, l)
    BY <1>5
  <2>3. LinesFit(sent)
    BY <1>5
  <2> HIDE DEF sent
  <2>4. l \in 0..Len(sent) /\ Len(sent) - l < MaxLine
    <3>1. Len(sent) <= Len(sent) /\ \A j \in 1..Len(sent) : sent[j] = sent[j]
      BY <2>1
    <3> QED
      BY <2>1, <2>2, <2>3, <3>1, HostLineFits
  <2> QED
    BY <2>1, <2>2, <2>4, RestFacts
<1> QED
  BY <1>7, <1>8, <1>9 DEF BytesInv

(* What is received is a part of the last piece, or begins a piece.        *)
LEMMA PiecesReceive ==
  ASSUME 2 <= MaxLine, TypeInv, BytesInv, PiecesInv, RxReceives, mishaps' = 0
  PROVE  PiecesInv'
<1>1. \E chunk \in Seq(Byte) : HostSends(chunk) /\ Ringbuff_write(chunk)
  BY ReceivesSome
<1>2. PICK chunk \in Seq(Byte) : HostSends(chunk) /\ Ringbuff_write(chunk)
  BY <1>1
<1>3. chunk \in Seq(Byte) /\ Len(chunk) \in Nat
  OBVIOUS
<1>4. PICK p \in 0..Len(chunk) : /\ cmdRxBuf' = cmdRxBuf \o SubSeq(chunk, 1, p)
                                 /\ p = Len(chunk) \/ Len(cmdRxBuf) + p = Capacity
  BY <1>2, <1>3, WriteFacts DEF TypeInv
<1>5. /\ LinesFit(hostLine \o chunk)
      /\ \E l \in Ends(hostLine \o chunk) \cup {0} :
           /\ \A f \in Ends(hostLine \o chunk) : f <= l
           /\ hostLine' = Rest(hostLine \o chunk, l)
  BY <1>2, <1>3, HostFacts DEF TypeInv
<1>6. /\ cmdRxBuf \in Seq(Byte) /\ cmdRxBuf' \in Seq(Byte) /\ hostLine \in Seq(Byte)
      /\ Len(cmdRxBuf) \in Nat /\ Len(cmdRxBuf') \in Nat /\ Len(cmdRxBuf') <= Capacity
      /\ Len(cmdRxBuf') >= Len(cmdRxBuf)
      /\ \A j \in 1..Len(cmdRxBuf) : cmdRxBuf'[j] = cmdRxBuf[j]
      /\ UNCHANGED <<pc, cmd>>
  BY ReceiveType DEF TypeInv, BufOK, HostOK, task
<1>7. PICK k1 \in Nat, k2 \in Nat :
        /\ Pieces(cmdRxBuf, k1, k2)
        /\ pc # "pend" => k2 <= Len(cmd)
        /\ Len(cmdRxBuf) = Capacity \/ Live(cmdRxBuf, k2, hostLine)
  BY DEF PiecesInv
<1>8. CASE Len(cmdRxBuf) = Capacity
  <2>1. Len(cmdRxBuf') = Len(cmdRxBuf)
    BY <1>6, <1>8, CapacityAssumption
  <2>2. cmdRxBuf' = cmdRxBuf
    BY <1>6, <2>1, SameSeq
  <2> QED
    BY <1>6, <1>7, <1>8, <2>2 DEF PiecesInv
<1>9. CASE Live(cmdRxBuf, k2, hostLine)
  <2>a. SubSeq(chunk, 1, p) \in Seq(Byte)
    BY <1>3, FrontFacts
  <2>b. PICK x \in Seq(Byte) : x = SubSeq(chunk, 1, p)
    BY <2>a
  <2> DEFINE b == cmdRxBuf
             c == cmdRxBuf'
             u == hostLine \o x
             sent == hostLine \o chunk
  <2>1. /\ x \in Seq(Byte) /\ Len(x) = p
        /\ \A j \in 1..p : x[j] = chunk[j]
    BY <1>3, <2>b, FrontFacts
  <2>2. c = b \o x /\ k2 \in 0..Len(b)
    BY <1>4, <1>6, <1>7, <2>b DEF Pieces
  <2>3. /\ u \in Seq(Byte) /\ Len(u) = Len(hostLine) + Len(x)
        /\ \A j \in 1..Len(hostLine) : u[j] = hostLine[j]
        /\ \A j \in 1..Len(x) : u[Len(hostLine) + j] = x[j]
    <3>1. hostLine \in Seq(Byte)
      BY <1>6
    <3> QED
      BY <3>1, ConcatFacts
  <2>4. /\ sent \in Seq(Byte) /\ Len(sent) = Len(hostLine) + Len(chunk)
        /\ \A j \in 1..Len(hostLine) : sent[j] = hostLine[j]
        /\ \A j \in 1..Len(chunk) : sent[Len(hostLine) + j] = chunk[j]
    BY <1>3, <1>6, ConcatFacts
  <2>5. PICK l \in Ends(u) \cup {0} : \A f \in Ends(u) : f <= l
    BY <2>3, LastEnd
  <2>6. Live(c, k2, Rest(u, l))
    BY <1>6, <1>9, <2>1, <2>2, <2>5, LiveExtends
  <2>7. LinesFit(sent)
    BY <1>5
  <2>8. PICK q \in Ends(sent) \cup {0} : (\A f \in Ends(sent) : f <= q) /\ hostLine' = Rest(sent, q)
    BY <1>5
  <2> HIDE DEF u, sent
  <2>9. Len(u) <= Len(sent) /\ \A j \in 1..Len(u) : sent[j] = u[j]
    <3>1. Len(hostLine) \in Nat
      BY <1>6
    <3>2. ASSUME NEW j \in 1..Len(u) PROVE sent[j] = u[j]
      <4>1. j \in Nat
        BY <1>3, <2>1, <2>3, <3>1
      <4>2. CASE j <= Len(hostLine)
        BY <2>3, <2>4, <3>1, <4>1, <4>2
      <4>3. CASE j > Len(hostLine)
        <5>1. /\ j - Len(hostLine) \in 1..p
              /\ Len(hostLine) + (j - Len(hostLine)) = j
          BY <1>3, <2>1, <2>3, <3>1, <4>1, <4>3
        <5>2. j - Len(hostLine) \in 1..Len(chunk) /\ j - Len(hostLine) \in 1..Len(x)
          BY <1>3, <2>1, <5>1
        <5> QED
          BY <2>1, <2>3, <2>4, <5>1, <5>2
      <4> QED
        BY <3>1, <4>1, <4>2, <4>3
    <3> QED
      BY <1>3, <2>1, <2>3, <2>4, <3>1, <3>2
  <2>10. l \in 0..Len(u) /\ Len(u) - l < MaxLine
    BY <2>3, <2>4, <2>5, <2>7, <2>9, HostLineFits
  <2>11. Rest(u, l) \in Seq(Byte) /\ Len(Rest(u, l)) < MaxLine
    BY <2>3, <2>10, RestFacts
  <2>12. k2 \in 0..Len(c)
    BY <1>6, <2>2
  <2>13. Piece(c, k2, Len(c))
    BY <1>6, <2>6, <2>11, <2>12, LiveIsPiece
  <2>14. Ends(b) \subseteq Ends(c) /\ \A f \in Ends(c) : f <= Len(b) => f \in Ends(b)
    BY <1>6, FrontEnds
  <2>15. k1 <= k2 /\ k1 <= MaxLine /\ (\A f \in Ends(b) : f > k1) /\ Piece(b, k1, k2)
    BY <1>7 DEF Pieces
  <2>16. \A f \in Ends(c) : f > k1
    <3>1. k1 <= Len(b) /\ Len(b) \in Nat
      BY <1>6, <2>2, <2>15
    <3>2. \A f \in Ends(c) : f \in Nat
      BY EndsFacts
    <3> HIDE DEF b, c
    <3> QED
      BY <2>14, <2>15, <3>1, <3>2
  <2>17. Piece(c, k1, k2)
    BY <2>14, <2>15 DEF Piece
  <2>18. Pieces(c, k1, k2)
    BY <2>12, <2>13, <2>15, <2>16, <2>17 DEF Pieces
  <2>19. Len(c) = Capacity \/ Live(c, k2, hostLine')
    <3>1. CASE p = Len(chunk)
      <4>1. Len(u) = Len(sent)
        BY <2>1, <2>3, <2>4, <3>1
      <4>2. u = sent
        BY <2>3, <2>4, <2>9, <4>1, SameSeq
      <4>3. q = l
        <5>1. \A f \in Ends(u) : f \in Nat /\ f > 0
          BY EndsFacts
        <5> QED
          BY <2>5, <2>8, <2>10, <4>2, <5>1
      <4> QED
        BY <2>6, <2>8, <4>2, <4>3
    <3>2. CASE Len(b) + p = Capacity
      <4>1. Len(b \o x) = Len(b) + Len(x)
        BY <1>6, <2>1, ConcatFacts
      <4> QED
        BY <2>1, <2>2, <3>2, <4>1
    <3> QED
      BY <1>4, <3>1, <3>2
  <2> QED
    BY <1>6, <1>7, <2>18, <2>19 DEF PiecesInv
<1> QED
  BY <1>7, <1>8, <1>9

(* What is taken away in front changes nothing behind.                     *)
LEMMA LiveBehind ==
  ASSUME NEW S, NEW b \in Seq(S), NEW h \in Seq(S), NEW k \in Nat, Live(b, k, h),
         NEW s \in 0..Len(b), NEW q \in Nat, k <= s + q, s + q <= Len(b)
  PROVE  Live(Rest(b, s), q, h)
<1>1. PICK c \in Seq(S) : c = Rest(b, s)
  BY RestFacts
<1>2. Len(c) = Len(b) - s /\ \A j \in 1..Len(b) - s : c[j] = b[s + j]
  BY <1>1, RestFacts
<1>3. Len(b) \in Nat /\ Len(h) \in Nat /\ Len(c) \in Nat
  OBVIOUS
<1>4. ASSUME NEW j \in 1..Len(h), j <= Len(c) - q
      PROVE  c[Len(c) + 1 - j] = h[Len(h) + 1 - j]
  <2>1. Len(c) + 1 - j \in 1..Len(b) - s /\ s + (Len(c) + 1 - j) = Len(b) + 1 - j
    BY <1>2, <1>3, <1>4
  <2>2. c[Len(c) + 1 - j] = b[Len(b) + 1 - j]
    BY <1>2, <2>1
  <2>3. j <= Len(b) - k
    BY <1>2, <1>3, <1>4
  <2> QED
    BY <2>2, <2>3 DEF Live
<1>5. ASSUME Len(c) - q >= Len(h) + 1 PROVE c[Len(c) - Len(h)] = "n"
  <2>1. Len(c) - Len(h) \in 1..Len(b) - s /\ s + (Len(c) - Len(h)) = Len(b) - Len(h)
    BY <1>2, <1>3, <1>5
  <2>2. c[Len(c) - Len(h)] = b[Len(b) - Len(h)]
    BY <1>2, <2>1
  <2>3. Len(b) - k >= Len(h) + 1
    BY <1>2, <1>3, <1>5
  <2> QED
    BY <2>2, <2>3 DEF Live
<1>6. ASSUME Len(c) - q >= Len(h) + 2 PROVE c[Len(c) - Len(h) - 1] = "r"
  <2>1. Len(c) - Len(h) - 1 \in 1..Len(b) - s /\ s + (Len(c) - Len(h) - 1) = Len(b) - Len(h) - 1
    BY <1>2, <1>3, <1>6
  <2>2. c[Len(c) - Len(h) - 1] = b[Len(b) - Len(h) - 1]
    BY <1>2, <2>1
  <2>3. Len(b) - k >= Len(h) + 2
    BY <1>2, <1>3, <1>6
  <2> QED
    BY <2>2, <2>3 DEF Live
<1>7. Live(c, q, h)
  BY <1>4, <1>5, <1>6 DEF Live
<1> QED
  BY <1>1, <1>7

(* What a delete leaves of a piece is a piece.                             *)
LEMMA PieceBehind ==
  ASSUME NEW S, NEW b \in Seq(S), NEW k \in Nat, Piece(b, k, Len(b)),
         NEW s \in 0..Len(b), NEW q \in Nat, k <= s + q, s + q <= Len(b)
  PROVE  Piece(Rest(b, s), q, Len(Rest(b, s)))
<1>1. PICK c \in Seq(S) : c = Rest(b, s)
  BY RestFacts
<1>2. Len(c) = Len(b) - s
  BY <1>1, RestFacts
<1>3. Len(b) \in Nat /\ Len(c) \in Nat /\ MaxLine \in Nat
  BY MaxChunkAssumption
<1>4. ASSUME NEW m \in q..Len(c), Len(c) - m > MaxLine
      PROVE  \E f \in Ends(c) : m + 2 <= f /\ f <= Len(c)
  <2>1. s + m \in k..Len(b) /\ Len(b) - (s + m) > MaxLine
    BY <1>2, <1>3, <1>4
  <2>2. PICK f \in Ends(b) : s + m + 2 <= f /\ f <= Len(b)
    BY <2>1 DEF Piece
  <2>3. f \in Nat
    BY EndsFacts
  <2>4. f - s \in Ends(c)
    <3>1. s + 2 <= f
      BY <2>2, <2>3
    <3> QED
      BY <1>1, <3>1, RestEnds
  <2>5. m + 2 <= f - s /\ f - s <= Len(c)
    BY <1>2, <1>3, <2>2, <2>3
  <2> QED
    BY <2>4, <2>5
<1>5. Piece(c, q, Len(c))
  BY <1>4 DEF Piece
<1> QED
  BY <1>1, <1>5

(* Where no byte is NUL, strstr sees all of them.                          *)
LEMMA SeesAll ==
  ASSUME NEW S, NEW s \in Seq(S), \A i \in 1..Len(s) : s[i] # "0"
  PROVE  Visible(s) = s
<1>1. {i \in 1..Len(s) : s[i] = "0"} = {}
  OBVIOUS
<1> QED
  BY <1>1 DEF Visible

(* No end of a line is left behind the lines cut, when the loop is over.   *)
LEMMA NoneLeft ==
  ASSUME TypeInv, BytesInv, CmdDeletes
  PROVE  \A f \in Ends(cmdRxBuf) : f <= Len(cmd) => f < sizesize + 2
<1>1. /\ cmd \in Seq(Byte) /\ sizesize \in 0..Len(cmd) /\ Len(cmd) \in Nat
      /\ cmdRxBuf \in Seq(Byte) /\ Len(cmdRxBuf) \in Nat /\ Len(cmd) <= Len(cmdRxBuf)
      /\ \A j \in 1..Len(cmd) : cmdRxBuf[j] = cmd[j]
  BY DEF TypeInv, BufOK, CopyOK, FrontOK
<1>2. PICK t \in Seq(Byte) : t = Rest(cmd, sizesize)
  BY <1>1, RestFacts
<1>3. Len(t) = Len(cmd) - sizesize /\ \A j \in 1..Len(cmd) - sizesize : t[j] = cmd[sizesize + j]
  BY <1>1, <1>2, RestFacts
<1>4. ASSUME NEW i \in 1..Len(t) PROVE t[i] # "0"
  <2>1. sizesize + i \in 1..Len(cmd) /\ sizesize + i \in 1..Len(cmdRxBuf)
    BY <1>1, <1>3
  <2>2. t[i] = cmdRxBuf[sizesize + i]
    BY <1>1, <1>3, <2>1
  <2> QED
    BY <2>1, <2>2 DEF BytesInv
<1>5. Visible(t) = t
  BY <1>4, SeesAll
<1>6. Ends(t) = {}
  BY <1>2, <1>5 DEF CmdDeletes
<1>7. ASSUME NEW f \in Ends(cmdRxBuf), f <= Len(cmd), sizesize + 2 <= f PROVE FALSE
  <2>1. f \in Ends(cmd)
    BY <1>1, <1>7, FrontEnds
  <2>2. f - sizesize \in Ends(t)
    BY <1>1, <1>2, <1>7, <2>1, RestEnds
  <2> QED
    BY <1>6, <2>2
<1>8. \A f \in Ends(cmdRxBuf) : f \in Nat
  BY EndsFacts
<1> QED
  BY <1>1, <1>7, <1>8

(* A delete leaves a piece of the copy in front, and at most one other     *)
(* piece behind it.                                                        *)
LEMMA PiecesDelete ==
  ASSUME TypeInv, BytesInv, PiecesInv, CmdDeletes
  PROVE  PiecesInv'
<1>1. /\ cmdRxBuf' = Rest(cmdRxBuf, sizesize) /\ pc = "cut" /\ pc' = "pend"
      /\ hostLine' = hostLine
  BY DEF CmdDeletes
<1>2. /\ cmdRxBuf \in Seq(Byte) /\ Len(cmdRxBuf) \in Nat /\ hostLine \in Seq(Byte)
      /\ sizesize \in 0..Len(cmdRxBuf) /\ sizesize \in 0..Len(cmd)
      /\ Len(cmd) \in Nat /\ Len(cmd) <= Len(cmdRxBuf) /\ Len(cmdRxBuf) <= Capacity
      /\ MaxLine \in Nat /\ Capacity \in Nat
  BY CapacityAssumption, MaxChunkAssumption DEF TypeInv, BufOK, CopyOK, FrontOK, HostOK
<1>3. PICK k1 \in Nat, k2 \in Nat :
        /\ Pieces(cmdRxBuf, k1, k2)
        /\ pc # "pend" => k2 <= Len(cmd)
        /\ Len(cmdRxBuf) = Capacity \/ Live(cmdRxBuf, k2, hostLine)
  BY DEF PiecesInv
<1>4. /\ k1 <= k2 /\ k2 <= Len(cmd) /\ k2 <= Len(cmdRxBuf) /\ k1 <= MaxLine
      /\ \A f \in Ends(cmdRxBuf) : f > k1
      /\ Piece(cmdRxBuf, k1, k2) /\ Piece(cmdRxBuf, k2, Len(cmdRxBuf))
  BY <1>1, <1>2, <1>3 DEF Pieces
<1>5. CASE sizesize = 0
  <2>1. cmdRxBuf' = cmdRxBuf
    BY <1>1, <1>2, <1>5 DEF Rest
  <2> QED
    BY <1>1, <1>3, <2>1 DEF PiecesInv
<1>6. CASE sizesize # 0
  <2>1. sizesize \in Ends(cmdRxBuf) /\ sizesize > k1
    BY <1>4, <1>6 DEF BytesInv
  <2>2. PICK c \in Seq(Byte) : c = Rest(cmdRxBuf, sizesize)
    BY <1>2, RestFacts
  <2>3. Len(c) = Len(cmdRxBuf) - sizesize /\ Len(c) \in Nat
    BY <1>2, <2>2, RestFacts
  <2>4. PICK q \in Nat : q = IF k2 >= sizesize THEN k2 - sizesize ELSE 0
    <3>1. CASE k2 >= sizesize
      <4>1. k2 - sizesize \in Nat
        BY <1>2, <3>1
      <4> QED
        BY <3>1, <4>1
    <3>2. CASE ~ (k2 >= sizesize)
      BY <3>2
    <3> QED
      BY <3>1, <3>2
  <2>5. /\ k2 <= sizesize + q /\ sizesize + q <= Len(cmd) /\ sizesize + q <= Len(cmdRxBuf)
        /\ q <= Len(c)
    BY <1>2, <1>4, <2>3, <2>4
  <2>6. q <= MaxLine
    <3>1. CASE k2 - sizesize > MaxLine
      <4>1. sizesize \in k1..k2
        BY <1>2, <2>1, <3>1
      <4>2. PICK f \in Ends(cmdRxBuf) : sizesize + 2 <= f /\ f <= k2
        BY <1>4, <3>1, <4>1 DEF Piece
      <4>3. f \in Nat /\ f <= Len(cmd)
        BY <1>2, <1>4, <4>2, EndsFacts
      <4>4. f < sizesize + 2
        BY <4>3, NoneLeft
      <4> QED
        BY <1>2, <4>2, <4>3, <4>4
    <3>2. CASE ~ (k2 - sizesize > MaxLine)
      BY <1>2, <2>4, <3>2
    <3> QED
      BY <3>1, <3>2
  <2>7. \A f \in Ends(c) : f > q
    <3>1. ASSUME NEW f \in Ends(c), f <= q PROVE FALSE
      <4>1. f \in Nat /\ f >= 2
        BY EndsFacts
      <4>2. sizesize + f \in Ends(cmdRxBuf)
        BY <1>2, <2>2, RestEnds
      <4>3. sizesize + f <= Len(cmd)
        BY <1>2, <2>5, <3>1, <4>1
      <4>4. sizesize + f < sizesize + 2
        BY <4>2, <4>3, NoneLeft
      <4> QED
        BY <1>2, <4>1, <4>4
    <3>2. \A f \in Ends(c) : f \in Nat
      BY EndsFacts
    <3> QED
      BY <3>1, <3>2
  <2>8. Piece(c, q, Len(c))
    BY <1>2, <1>4, <2>2, <2>5, PieceBehind
  <2>9. \A i \in Nat : Piece(c, i, i)
    BY <1>2 DEF Piece
  <2>10. CASE Live(cmdRxBuf, k2, hostLine)
    <3>1. Live(c, q, hostLine)
      BY <1>2, <2>2, <2>5, <2>10, LiveBehind
    <3>2. Pieces(c, q, q)
      BY <2>5, <2>6, <2>7, <2>8, <2>9 DEF Pieces
    <3> QED
      BY <1>1, <2>2, <3>1, <3>2 DEF PiecesInv
  <2>11. CASE Len(cmdRxBuf) = Capacity
    <3>1. Live(c, Len(c), hostLine)
      <4>1. Len(hostLine) \in Nat
        BY <1>2
      <4> QED
        BY <2>3, <4>1 DEF Live
    <3>2. Pieces(c, q, Len(c))
      BY <2>3, <2>5, <2>6, <2>7, <2>8, <2>9 DEF Pieces
    <3> QED
      BY <1>1, <2>2, <2>3, <3>1, <3>2 DEF PiecesInv
  <2> QED
    BY <1>3, <2>10, <2>11
<1> QED
  BY <1>5, <1>6

(* An empty buffer has room.                                               *)
LEMMA RoomInit == 2 <= MaxLine /\ Init => RoomInv
<1> SUFFICES ASSUME 2 <= MaxLine, Init PROVE RoomInv
  OBVIOUS
<1>1. cmdRxBuf = <<>> /\ sizesize = 0 /\ hostLine = <<>> /\ pc = "pend"
  BY DEF Init
<1>2. Len(<<>>) = 0 /\ MaxLine \in Nat
  BY MaxChunkAssumption
<1>3. BytesInv
  BY <1>1, <1>2 DEF BytesInv
<1>4. Pieces(<<>>, 0, 0)
  BY <1>2, EndsFacts DEF Pieces, Piece
<1>5. Live(<<>>, 0, <<>>)
  BY <1>2 DEF Live
<1> QED
  BY <1>1, <1>3, <1>4, <1>5 DEF RoomInv, PiecesInv

(* No step fills the buffer with more than three pieces.                   *)
LEMMA RoomStep ==
  ASSUME 2 <= MaxLine, TypeInv, RoomInv, [Next]_vars
  PROVE  RoomInv'
<1> SUFFICES ASSUME mishaps' = 0, wiped' = 0 PROVE BytesInv' /\ PiecesInv'
  BY DEF RoomInv
<1>1. ~RxWipes /\ mishaps = 0 /\ wiped = 0
  <2>1. mishaps \in Nat /\ wiped \in Nat
    BY MishapsAssumption DEF TypeInv, HostOK
  <2>2. CASE UNCHANGED vars \/ CmdTask \/ RxReceives
    <3>1. wiped' = wiped /\ mishaps' >= mishaps
      BY <2>1, <2>2, ReceiveType, CmdType DEF vars, RxReceives
    <3>2. ~RxWipes
      BY <2>1, <3>1, WipeType
    <3> QED
      BY <2>1, <3>1, <3>2
  <2>3. CASE RxWipes
    BY <2>1, <2>3, WipeType
  <2> QED
    BY <2>2, <2>3 DEF Next
<1>2. BytesInv /\ PiecesInv
  BY <1>1 DEF RoomInv
<1>3. CASE RxReceives
  BY <1>2, <1>3, BytesReceive, PiecesReceive
<1>4. CASE CmdWakes
  <2>1. /\ UNCHANGED <<cmdRxBuf, hostLine>>
        /\ \/ sizesize' = 0 /\ cmd' = cmdRxBuf
           \/ UNCHANGED <<pc, cmd, sizesize>>
    BY <1>4 DEF CmdWakes
  <2>2. BytesInv'
    BY <1>2, <2>1 DEF BytesInv
  <2>3. PICK k1 \in Nat, k2 \in Nat :
          /\ Pieces(cmdRxBuf, k1, k2)
          /\ pc # "pend" => k2 <= Len(cmd)
          /\ Len(cmdRxBuf) = Capacity \/ Live(cmdRxBuf, k2, hostLine)
    BY <1>2 DEF PiecesInv
  <2>4. k2 <= Len(cmdRxBuf)
    BY <2>3 DEF Pieces
  <2>5. pc' # "pend" => k2 <= Len(cmd')
    BY <2>1, <2>3, <2>4
  <2> QED
    BY <2>1, <2>2, <2>3, <2>5 DEF PiecesInv
<1>5. CASE CmdCuts
  <2>1. PICK e \in Ends(Visible(Rest(cmd, sizesize))) :
          /\ \A f \in Ends(Visible(Rest(cmd, sizesize))) : e <= f
          /\ sizesize' = sizesize + e
    BY <1>5 DEF CmdCuts
  <2>2. UNCHANGED <<cmdRxBuf, cmd, hostLine>> /\ pc = "cut"
    BY <1>5 DEF CmdCuts
  <2>3. e \in Ends(Rest(cmdRxBuf, sizesize))
    BY <2>1, CutType
  <2>4. cmdRxBuf \in Seq(Byte) /\ sizesize \in 0..Len(cmdRxBuf)
    BY DEF TypeInv, BufOK, CopyOK, FrontOK
  <2>5. sizesize' \in Ends(cmdRxBuf)
    BY <2>1, <2>3, <2>4, RestEnds
  <2>6. BytesInv'
    BY <1>2, <2>2, <2>5 DEF BytesInv
  <2>7. PiecesInv'
    BY <1>2, <2>2 DEF PiecesInv
  <2> QED
    BY <2>6, <2>7
<1>6. CASE CmdHandled
  BY <1>2, <1>6 DEF CmdHandled, BytesInv, PiecesInv
<1>7. CASE CmdDeletes
  <2>1. /\ cmdRxBuf' = Rest(cmdRxBuf, sizesize) /\ sizesize' = 0 /\ hostLine' = hostLine
    BY <1>7 DEF CmdDeletes
  <2>2. cmdRxBuf \in Seq(Byte) /\ sizesize \in 0..Len(cmdRxBuf) /\ Len(cmdRxBuf) \in Nat
    BY DEF TypeInv, BufOK, CopyOK, FrontOK
  <2>3. /\ Len(Rest(cmdRxBuf, sizesize)) = Len(cmdRxBuf) - sizesize
        /\ \A j \in 1..Len(cmdRxBuf) - sizesize :
             Rest(cmdRxBuf, sizesize)[j] = cmdRxBuf[sizesize + j]
    BY <2>2, RestFacts
  <2>4. \A i \in 1..Len(cmdRxBuf') : cmdRxBuf'[i] # "0"
    <3>1. ASSUME NEW i \in 1..Len(cmdRxBuf) - sizesize PROVE cmdRxBuf[sizesize + i] # "0"
      <4>1. sizesize + i \in 1..Len(cmdRxBuf)
        BY <2>2
      <4> QED
        BY <1>2, <4>1 DEF BytesInv
    <3> QED
      BY <2>1, <2>3, <3>1
  <2>5. BytesInv'
    BY <1>2, <2>1, <2>4 DEF BytesInv
  <2> QED
    BY <1>2, <1>7, <2>5, PiecesDelete
<1>8. CASE UNCHANGED vars
  BY <1>2, <1>8 DEF vars, task, BytesInv, PiecesInv
<1> QED
  BY <1>1, <1>3, <1>4, <1>5, <1>6, <1>7, <1>8 DEF Next, CmdTask

(* Three pieces are less than the buffer holds.                            *)
LEMMA ThreePieces ==
  ASSUME 3 * MaxLine < Capacity, TypeInv, RoomInv, IdleHasNoLine
  PROVE  IdleHasRoom
<1> SUFFICES ASSUME Idle, mishaps = 0, wiped = 0 PROVE Len(cmdRxBuf) < Capacity
  BY DEF IdleHasRoom
<1>1. cmdRxBuf \in Seq(Byte) /\ Len(cmdRxBuf) \in Nat /\ MaxLine \in Nat /\ Capacity \in Nat
  BY CapacityAssumption, MaxChunkAssumption DEF TypeInv, BufOK
<1>2. BytesInv /\ PiecesInv
  BY DEF RoomInv
<1>3. Visible(cmdRxBuf) = cmdRxBuf
  BY <1>1, <1>2, SeesAll DEF BytesInv
<1>4. Ends(cmdRxBuf) = {}
  BY <1>3 DEF IdleHasNoLine
<1>5. PICK k1 \in Nat, k2 \in Nat : Pieces(cmdRxBuf, k1, k2)
  BY <1>2 DEF PiecesInv
<1>6. /\ k1 <= k2 /\ k2 <= Len(cmdRxBuf) /\ k1 <= MaxLine
      /\ Piece(cmdRxBuf, k1, k2) /\ Piece(cmdRxBuf, k2, Len(cmdRxBuf))
  BY <1>5 DEF Pieces
<1>7. k1 \in k1..k2 /\ k2 \in k2..Len(cmdRxBuf)
  BY <1>1, <1>6
<1>8. ~ (k2 - k1 > MaxLine) /\ ~ (Len(cmdRxBuf) - k2 > MaxLine)
  BY <1>4, <1>6, <1>7 DEF Piece
<1> QED
  BY <1>1, <1>6, <1>8

(* A port that sleeps has no line to handle and can take a byte, when the  *)
(* ring buffer has room for more than three of the host's longest lines.   *)
THEOREM IdleIsReadyInvariant ==
  ASSUME 2 <= MaxLine, 3 * MaxLine < Capacity
  PROVE  Spec => []IdleIsReady
<1>1. Init => RoomInv
  BY RoomInit
<1>2. TypeInv /\ RoomInv /\ [Next]_vars => RoomInv'
  BY RoomStep
<1>3. TypeInv /\ RoomInv /\ IdleHasNoLine => IdleIsReady
  BY ThreePieces DEF IdleIsReady
<1> QED
  BY <1>1, <1>2, <1>3, Typed, NoLineSleeps, PTL DEF Spec
=============================================================================

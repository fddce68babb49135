--------------------------- MODULE RingbuffProofs ---------------------------
(***************************************************************************)
(* Proofs about Ringbuff, for every buffer size: the fields kept by hand   *)
(* agree with the indices, the buffer implements Fifo, and what is copied  *)
(* from it is its oldest bytes.  TypeOK and FieldsAgree are inductive      *)
(* together: that a push may write at tail and a pop may read at head      *)
(* rests on isfull and isempty being right.                                *)
(***************************************************************************)
EXTENDS Ringbuff, SequenceTheorems, WellFoundedInduction, TLAPS

Inv == TypeOK /\ FieldsAgree

(* The buffer begins empty, with its fields right.                         *)
LEMMA InitInv == Init => Inv
<1> SUFFICES ASSUME Init PROVE Inv
  OBVIOUS
<1>1. TypeOK
  <2>1. buff \in [Index -> Byte]
    BY ByteAssumption DEF Init
  <2>2. head \in Index /\ tail \in Index /\ count \in Index
    BY SizeAssumption DEF Init, Index
  <2>3. value \in Seq(Byte) /\ left \in Nat /\ done \in Nat /\ op = "none"
    BY DEF Init
  <2>4. isfull \in BOOLEAN /\ isempty \in BOOLEAN
    BY Zenon DEF Init
  <2> QED
    BY <2>1, <2>2, <2>3, <2>4 DEF TypeOK
<1>2. FieldsAgree
  BY SizeAssumption DEF Init, FieldsAgree, Occupied
<1> QED
  BY <1>1, <1>2 DEF Inv

(* A push keeps the ring's part of the invariant.                          *)
LEMMA PushInv ==
  ASSUME Inv, NEW v \in Byte, Ringbuff_push(v)
  PROVE  /\ buff' \in [Index -> Byte]
         /\ head' \in Index /\ tail' \in Index /\ count' \in Index
         /\ isfull' \in BOOLEAN /\ isempty' \in BOOLEAN
         /\ FieldsAgree'
<1> USE SizeAssumption DEF Inv, TypeOK, FieldsAgree, Occupied, Index
<1>1. buff' \in [Index -> Byte]
  BY DEF Ringbuff_push
<1>2. tail' = IdxIncr(tail) /\ head' = head
  BY DEF Ringbuff_push
<1>3. isfull' \in BOOLEAN /\ isempty' \in BOOLEAN
  BY Zenon DEF Ringbuff_push
<1>4. isempty' = FALSE
  BY Zenon DEF Ringbuff_push
<1>5. count # size - 1
  BY DEF Ringbuff_push
<1>6. count' = count + 1 /\ count' = Occupied'
  BY <1>2, <1>5 DEF Ringbuff_push, IdxIncr, RingBuffAvail
<1>7. isfull' <=> count' = size - 1
  BY <1>2, <1>5, <1>6 DEF Ringbuff_push, IdxIncr, RingBuffAvail
<1>8. head' # tail'
  BY <1>2, <1>5 DEF IdxIncr
<1> QED
  BY <1>1, <1>2, <1>3, <1>4, <1>6, <1>7, <1>8 DEF IdxIncr

(* A pop keeps the ring's part of the invariant.                           *)
LEMMA PopInv ==
  ASSUME Inv, Ringbuff_pop
  PROVE  /\ buff' \in [Index -> Byte]
         /\ head' \in Index /\ tail' \in Index /\ count' \in Index
         /\ isfull' \in BOOLEAN /\ isempty' \in BOOLEAN
         /\ FieldsAgree'
<1> USE SizeAssumption DEF Inv, TypeOK, FieldsAgree, Occupied, Index
<1>1. buff' \in [Index -> Byte]
  BY ByteAssumption DEF Ringbuff_pop
<1>2. head' = IdxIncr(head) /\ tail' = tail
  BY DEF Ringbuff_pop
<1>3. isfull' \in BOOLEAN /\ isempty' \in BOOLEAN
  BY Zenon DEF Ringbuff_pop
<1>4. isfull' = FALSE
  BY Zenon DEF Ringbuff_pop
<1>5. count # 0
  BY DEF Ringbuff_pop
<1>6. count' = count - 1 /\ count' = Occupied'
  BY <1>2, <1>5 DEF Ringbuff_pop, IdxIncr, RingBuffAvail
<1>7. isempty' <=> head' = tail'
  BY <1>2, <1>5, <1>6 DEF Ringbuff_pop, IdxIncr, RingBuffAvail
<1> QED
  BY <1>1, <1>2, <1>3, <1>4, <1>6, <1>7 DEF IdxIncr

(* Every step keeps the fields right.                                      *)
LEMMA NextInv ==
  ASSUME Inv, [Next]_vars
  PROVE  Inv'
<1>1. CASE WriteStep
  <2>1. Head(value) \in Byte /\ value' \in Seq(Byte)
    BY <1>1 DEF WriteStep, Inv, TypeOK
  <2>2. Ringbuff_push(Head(value))
    BY <1>1 DEF WriteStep
  <2> QED
    BY <1>1, <2>1, <2>2, PushInv DEF WriteStep, Inv, TypeOK
<1>2. CASE DeleteStep
  <2>1. Ringbuff_pop
    BY <1>2 DEF DeleteStep
  <2> QED
    BY <1>2, <2>1, PopInv DEF DeleteStep, Inv, TypeOK
<1>3. CASE WriteCall
  <2>1. value' \in Seq(Byte)
    BY <1>3, MaxCallAssumption DEF WriteCall
  <2> QED
    BY <1>3, <2>1 DEF WriteCall, Inv, TypeOK, FieldsAgree, Occupied, ring
<1>4. CASE WriteReturn \/ DeleteCall \/ DeleteReturn \/ UNCHANGED vars
  BY <1>4, MaxCallAssumption DEF WriteReturn, DeleteCall, DeleteReturn, vars,
     ring, call, Inv, TypeOK, FieldsAgree, Occupied
<1> QED
  BY <1>1, <1>2, <1>3, <1>4 DEF Next

(* The indices stay inside buff and the fields agree with them.            *)
THEOREM InvInvariant == Spec => []Inv
BY InitInv, NextInv, PTL DEF Spec

(* count, isfull and isempty agree with head and tail.                     *)
THEOREM FieldsAgreeInvariant == Spec => []FieldsAgree
<1>1. Inv => FieldsAgree
  BY DEF Inv
<1> QED
  BY <1>1, InvInvariant, PTL

----------------------------------------------------------------------------
(* The buffer implements Fifo.                                             *)

(* Contents is a sequence of count bytes, the slots from head on.          *)
ContentsShape ==
  /\ Contents \in Seq(Byte)
  /\ Len(Contents) = count
  /\ \A i \in 1..count : Contents[i] = buff[SlotOf(i - 1)]

(* The contents are count bytes, from head on around the end.              *)
LEMMA ContentsFacts == Inv => ContentsShape
<1> SUFFICES ASSUME Inv PROVE ContentsShape
  OBVIOUS
<1>1. \A i \in 1..count : SlotOf(i - 1) \in Index
  BY SizeAssumption DEF Inv, TypeOK, SlotOf, Index
<1>2. \A i \in 1..count : buff[SlotOf(i - 1)] \in Byte
  BY <1>1 DEF Inv, TypeOK
<1>3. count \in Nat
  BY SizeAssumption DEF Inv, TypeOK, Index
<1> QED
  BY <1>2, <1>3 DEF Contents, ContentsShape

(* A push adds a byte at the end of the queue.                             *)
LEMMA PushIsPut ==
  ASSUME Inv, NEW v \in Byte, Ringbuff_push(v), Inv'
  PROVE  Queue!Put(v)
<1>1. count < size - 1 /\ count' = count + 1
  BY SizeAssumption
  DEF Inv, TypeOK, FieldsAgree, Occupied, Index, Ringbuff_push, IdxIncr, RingBuffAvail
<1>2. ContentsShape
  BY ContentsFacts
<1>3. ContentsShape'
  BY ContentsFacts, PTL
<1>4. \A i \in 1..count : SlotOf(i - 1) \in Index /\ SlotOf(i - 1) # tail
  BY <1>1, SizeAssumption DEF Inv, TypeOK, FieldsAgree, Occupied, Index, SlotOf
<1>5. SlotOf(count) = tail
  BY <1>1, SizeAssumption DEF Inv, TypeOK, FieldsAgree, Occupied, Index, SlotOf
<1>6. count \in Nat /\ tail \in Index /\ buff \in [Index -> Byte]
  BY SizeAssumption DEF Inv, TypeOK, Index
<1>7. head' = head /\ buff' = [buff EXCEPT ![tail] = v]
  BY DEF Ringbuff_push
<1>8. \A i \in 1..count' : Contents'[i] = buff'[SlotOf(i - 1)]
  BY <1>3, <1>7 DEF ContentsShape, SlotOf
<1>9. \A i \in 1..count : Contents'[i] = Contents[i]
  BY <1>1, <1>2, <1>4, <1>6, <1>7, <1>8 DEF ContentsShape
<1>10. Contents'[count + 1] = v
  <2>1. Contents'[count + 1] = buff'[SlotOf((count + 1) - 1)]
    BY <1>1, <1>6, <1>8
  <2>2. (count + 1) - 1 = count
    BY <1>6
  <2> QED
    BY <1>5, <1>6, <1>7, <2>1, <2>2
<1>11. Contents' = Append(Contents, v)
  <2>1. Contents' \in Seq(Byte) /\ Append(Contents, v) \in Seq(Byte)
    BY <1>2, <1>3 DEF ContentsShape
  <2>2. Len(Contents') = count + 1 /\ Len(Append(Contents, v)) = count + 1
    BY <1>1, <1>2, <1>3 DEF ContentsShape
  <2>3. \A i \in 1..(count + 1) : Contents'[i] = Append(Contents, v)[i]
    BY <1>2, <1>6, <1>9, <1>10 DEF ContentsShape
  <2> QED
    BY <2>1, <2>2, <2>3, SeqEqual
<1> QED
  BY <1>1, <1>2, <1>11 DEF ContentsShape, Queue!Put

(* A pop takes the first byte of the queue.                                *)
LEMMA PopIsTake ==
  ASSUME Inv, Ringbuff_pop, Inv'
  PROVE  Queue!Take
<1>1. count > 0 /\ count' = count - 1
  BY SizeAssumption
  DEF Inv, TypeOK, FieldsAgree, Occupied, Index, Ringbuff_pop, IdxIncr, RingBuffAvail
<1>2. ContentsShape
  BY ContentsFacts
<1>3. ContentsShape'
  BY ContentsFacts, PTL
<1>4. count \in Nat /\ head \in Index /\ buff \in [Index -> Byte]
  BY SizeAssumption DEF Inv, TypeOK, Index
<1>5. head' = IdxIncr(head) /\ buff' = [buff EXCEPT ![head] = 0]
  BY DEF Ringbuff_pop
<1>6. \A i \in 1..count' : SlotOf(i) \in Index /\ SlotOf(i) # head
  BY <1>1, SizeAssumption DEF Inv, TypeOK, Index, SlotOf
<1>7. \A i \in 1..count' :
        (IF head' + (i - 1) >= size THEN head' + (i - 1) - size ELSE head' + (i - 1))
          = SlotOf(i)
  BY <1>1, <1>5, SizeAssumption DEF Inv, TypeOK, Index, SlotOf, IdxIncr
<1>8. \A i \in 1..count' : Contents'[i] = buff'[SlotOf(i)]
  BY <1>3, <1>7 DEF ContentsShape, SlotOf
<1>9. \A i \in 1..count' : Contents[i + 1] = buff[SlotOf((i + 1) - 1)]
  BY <1>1, <1>2, <1>4 DEF ContentsShape
<1>10. \A i \in 1..count' : Contents'[i] = Contents[i + 1]
  <2> SUFFICES ASSUME NEW i \in 1..count' PROVE Contents'[i] = Contents[i + 1]
    OBVIOUS
  <2>1. (i + 1) - 1 = i
    OBVIOUS
  <2>2. Contents[i + 1] = buff[SlotOf(i)]
    BY <1>9, <2>1
  <2> QED
    BY <1>4, <1>5, <1>6, <1>8, <2>2
<1>11. Contents' = Tail(Contents)
  <2>1. Contents # <<>>
    BY <1>1, <1>2, <1>4 DEF ContentsShape
  <2>2. /\ Contents' \in Seq(Byte) /\ Tail(Contents) \in Seq(Byte)
        /\ Len(Contents') = count - 1 /\ Len(Tail(Contents)) = count - 1
    BY <1>1, <1>2, <1>3, <2>1, HeadTailProperties DEF ContentsShape
  <2>3. \A i \in 1..(count - 1) : Contents'[i] = Tail(Contents)[i]
    BY <1>1, <1>2, <1>10, <2>1, HeadTailProperties DEF ContentsShape
  <2> QED
    BY <2>2, <2>3, SeqEqual
<1> QED
  BY <1>1, <1>2, <1>4, <1>11 DEF ContentsShape, Queue!Take

(* The ring buffer is a first-in first-out queue of size - 1 bytes.        *)
THEOREM ImplementsFifo == Spec => IsFifo
<1>1. Init => Queue!Init
  BY DEF Init, Queue!Init, Contents
<1>2. ASSUME Inv, Inv', [Next]_vars
      PROVE  [Queue!Next]_Contents
  <2>1. CASE WriteStep
    <3>1. Head(value) \in Byte /\ Ringbuff_push(Head(value))
      BY <1>2, <2>1 DEF WriteStep, Inv, TypeOK
    <3> QED
      BY <1>2, <3>1, PushIsPut DEF Queue!Next
  <2>2. CASE DeleteStep
    BY <1>2, <2>2, PopIsTake DEF DeleteStep, Queue!Next
  <2>3. CASE \/ WriteCall \/ WriteReturn \/ DeleteCall \/ DeleteReturn
             \/ UNCHANGED vars
    BY <2>3 DEF WriteCall, WriteReturn, DeleteCall, DeleteReturn, vars, ring,
                Contents, SlotOf
  <2> QED
    BY <1>2, <2>1, <2>2, <2>3 DEF Next
<1> QED
  BY <1>1, <1>2, InvInvariant, PTL DEF Spec, IsFifo, Queue!Spec

----------------------------------------------------------------------------
(* The calls that only read.                                               *)

(* The slot i places after head, and the next one, once round at most.     *)
LEMMA SlotFacts ==
  ASSUME Inv
  PROVE  /\ SlotOf(0) = head
         /\ \A i \in 1..size : SlotOf(i) = IdxIncr(SlotOf(i - 1))
         /\ \A i \in 0..size : i < count => Ringbuff_get(SlotOf(i))
         /\ ~Ringbuff_get(SlotOf(count))
<1> USE SizeAssumption DEF Inv, TypeOK, FieldsAgree, Occupied, Index
<1>1. SlotOf(0) = head
  BY DEF SlotOf
<1>2. \A i \in 1..size : SlotOf(i) = IdxIncr(SlotOf(i - 1))
  BY DEF SlotOf, IdxIncr
<1>3. ASSUME NEW i \in 0..size, i < count
      PROVE  Ringbuff_get(SlotOf(i))
  <2>1. ~isempty /\ tail # head
    BY <1>3
  <2>2. CASE tail > head
    BY <1>3, <2>1, <2>2 DEF Ringbuff_get, IsValidIndex, SlotOf
  <2>3. CASE tail < head
    BY <1>3, <2>1, <2>3 DEF Ringbuff_get, IsValidIndex, SlotOf
  <2> QED
    BY <2>1, <2>2, <2>3
<1>4. SlotOf(count) = tail
  BY DEF SlotOf
<1>5. ~IsValidIndex(tail)
  BY DEF IsValidIndex
<1> QED
  BY <1>1, <1>2, <1>3, <1>4, <1>5 DEF Ringbuff_get

(* A set of numbers that is not empty has a least one.                     *)
LEMMA LeastOf ==
  ASSUME NEW S \in SUBSET Nat, S # {}
  PROVE  \E i \in S : \A j \in S : i <= j
<1> DEFINE below == OpToRel(<, Nat)
<1>1. IsWellFoundedOn(below, Nat)
  BY NatLessThanWellFounded, Zenon
<1>2. \A i, j \in Nat : i < j => <<i, j>> \in below
  BY DEF OpToRel
<1> HIDE DEF below
<1>3. PICK i \in S : \A j \in S : <<j, i>> \notin below
  BY <1>1, WFMin
<1>4. \A j \in S : ~(j < i)
  BY <1>2, <1>3, Zenon
<1> QED
  BY <1>4

(* The loop of Ringbuff_read visits the slots from head on.                *)
LEMMA ReadVisits ==
  ASSUME Inv, NEW n \in 0..size, NEW f,
         f = CHOOSE idx : idx = [i \in 0..n |-> IF i = 0 THEN head ELSE IdxIncr(idx[i - 1])]
  PROVE  \A i \in 0..n : f[i] = SlotOf(i)
<1>0. n \in Nat /\ size \in Nat
  BY SizeAssumption
<1> DEFINE g == [i \in 0..n |-> SlotOf(i)]
<1>1. g = [i \in 0..n |-> IF i = 0 THEN head ELSE IdxIncr(g[i - 1])]
  <2>1. ASSUME NEW i \in 0..n
        PROVE  SlotOf(i) = IF i = 0 THEN head ELSE IdxIncr(g[i - 1])
    <3>1. CASE i = 0
      BY <3>1, SlotFacts
    <3>2. CASE i # 0
      <4>1. i - 1 \in 0..n /\ i \in 1..size
        BY <1>0, <3>2
      <4> QED
        BY <3>2, <4>1, SlotFacts
    <3> QED
      BY <3>1, <3>2
  <2> QED
    BY <2>1
<1> HIDE DEF g
<1>2. f = [i \in 0..n |-> IF i = 0 THEN head ELSE IdxIncr(f[i - 1])]
  BY <1>1
<1> DEFINE Wrong == {i \in 0..n : f[i] # SlotOf(i)}
<1>3. ASSUME NEW i \in Wrong
      PROVE  i # 0 /\ i - 1 \in Wrong
  <2>1. i # 0
    BY <1>0, <1>2, <1>3, SlotFacts
  <2>2. i - 1 \in 0..n /\ i \in 1..size
    BY <1>0, <2>1
  <2>3. f[i] = IdxIncr(f[i - 1]) /\ SlotOf(i) = IdxIncr(SlotOf(i - 1))
    BY <1>2, <2>1, <2>2, SlotFacts
  <2> QED
    BY <2>1, <2>2, <2>3
<1>4. Wrong = {}
  <2> SUFFICES ASSUME Wrong # {} PROVE FALSE
    OBVIOUS
  <2>1. Wrong \in SUBSET Nat
    BY <1>0
  <2> HIDE DEF Wrong
  <2>2. PICK i \in Wrong : \A j \in Wrong : i <= j
    BY <2>1, LeastOf
  <2>3. i - 1 \in Wrong /\ i \in Nat
    BY <1>3, <2>1, <2>2
  <2> QED
    BY <2>2, <2>3
<1> QED
  BY <1>4

(* Ringbuff_read gives the oldest bytes in order, and never the free slot. *)
THEOREM ReadsOldestInvariant == Spec => []ReadsOldest
<1>1. Inv => ReadsOldest
  <2> SUFFICES ASSUME Inv, NEW n \in 0..size
               PROVE  Ringbuff_read(n) = SubSeq(Contents, 1, IF n < count THEN n ELSE count)
    BY DEF ReadsOldest
  <2>0. n \in Nat /\ size \in Nat /\ count \in Nat /\ count < size
    BY SizeAssumption DEF Inv, TypeOK, Index
  <2> DEFINE idx[i \in 0..n] == IF i = 0 THEN head ELSE IdxIncr(idx[i - 1])
             Stops(k) == /\ \A i \in 0..(k - 1) : Ringbuff_get(idx[i])
                         /\ k < n => ~Ringbuff_get(idx[k])
             got == CHOOSE k \in 0..n : Stops(k)
             m == IF n < count THEN n ELSE count
  <2>1. Ringbuff_read(n) = [i \in 1..got |-> buff[idx[i - 1]]]
    BY DEF Ringbuff_read
  <2>2. \A i \in 0..n : idx[i] = SlotOf(i)
    BY ReadVisits
  <2> HIDE DEF idx
  <2>3. m \in 0..n /\ m <= count
    BY <2>0
  <2>4. Stops(m)
    BY <2>0, <2>2, SlotFacts
  <2>5. ASSUME NEW k \in 0..n, Stops(k)
        PROVE  k = m
    <3>1. ~(k < m)
      BY <2>0, <2>2, <2>5, SlotFacts
    <3>2. ~(k > m)
      BY <2>0, <2>2, <2>5, SlotFacts
    <3> QED
      BY <2>3, <3>1, <3>2
  <2> HIDE DEF Stops
  <2>6. got = m
    BY <2>3, <2>4, <2>5
  <2> HIDE DEF got
  <2>7. ContentsShape
    BY ContentsFacts
  <2>8. \A i \in 1..m : buff[idx[i - 1]] = Contents[i]
    <3> TAKE i \in 1..m
    <3>1. i - 1 \in 0..n /\ i \in 1..count
      BY <2>0, <2>3
    <3> QED
      BY <2>2, <2>7, <3>1 DEF ContentsShape
  <2>9. SubSeq(Contents, 1, m) = [i \in 1..m |-> Contents[i]]
    BY <2>0, <2>3, <2>7 DEF ContentsShape
  <2> HIDE DEF m
  <2>10. Ringbuff_read(n) = SubSeq(Contents, 1, m)
    BY <2>1, <2>6, <2>8, <2>9
  <2> QED
    BY <2>10 DEF m
<1> QED
  BY <1>1, InvInvariant, PTL
=============================================================================

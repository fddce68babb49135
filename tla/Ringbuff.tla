------------------------------ MODULE Ringbuff ------------------------------
(***************************************************************************)
(* The ring buffer of the command port                                     *)
(* (Source/Application/ringbuff/ringbuff.c): the fields of struct RINGBUFF *)
(* and the loops of Ringbuff_write and Ringbuff_delete, one push or pop a  *)
(* step.  One slot always stays free, which is how head = tail means an    *)
(* empty buffer.                                                           *)
(***************************************************************************)
EXTENDS Integers, Sequences

CONSTANTS
  Byte,      \* the byte values
  size,      \* the size given to Ringbuff_init
  MaxCall    \* longest write or delete asked for

ASSUME ByteAssumption == 0 \in Byte
ASSUME SizeAssumption == size \in Nat \ {0, 1}
ASSUME MaxCallAssumption == MaxCall \in Nat

VARIABLES
  buff, head, tail, count, isfull, isempty,   \* struct RINGBUFF
  op,       \* the call under way
  value,    \* the bytes a Ringbuff_write still has to push
  left,     \* the pops a Ringbuff_delete still has to do
  done      \* the loop's count, its result

ring == <<buff, head, tail, count, isfull, isempty>>
call == <<op, value, left, done>>
vars == <<ring, call>>

Index == 0..(size - 1)

(* RINGBUFF_IDX_INCR.                                                      *)
IdxIncr(idx) == IF idx + 1 >= size THEN 0 ELSE idx + 1

RingBuffAvail(h, t) == IF h > t THEN h - t - 1 ELSE size - t + h - 1

Init ==
  /\ buff = [i \in Index |-> 0]
  /\ head = 0 /\ tail = 0 /\ count = 0
  /\ isfull = FALSE /\ isempty = TRUE
  /\ op = "none" /\ value = <<>> /\ left = 0 /\ done = 0

----------------------------------------------------------------------------
(* One byte in, one byte out.                                              *)

(* Slip: isempty is not cleared.                                           *)
Ringbuff_pushKeepsEmpty(v) ==
  /\ ~isfull
  /\ buff' = [buff EXCEPT ![tail] = v]
  /\ tail' = IdxIncr(tail)
  /\ count' = size - RingBuffAvail(head, tail') - 1
  /\ isfull' = (RingBuffAvail(head, tail') = 0)
  /\ UNCHANGED <<head, isempty>>

Ringbuff_push(v) ==
  /\ ~isfull
  /\ buff' = [buff EXCEPT ![tail] = v]
  /\ tail' = IdxIncr(tail)
  /\ count' = size - RingBuffAvail(head, tail') - 1
  /\ isfull' = (RingBuffAvail(head, tail') = 0)
  /\ isempty' = FALSE
  /\ UNCHANGED head

(* Slip: the byte is taken from the other end.                             *)
Ringbuff_popNewest ==
  /\ ~isempty
  /\ buff' = [buff EXCEPT ![tail] = 0]
  /\ tail' = IF tail = 0 THEN size - 1 ELSE tail - 1
  /\ count' = size - RingBuffAvail(head, tail') - 1
  /\ isempty' = (RingBuffAvail(head, tail') = size - 1)
  /\ isfull' = FALSE
  /\ UNCHANGED head

Ringbuff_pop ==
  /\ ~isempty
  /\ buff' = [buff EXCEPT ![head] = 0]
  /\ head' = IdxIncr(head)
  /\ count' = size - RingBuffAvail(head', tail) - 1
  /\ isempty' = (RingBuffAvail(head', tail) = size - 1)
  /\ isfull' = FALSE
  /\ UNCHANGED tail

----------------------------------------------------------------------------
(* The calls.                                                              *)

WriteCall ==
  /\ op = "none" /\ op' = "write"
  /\ \E n \in 0..MaxCall : value' \in [1..n -> Byte]
  /\ done' = 0
  /\ UNCHANGED <<ring, left>>

WriteStep ==
  /\ op = "write" /\ value # <<>>
  /\ Ringbuff_push(Head(value))
  /\ value' = Tail(value)
  /\ done' = done + 1
  /\ UNCHANGED <<op, left>>

(* Everything is written, or a push was refused: the rest is dropped.      *)
WriteReturn ==
  /\ op = "write" /\ (value = <<>> \/ isfull)
  /\ op' = "none"
  /\ UNCHANGED <<ring, value, left, done>>

(* Ringbuff_delete, and Ringbuff_readNdel, which also copies the bytes.    *)
DeleteCall ==
  /\ op = "none" /\ op' = "delete"
  /\ left' \in 0..MaxCall
  /\ done' = 0
  /\ UNCHANGED <<ring, value>>

DeleteStep ==
  /\ op = "delete" /\ left > 0
  /\ Ringbuff_pop
  /\ left' = left - 1
  /\ done' = done + 1
  /\ UNCHANGED <<op, value>>

DeleteReturn ==
  /\ op = "delete" /\ (left = 0 \/ isempty)
  /\ op' = "none"
  /\ UNCHANGED <<ring, value, left, done>>

Next ==
  \/ WriteCall \/ WriteStep \/ WriteReturn
  \/ DeleteCall \/ DeleteStep \/ DeleteReturn

Spec == Init /\ [][Next]_vars

----------------------------------------------------------------------------
(* The calls that only read.                                               *)

(* Slip: the last valid slot is taken for free room.                       *)
IsValidIndexShort(index) ==
  CASE tail = head -> FALSE
    [] tail > head -> index >= head /\ index < tail - 1
    [] OTHER -> (index >= head /\ index < size) \/ index < tail

IsValidIndex(index) ==
  CASE tail = head -> FALSE
    [] tail > head -> index >= head /\ index < tail
    [] OTHER -> (index >= head /\ index < size) \/ index < tail

Ringbuff_get(index) == ~isempty /\ IsValidIndex(index)

(* The bytes Ringbuff_read copies when it is asked for n: it stops at the  *)
(* first index that Ringbuff_get refuses.                                  *)
Ringbuff_read(n) ==
  LET idx[i \in 0..n] == IF i = 0 THEN head ELSE IdxIncr(idx[i - 1])
      got == CHOOSE k \in 0..n :
               /\ \A i \in 0..(k - 1) : Ringbuff_get(idx[i])
               /\ k < n => ~Ringbuff_get(idx[k])
  IN  [i \in 1..got |-> buff[idx[i - 1]]]

----------------------------------------------------------------------------
(* Properties.                                                             *)

(* Every variable has its type; the indices stay inside buff.              *)
TypeOK ==
  /\ buff \in [Index -> Byte]
  /\ head \in Index /\ tail \in Index /\ count \in Index
  /\ isfull \in BOOLEAN /\ isempty \in BOOLEAN
  /\ op \in {"none", "write", "delete"}
  /\ value \in Seq(Byte) /\ left \in Nat /\ done \in Nat

(* Bytes from head to tail, round the end of buff.                         *)
Occupied == IF tail >= head THEN tail - head ELSE tail - head + size

(* count, isfull and isempty, each kept by hand, agree with the indices.   *)
FieldsAgree ==
  /\ count = Occupied
  /\ isempty <=> head = tail
  /\ isfull <=> count = size - 1

(* Where the byte i places after head is.                                  *)
SlotOf(i) == IF head + i >= size THEN head + i - size ELSE head + i

Contents == [i \in 1..count |-> buff[SlotOf(i - 1)]]

(* Ringbuff_read gives the oldest bytes in order, as many as there are, and *)
(* leaves out the slot that stays free.                                    *)
ReadsOldest ==
  \A n \in 0..size :
    Ringbuff_read(n) = SubSeq(Contents, 1, IF n < count THEN n ELSE count)

(* The buffer is a first-in first-out queue of size - 1 bytes.             *)
Queue == INSTANCE Fifo WITH Capacity <- size - 1, queue <- Contents

IsFifo == Queue!Spec
=============================================================================

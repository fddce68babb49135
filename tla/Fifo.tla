-------------------------------- MODULE Fifo --------------------------------
(***************************************************************************)
(* What a ring buffer promises: a first-in first-out queue of bytes with   *)
(* room for Capacity of them.  A byte is put at the end while there is     *)
(* room and refused otherwise; the oldest byte is taken first.             *)
(***************************************************************************)
EXTENDS Naturals, Sequences

CONSTANTS Byte, Capacity

VARIABLE queue

Init == queue = <<>>

Put(value) ==
  /\ Len(queue) < Capacity
  /\ queue' = Append(queue, value)

Take ==
  /\ queue # <<>>
  /\ queue' = Tail(queue)

Next == (\E value \in Byte : Put(value)) \/ Take

Spec == Init /\ [][Next]_queue
=============================================================================

----------------------------- MODULE CmdChannel -----------------------------
(***************************************************************************)
(* How bytes become commands (Source/Application/cmd/cmd.c): the receive   *)
(* task puts what UART_read gave it into the ring buffer and posts         *)
(* cmdCmdSem; the command task copies the buffer, cuts the copy at CR LF,  *)
(* has each line handled, and deletes the lines from the buffer.           *)
(*                                                                         *)
(* Both tasks have the same priority, so one runs only while the other is  *)
(* blocked: the command task at cmdCmdSem and inside a handler (cmd_write, *)
(* CustNV_save).  The ring buffer is the queue that Ringbuff is shown to   *)
(* implement.  Bytes are CR ("r"), LF ("n"), NUL ("0"), any other ("c").   *)
(***************************************************************************)
EXTENDS Naturals, Sequences, FiniteSets

CONSTANTS
  Byte,          \* bytes the line carries
  Capacity,      \* room in the ring buffer, its size - 1
  MaxChunk,      \* size of the receive buffer, UART_RX_BUF_SIZE
  MaxLine,       \* longest line the host sends, CR LF included
  MaxMishaps     \* how often ICall_malloc returns NULL, the host sends a NUL,
                 \* or a read is lost

ASSUME ByteAssumption == {"r", "n"} \subseteq Byte
ASSUME CapacityAssumption == Capacity \in Nat
ASSUME MaxChunkAssumption == MaxChunk \in Nat /\ MaxLine \in Nat
ASSUME MishapsAssumption == MaxMishaps \in Nat

VARIABLES
  cmdRxBuf,    \* the bytes in the ring buffer
  cmdCmdSem,   \* binary semaphore
  pc,          \* cmd_taskFxn: "pend", "cut" (the loop), "handle"
  cmd,         \* its copy of the buffer
  sizesize,    \* bytes of the lines cut so far
  line,        \* cmdcmd, the line cmd_hdlFxn has, empty if none
  hostLine,    \* what the host has sent of its current line
  mishaps,     \* NULs sent and allocations failed
  wiped        \* reads lost after they had ended

task == <<pc, cmd, sizesize, line>>
vars == <<cmdRxBuf, cmdCmdSem, task, hostLine, mishaps, wiped>>

Ends(s) == {i \in 2..Len(s) : s[i - 1] = "r" /\ s[i] = "n"}

Rest(s, i) == SubSeq(s, i + 1, Len(s))

(* The part of s that strstr sees: it stops at a NUL.                      *)
Visible(s) ==
  LET nuls == {i \in 1..Len(s) : s[i] = "0"}
  IN  IF nuls = {} THEN s
      ELSE SubSeq(s, 1, (CHOOSE i \in nuls : \A j \in nuls : i <= j) - 1)

Init ==
  /\ cmdRxBuf = <<>> /\ cmdCmdSem = 0
  /\ pc = "pend" /\ cmd = <<>> /\ sizesize = 0 /\ line = <<>>
  /\ hostLine = <<>> /\ mishaps = 0 /\ wiped = 0

(* ICall_malloc returns NULL.                                              *)
MallocFails == mishaps + wiped < MaxMishaps /\ mishaps' = mishaps + 1

----------------------------------------------------------------------------
(* The host: s can be continued to lines of at most MaxLine bytes.         *)

LinesFit(s) ==
  \A i \in Ends(s) \cup {0} :
    LET t == Rest(s, i)
    IN  \/ \E e \in Ends(t) : e <= MaxLine
        \/ Len(t) <= MaxLine - 2
        \/ Len(t) = MaxLine - 1 /\ t[Len(t)] = "r"

HostSends(chunk) ==
  LET sent == hostLine \o chunk
      last == CHOOSE i \in Ends(sent) \cup {0} : \A j \in Ends(sent) : j <= i
      nuls == Cardinality({i \in 1..Len(chunk) : chunk[i] = "0"})
  IN  /\ LinesFit(sent) /\ hostLine' = Rest(sent, last)
      /\ mishaps + wiped + nuls <= MaxMishaps /\ mishaps' = mishaps + nuls

----------------------------------------------------------------------------
(* The receive task.                                                       *)

(* Slip: the buffer has no limit.                                          *)
Ringbuff_writeAll(chunk) == cmdRxBuf' = cmdRxBuf \o chunk

Ringbuff_write(chunk) ==
  LET all == cmdRxBuf \o chunk
  IN  cmdRxBuf' = SubSeq(all, 1, IF Len(all) < Capacity THEN Len(all) ELSE Capacity)

(* Slip: the command task is woken only when the buffer was empty.         *)
RxReceivesPostsOnce ==
  /\ pc # "cut"
  /\ \E n \in 1..MaxChunk : \E chunk \in [1..n -> Byte] :
       HostSends(chunk) /\ Ringbuff_write(chunk)
  /\ cmdCmdSem' = IF cmdRxBuf = <<>> THEN 1 ELSE cmdCmdSem
  /\ UNCHANGED <<task, wiped>>

(* A UART_read of the receive task ends: what does not fit is dropped.     *)
(* The command task is blocked, it does not run.                           *)
RxReceives ==
  /\ pc # "cut"
  /\ \E n \in 1..MaxChunk : \E chunk \in [1..n -> Byte] :
       HostSends(chunk) /\ Ringbuff_write(chunk)
  /\ cmdCmdSem' = 1
  /\ UNCHANGED <<task, wiped>>

(* A leftover post of cmdRxSem (CmdLink) lets the receive task pass while  *)
(* a read is in progress; a read that ends before cmdRxSize = 0 is lost.   *)
RxWipes ==
  /\ pc # "cut"
  /\ \E n \in 1..MaxChunk : \E chunk \in [1..n -> Byte] : HostSends(chunk)
  /\ mishaps' + wiped < MaxMishaps /\ wiped' = wiped + 1
  /\ UNCHANGED <<cmdRxBuf, cmdCmdSem, task>>

----------------------------------------------------------------------------
(* The command task.                                                       *)

(* It wakes and copies the buffer; with nothing to copy, or no memory for  *)
(* the copy, it pends again.                                               *)
CmdWakes ==
  /\ pc = "pend" /\ cmdCmdSem = 1 /\ cmdCmdSem' = 0
  /\ \/ /\ cmdRxBuf # <<>>
        /\ pc' = "cut" /\ cmd' = cmdRxBuf /\ sizesize' = 0
        /\ UNCHANGED mishaps
     \/ /\ cmdRxBuf = <<>>
        /\ UNCHANGED <<pc, cmd, sizesize, mishaps>>
     \/ /\ cmdRxBuf # <<>> /\ MallocFails
        /\ UNCHANGED <<pc, cmd, sizesize>>
  /\ UNCHANGED <<cmdRxBuf, line, hostLine, wiped>>

(* pospos = strstr(pos, "\r\n").                                           *)
CmdCuts ==
  /\ pc = "cut"
  /\ \E e \in Ends(Visible(Rest(cmd, sizesize))) :
       /\ \A f \in Ends(Visible(Rest(cmd, sizesize))) : e <= f
       /\ sizesize' = sizesize + e
       /\ \/ /\ pc' = "handle" /\ line' = SubSeq(cmd, sizesize + 1, sizesize + e)
             /\ UNCHANGED mishaps
          \/ MallocFails /\ UNCHANGED <<pc, line>>
  /\ UNCHANGED <<cmdRxBuf, cmdCmdSem, cmd, hostLine, wiped>>

(* cmd_hdlFxn returns; the receive task may have run meanwhile.            *)
CmdHandled ==
  /\ pc = "handle" /\ pc' = "cut" /\ line' = <<>>
  /\ UNCHANGED <<cmdRxBuf, cmdCmdSem, cmd, sizesize, hostLine, mishaps, wiped>>

(* Slip: the whole buffer is deleted.                                      *)
CmdDeletesAll ==
  /\ pc = "cut" /\ Ends(Visible(Rest(cmd, sizesize))) = {}
  /\ cmdRxBuf' = <<>>
  /\ pc' = "pend" /\ cmd' = <<>> /\ sizesize' = 0
  /\ UNCHANGED <<cmdCmdSem, line, hostLine, mishaps, wiped>>

(* No further line: Ringbuff_delete(cmdRxBuf, sizesize).                   *)
CmdDeletes ==
  /\ pc = "cut" /\ Ends(Visible(Rest(cmd, sizesize))) = {}
  /\ cmdRxBuf' = Rest(cmdRxBuf, sizesize)
  /\ pc' = "pend" /\ cmd' = <<>> /\ sizesize' = 0
  /\ UNCHANGED <<cmdCmdSem, line, hostLine, mishaps, wiped>>

CmdTask == CmdWakes \/ CmdCuts \/ CmdHandled \/ CmdDeletes

Next == RxReceives \/ RxWipes \/ CmdTask

(* The command task runs whenever it can.  The host owes nothing.          *)
Spec == Init /\ [][Next]_vars /\ WF_vars(CmdTask)

----------------------------------------------------------------------------
(* Properties.                                                             *)

(* Every variable has its type; the ring buffer keeps to its size.         *)
TypeOK ==
  /\ cmdRxBuf \in Seq(Byte) /\ Len(cmdRxBuf) <= Capacity
  /\ cmdCmdSem \in {0, 1}
  /\ pc \in {"pend", "cut", "handle"}
  /\ cmd \in Seq(Byte) /\ sizesize \in 0..Len(cmd)
  /\ line \in Seq(Byte) /\ hostLine \in Seq(Byte)
  /\ mishaps \in 0..MaxMishaps /\ wiped \in Nat

(* While the command task works on its copy, the copy stays the front of   *)
(* the ring buffer: what Ringbuff_delete takes away is what was cut.       *)
CopyIsFront == cmd = SubSeq(cmdRxBuf, 1, Len(cmd))

(* Every byte the buffer accepted is handled once, in order, in whole      *)
(* lines.                                                                  *)
Stream == INSTANCE LineStream WITH
            pending <- Rest(cmdRxBuf, sizesize), CanDrop <- MaxMishaps > 0

HandlesLinesInOrder == Stream!Spec

Idle == pc = "pend" /\ cmdCmdSem = 0

(* The command task never sleeps on a complete line.                       *)
IdleHasNoLine == Idle /\ mishaps = 0 => Ends(Visible(cmdRxBuf)) = {}

(* A port that waits for bytes can take one: the pieces of lines an        *)
(* overflow leaves behind never fill the buffer for good.  With room for   *)
(* only two of the host's longest lines they do: up to three pieces, of    *)
(* which two began after an overflow, can follow the last CR LF accepted.  *)
(* Reads that are lost can leave any number of pieces.                     *)
IdleHasRoom == Idle /\ mishaps = 0 /\ wiped = 0 => Len(cmdRxBuf) < Capacity

(* A port that sleeps has handled what it can, and can take more.          *)
IdleIsReady == IdleHasNoLine /\ IdleHasRoom

(* While complete lines are in the buffer, lines are cut from it: as they   *)
(* leave in order, every line comes to be handled however busy the host.   *)
LinesAreHandled ==
  \/ []<>(Ends(Visible(Rest(cmdRxBuf, sizesize))) = {})
  \/ []<><<CmdCuts>>_vars
  \/ <>(mishaps > 0)
=============================================================================

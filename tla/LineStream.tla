----------------------------- MODULE LineStream -----------------------------
(***************************************************************************)
(* What the command port promises about the bytes it has accepted: they    *)
(* are cut at CR LF, and each line is given to the command handler once,   *)
(* in order and whole, or dropped when there is no memory for it.          *)
(***************************************************************************)
EXTENDS Naturals, Sequences

CONSTANTS
  Byte,      \* byte values, "r" and "n" standing for CR and LF
  CanDrop    \* a line may be dropped

VARIABLES
  pending,   \* accepted bytes that no handled line contains yet
  line       \* the line the handler has, empty if none

Ends(s) == {i \in 2..Len(s) : s[i - 1] = "r" /\ s[i] = "n"}

(* e is the place where the first line of s ends.                          *)
FirstEnd(s, e) == e \in Ends(s) /\ \A f \in Ends(s) : e <= f

Init == pending = <<>> /\ line = <<>>

Accept ==
  /\ Len(pending') >= Len(pending)
  /\ SubSeq(pending', 1, Len(pending)) = pending
  /\ UNCHANGED line

TakeLine(e) ==
  /\ line = <<>> /\ FirstEnd(pending, e)
  /\ pending' = SubSeq(pending, e + 1, Len(pending))
  /\ line' = SubSeq(pending, 1, e) \/ (CanDrop /\ line' = line)

Handled == line # <<>> /\ line' = <<>> /\ UNCHANGED pending

Next == Accept \/ Handled \/ \E e \in Ends(pending) : TakeLine(e)

Spec == Init /\ [][Next]_<<pending, line>>
=============================================================================

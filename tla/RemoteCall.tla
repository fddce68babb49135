---------------------------- MODULE RemoteCall ------------------------------
(***************************************************************************)
(* What a task that calls the stack may rely on: as if the stack's         *)
(* functions were its own.  Every call is executed once, as the call it    *)
(* is, or refused, in the order of the calls; a task that waits goes on    *)
(* with what was done for the very call it waits for.                      *)
(*                                                                         *)
(* The answer of a call may get lost; then its task waits for ever.        *)
(***************************************************************************)
EXTENDS Sequences

CONSTANTS Tasks,
          Calls,
          Waited,        \* those of them whose caller waits
          None           \* no call, no answer; not in Calls

Refusal == "refused"

VARIABLES owed,          \* <<task, call>> of the calls not begun, in order
          now,           \* at most one <<task, call, what is done for it>>
          call,          \* the call a task waits for
          answer         \* what it will be told

vars == <<owed, now, call, answer>>

Init == /\ owed = <<>> /\ now = <<>>
        /\ call = [t \in Tasks |-> None]
        /\ answer = [t \in Tasks |-> None]

Ask(t, f) ==
  /\ call[t] = None
  /\ owed' = Append(owed, <<t, f>>)
  /\ call' = IF f \in Waited THEN [call EXCEPT ![t] = f] ELSE call
  /\ UNCHANGED <<now, answer>>

Start ==
  /\ owed # <<>> /\ now = <<>>
  /\ \E does \in {Head(owed)[2], Refusal} : now' = << Head(owed) \o <<does>> >>
  /\ owed' = Tail(owed)
  /\ UNCHANGED <<call, answer>>

Finish ==
  /\ now # <<>>
  /\ now' = <<>>
  /\ LET t == now[1][1]
     IN answer' \in {answer}
          \cup (IF call[t] = now[1][2]
                THEN { [answer EXCEPT ![t] = now[1][3]] } ELSE {})
  /\ UNCHANGED <<owed, call>>

Return(t) ==
  /\ call[t] # None /\ answer[t] # None
  /\ call' = [call EXCEPT ![t] = None]
  /\ answer' = [answer EXCEPT ![t] = None]
  /\ UNCHANGED <<owed, now>>

Next == \/ Start \/ Finish
        \/ \E t \in Tasks : Return(t) \/ \E f \in Calls : Ask(t, f)

Spec == Init /\ [][Next]_vars
=============================================================================

----------------------------- MODULE StackCall ------------------------------
(***************************************************************************)
(* Calls of the BLE stack from other tasks (ICallBleAPI.c, bleDispatch.c). *)
(*                                                                         *)
(* A task sends a message with its arguments, pointers to its own stack    *)
(* frame among them, and most functions then wait for a status.  The       *)
(* stack's task takes the messages one by one, executes the command,       *)
(* frees the message, and may send the status to the inbox of the sender,  *)
(* where events of the stack arrive as well.  A waiting task takes the     *)
(* first message of its inbox that its match function accepts and leaves   *)
(* the others in place.  Without memory for the status there is none.      *)
(*                                                                         *)
(* Two tasks call: the application task, and the command task, which has   *)
(* no loop on its inbox.  A caller without memory for its message returns  *)
(* at once and changes nothing.                                            *)
(***************************************************************************)
EXTENDS StackMatch, StackDispatch, FiniteSets

CONSTANTS AppCalls, CmdCalls,  \* the functions each task calls
          Builds,              \* sets of features of the stack
          MaxRequests,         \* bound on messages waiting for the stack
          MaxMsgs              \* bound on messages in an inbox

ASSUME StackCallAssumption ==
  /\ AppCalls \cup CmdCalls \subseteq DOMAIN Api \ {"none"}
  /\ MaxRequests \in Nat /\ MaxMsgs \in Nat

Tasks == {"app", "cmd"}
CallsOf == [app |-> AppCalls, cmd |-> CmdCalls]
Calls == AppCalls \cup CmdCalls

(* Calls are numbered to tell them apart; 0 if nobody waits for the call.  *)
Waits(f) == Api[f].match # "none"
Idle == [call |-> "none", id |-> 0]
Ids == 1..2

(* What each build may do for each call.                                   *)
Executions ==
  UNION { { [build |-> b, call |-> f, did |-> o.did, status |-> o.status,
             len |-> o.len] : o \in Outcomes(b, f) } : b \in Builds, f \in Calls }

VARIABLES image,      \* the features of the stack; never changes
          caller,     \* the call each task waits in
          requests,   \* the stack task's queue of messages
          doing,      \* the command it executes, if any
          inbox,      \* the messages each task has not taken yet
          unanswered  \* the tasks whose call will never be answered

vars == <<image, caller, requests, doing, inbox, unanswered>>

Init == /\ image \in Builds
        /\ caller = [t \in Tasks |-> Idle]
        /\ requests = <<>> /\ doing = <<>>
        /\ inbox = [t \in Tasks |-> <<>>]
        /\ unanswered = {}

Event == [op |-> <<"event", "none">>, did |-> Refused, len |-> 0, id |-> 0]

IdsInUse(t) ==
  { inbox[t][i].id : i \in DOMAIN inbox[t] }
    \cup { requests[i].id : i \in { i \in DOMAIN requests : requests[i].from = t } }
    \cup { doing[i].id : i \in { i \in DOMAIN doing : doing[i].from = t } }

(* The least number not in use, if there is one.                           *)
NewId(t) == { n \in Ids \ IdsInUse(t) : \A k \in Ids \ IdsInUse(t) : n <= k }

(* The task is in none of the functions and calls f.                       *)
Calling(t, f) ==
  /\ caller[t] = Idle
  /\ Len(requests) < MaxRequests /\ Len(inbox[t]) < MaxMsgs
  /\ \E id \in IF Waits(f) THEN NewId(t) ELSE {0} :
       /\ requests' = Append(requests, [from |-> t, call |-> f, id |-> id])
       /\ caller' = IF Waits(f) THEN [caller EXCEPT ![t] = [call |-> f, id |-> id]]
                                ELSE caller
  /\ UNCHANGED <<image, doing, inbox, unanswered>>

(* Slip: the event is lost when more than one message waits.               *)
ProcessEventDropped ==
  /\ Len(requests) = 1 /\ doing = <<>>
  /\ LET r == Head(requests)
     IN \E e \in Executions :
          /\ e.build = image /\ e.call = r.call
          /\ doing' = << [from |-> r.from, call |-> r.call, id |-> r.id,
                          did |-> e.did, status |-> e.status, len |-> e.len] >>
  /\ requests' = Tail(requests)
  /\ UNCHANGED <<image, caller, inbox, unanswered>>

(* The stack's task takes the next message and executes its command.       *)
bleDispatch_ProcessEvent ==
  /\ requests # <<>> /\ doing = <<>>
  /\ LET r == Head(requests)
     IN \E e \in Executions :
          /\ e.build = image /\ e.call = r.call
          /\ doing' = << [from |-> r.from, call |-> r.call, id |-> r.id,
                          did |-> e.did, status |-> e.status, len |-> e.len] >>
  /\ requests' = Tail(requests)
  /\ UNCHANGED <<image, caller, inbox, unanswered>>

(* Slip: the value a call returns is left out.                             *)
CmdStatusBare(d) == [op |-> Api[d.call].op, did |-> d.did, len |-> 0, id |-> d.id]

CmdStatus(d) == [op |-> Api[d.call].op, did |-> d.did, len |-> d.len, id |-> d.id]

(* The command is done; its status goes to the task it came from.          *)
sendGapCmdStatus(d) ==
  /\ doing' = <<>>
  /\ \/ /\ inbox' = [inbox EXCEPT ![d.from] = Append(@, CmdStatus(d))]
        /\ UNCHANGED unanswered
     \/ /\ unanswered' = unanswered \cup { t \in {d.from} : d.id # 0 }
        /\ UNCHANGED inbox

Finishes ==
  /\ doing # <<>>
  /\ IF doing[1].status THEN sendGapCmdStatus(doing[1])
                        ELSE doing' = <<>> /\ UNCHANGED <<inbox, unanswered>>
  /\ UNCHANGED <<image, caller, requests>>

Accepted(t) ==
  { i \in DOMAIN inbox[t] : inbox[t][i].op \in Accepts(caller[t].call) }

Without(s, i) == SubSeq(s, 1, i - 1) \o SubSeq(s, i + 1, Len(s))

(* Slip: any message ends the wait.                                        *)
waitAny(t) ==
  /\ caller[t] # Idle /\ inbox[t] # <<>>
  /\ inbox' = [inbox EXCEPT ![t] = Tail(@)]
  /\ caller' = [caller EXCEPT ![t] = Idle]
  /\ UNCHANGED <<image, requests, doing, unanswered>>

(* ICall_waitMatch finds the first message that matches.                   *)
waitMatchCS(t) ==
  /\ caller[t] # Idle
  /\ \E i \in Accepted(t) :
       /\ \A j \in Accepted(t) : i <= j
       /\ inbox' = [inbox EXCEPT ![t] = Without(@, i)]
  /\ caller' = [caller EXCEPT ![t] = Idle]
  /\ UNCHANGED <<image, requests, doing, unanswered>>

(* The loop of the application task takes the next message.                *)
Fetches ==
  /\ caller["app"] = Idle /\ inbox["app"] # <<>>
  /\ inbox' = [inbox EXCEPT !["app"] = Tail(@)]
  /\ UNCHANGED <<image, caller, requests, doing, unanswered>>

(* An event of the stack for the application.                              *)
StackEvent ==
  /\ Len(inbox["app"]) < MaxMsgs
  /\ inbox' = [inbox EXCEPT !["app"] = Append(@, Event)]
  /\ UNCHANGED <<image, caller, requests, doing, unanswered>>

Next == \/ \E t \in Tasks : (\E f \in CallsOf[t] : Calling(t, f)) \/ waitMatchCS(t)
        \/ bleDispatch_ProcessEvent \/ Finishes
        \/ Fetches \/ StackEvent

(* The stack's task runs whenever it has a message, and a task that has    *)
(* got its answer goes on.  Nobody has to call.                            *)
Fairness == /\ WF_vars(bleDispatch_ProcessEvent) /\ WF_vars(Finishes)
            /\ \A t \in Tasks : WF_vars(waitMatchCS(t))

Spec == Init /\ [][Next]_vars /\ Fairness

----------------------------------------------------------------------------
(* No call takes an event, or the status of a call nobody waits for, for   *)
(* its own: some builds answer such calls, with FAILURE, all the same      *)
(* (GATT_RegisterForInd without a GATT client).                            *)
Stray == { Event.op }
  \cup { Api[e.call].op : e \in { e \in Executions : e.status /\ ~Waits(e.call) } }

MatchersAreExact == \A f \in Calls : Accepts(f) \cap Stray = {}

(* A command that is executed for a waiting call is answered with as many  *)
(* bytes as the call copies or expects.                                    *)
LengthsAgree ==
  \A e \in Executions :
    Waits(e.call) /\ e.did # Refused => e.len = Api[e.call].len

TypeOK ==
  /\ image \in Builds
  /\ \A t \in Tasks : caller[t] # Idle =>
       caller[t].call \in Calls /\ Waits(caller[t].call) /\ caller[t].id \in Ids
  /\ requests \in Seq([from : Tasks, call : Calls, id : Ids \cup {0}])
  /\ Len(requests) <= MaxRequests
  /\ Len(doing) <= 1
  /\ \A i \in DOMAIN doing :
       \E e \in Executions : e.build = image /\ e.call = doing[i].call
         /\ e.did = doing[i].did /\ e.status = doing[i].status /\ e.len = doing[i].len
  /\ unanswered \subseteq Tasks

InCall(t, f, id) == caller[t] = [call |-> f, id |-> id]

(* The arguments of a call point to the frame of its caller: as long as    *)
(* the stack has the message of a call somebody waits for, queued or being *)
(* executed, the caller is in that very call (ICallBleAPI.c:560, 604).     *)
ArgsOutlive ==
  /\ \A i \in DOMAIN requests : requests[i].id # 0 =>
       InCall(requests[i].from, requests[i].call, requests[i].id)
  /\ \A i \in DOMAIN doing : doing[i].id # 0 =>
       InCall(doing[i].from, doing[i].call, doing[i].id)

(* The status a waiting call accepts is its own, and if its command was    *)
(* executed it carries a value of just the length of what was asked for:   *)
(* what most calls check (ICallBleAPI.c:608), and GAPBondMgr_GetParameter  *)
(* copies unchecked over the caller's variable (ICallBleAPI.c:2568).       *)
AnswerIsOwn ==
  \A t \in Tasks : caller[t] # Idle => \A i \in Accepted(t) :
    /\ inbox[t][i].id = caller[t].id
    /\ inbox[t][i].did # Refused => inbox[t][i].len = Api[caller[t].call].len

(* A task that waits for the stack goes on some time, unless memory for    *)
(* the status of its call could not be found.                              *)
CallReturns ==
  \A t \in Tasks : caller[t] # Idle ~> caller[t] = Idle \/ t \in unanswered

(* The dispatcher calls the function the task called, with its parameters  *)
(* in its order.                                                           *)
Name(f) == IF f \in DOMAIN BondReads THEN "GAPBondMgr_GetParameter" ELSE f

Itself(f) == Call(Name(f), { <<i, i>> : i \in DOMAIN Api[f].fields })

(* Seen from the callers: a message is what is owed, the call and its      *)
(* outcome are what is being done, a status for the call a task is in is   *)
(* its answer.                                                             *)
Deed(f, did) == IF did = Itself(f) THEN f
                ELSE IF did = Refused THEN "refused" ELSE "something else"

Answer(t) ==
  LET own == { i \in DOMAIN inbox[t] : inbox[t][i].id # 0 /\ inbox[t][i].id = caller[t].id }
  IN IF own = {} THEN "none"
     ELSE Deed(caller[t].call, inbox[t][CHOOSE i \in own : TRUE].did)

Remote == INSTANCE RemoteCall WITH
  None <- "none", Waited <- { f \in Calls : Waits(f) },
  owed <- [i \in DOMAIN requests |-> <<requests[i].from, requests[i].call>>],
  now <- [i \in DOMAIN doing |-> <<doing[i].from, doing[i].call,
                                   Deed(doing[i].call, doing[i].did)>>],
  call <- [t \in Tasks |-> caller[t].call],
  answer <- [t \in Tasks |-> Answer(t)]

(* The detour over messages, tables and structures that overlay each other *)
(* is not seen: calls are executed as if they were local ones.             *)
IsRemoteCall == Remote!Spec
=============================================================================

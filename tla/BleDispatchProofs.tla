------------------------- MODULE BleDispatchProofs --------------------------
(***************************************************************************)
(* Proofs about bleDispatch.c, whose two halves share nothing but the      *)
(* stack they call.                                                        *)
(*                                                                         *)
(* StackCall, for all sets of calls and builds and any bounds on the       *)
(* queues, provided the tables agree: the arguments of a call outlive it,  *)
(* a call ends with its own answer, and all calls together look as if the  *)
(* stack's functions were the caller's own.                                *)
(*                                                                         *)
(* ExtMsg, for any memory, number of writes and of attributes, whichever   *)
(* allocations fail: only two commands are ever first to free what is not  *)
(* theirs; until one of them does, every block has one owner and what is   *)
(* kept is what the host was told; and only one command sends what it did  *)
(* not write.                                                              *)
(***************************************************************************)
EXTENDS StackCall, ExtMsg, SequenceTheorems, FiniteSetTheorems, TLAPS

----------------------------------------------------------------------------
(* Calls of the stack.                                                     *)
TablesAgree == MatchersAreExact /\ LengthsAgree

(* Types.                                                                  *)
StatusOps == {Event.op} \cup { Api[f].op : f \in Calls }
Dids == {Refused} \cup { e.did : e \in Executions }
Lens == {0} \cup { e.len : e \in Executions }

Request == [from : Tasks, call : Calls, id : Ids \cup {0}]
Deeds == [from : Tasks, call : Calls, id : Ids \cup {0}, did : Dids,
          status : { e.status : e \in Executions }, len : Lens]
Message == [op : StatusOps, did : Dids, len : Lens, id : Ids \cup {0}]

CallerOK == caller \in [Tasks -> [call : Calls \cup {"none"}, id : Ids \cup {0}]]
RequestsOK == requests \in Seq(Request)
DoingOK == doing = <<>> \/ \E d \in Deeds : doing = <<d>>
InboxOK == inbox \in [Tasks -> Seq(Message)]

TypeInv == CallerOK /\ RequestsOK /\ DoingOK /\ InboxOK

(* What a task calls is one of the calls.                                  *)
LEMMA CallsOfTask == ASSUME NEW t \in Tasks, NEW f \in CallsOf[t] PROVE f \in Calls
<1>1. CASE t = "app"
  BY <1>1 DEF Calls, CallsOf
<1>2. CASE t = "cmd"
  BY <1>2 DEF Calls, CallsOf
<1> QED
  BY <1>1, <1>2 DEF Tasks

(* What is left of a sequence without its i-th element.                    *)
LEMMA WithoutProperties ==
  ASSUME NEW S, NEW s \in Seq(S), NEW i \in 1..Len(s)
  PROVE  /\ Without(s, i) \in Seq(S)
         /\ Len(Without(s, i)) = Len(s) - 1
         /\ \A j \in 1..Len(s) - 1 :
              Without(s, i)[j] = IF j < i THEN s[j] ELSE s[j + 1]
<1> DEFINE front == SubSeq(s, 1, i - 1)
           back == SubSeq(s, i + 1, Len(s))
<1>0. Len(s) \in Nat /\ i \in Nat /\ i >= 1 /\ i <= Len(s)
      /\ \A j \in 1..Len(s) : s[j] \in S
  BY LenProperties, ElementOfSeq
<1>1. front \in Seq(S) /\ Len(front) = i - 1 /\ \A j \in 1..i - 1 : front[j] = s[j]
  <2>1. 1 \in Int /\ i - 1 \in Int /\ \A j \in 1..i - 1 : s[j] \in S
    BY <1>0
  <2>2. /\ SubSeq(s, 1, i - 1) \in Seq(S)
        /\ Len(SubSeq(s, 1, i - 1)) = IF 1 <= i - 1 THEN (i - 1) - 1 + 1 ELSE 0
        /\ \A j \in 1..(i - 1) - 1 + 1 : SubSeq(s, 1, i - 1)[j] = s[1 + j - 1]
    BY <2>1, SubSeqProperties
  <2> QED
    BY <1>0, <2>2
<1>2. back \in Seq(S) /\ Len(back) = Len(s) - i
      /\ \A j \in 1..Len(s) - i : back[j] = s[i + j]
  <2>1. i + 1 \in Int /\ Len(s) \in Int /\ \A j \in i + 1..Len(s) : s[j] \in S
    BY <1>0
  <2>2. /\ SubSeq(s, i + 1, Len(s)) \in Seq(S)
        /\ Len(SubSeq(s, i + 1, Len(s))) = IF i + 1 <= Len(s) THEN Len(s) - (i + 1) + 1 ELSE 0
        /\ \A j \in 1..Len(s) - (i + 1) + 1 :
             SubSeq(s, i + 1, Len(s))[j] = s[i + 1 + j - 1]
    BY <2>1, SubSeqProperties
  <2> QED
    BY <1>0, <2>2
<1>3. /\ front \o back \in Seq(S)
      /\ Len(front \o back) = Len(front) + Len(back)
      /\ \A j \in 1..Len(front) + Len(back) :
           (front \o back)[j] = IF j <= Len(front) THEN front[j] ELSE back[j - Len(front)]
  <2> HIDE DEF front, back
  <2> QED
    BY <1>1, <1>2, ConcatProperties
<1>4. Without(s, i) = front \o back
  BY DEF Without
<1>5. \A j \in 1..Len(s) - 1 :
        (front \o back)[j] = IF j < i THEN s[j] ELSE s[j + 1]
  <2> HIDE DEF front, back
  <2> TAKE j \in 1..Len(s) - 1
  <2>1. CASE j < i
    BY <1>0, <1>1, <1>2, <1>3, <2>1
  <2>2. CASE ~(j < i)
    <3>1. (front \o back)[j] = back[j - (i - 1)] /\ j - (i - 1) \in 1..Len(s) - i
      BY <1>0, <1>1, <1>2, <1>3, <2>2
    <3>2. back[j - (i - 1)] = s[i + (j - (i - 1))] /\ i + (j - (i - 1)) = j + 1
      BY <1>0, <1>2, <3>1
    <3> QED
      BY <2>2, <3>1, <3>2
  <2> QED
    BY <2>1, <2>2
<1>6. Len(front \o back) = Len(s) - 1
  <2> HIDE DEF front, back
  <2> QED
    BY <1>0, <1>1, <1>2, <1>3
<1> QED
  BY <1>3, <1>4, <1>5, <1>6

(* A message for t, put at the end of its inbox.                           *)
LEMMA MessageArrives ==
  ASSUME InboxOK, NEW t \in Tasks, NEW m \in Message,
         inbox' = [inbox EXCEPT ![t] = Append(@, m)]
  PROVE  InboxOK'
<1>1. inbox[t] \in Seq(Message)
  BY DEF InboxOK
<1>2. Append(inbox[t], m) \in Seq(Message)
  BY <1>1, AppendProperties
<1> DEFINE longer == Append(inbox[t], m)
<1>3. inbox' = [inbox EXCEPT ![t] = longer]
  OBVIOUS
<1>4. longer \in Seq(Message)
  BY <1>2
<1> HIDE DEF longer
<1> QED
  BY <1>3, <1>4 DEF InboxOK

(* A status is a message.                                                  *)
LEMMA StatusType == ASSUME NEW d \in Deeds PROVE CmdStatus(d) \in Message
<1>1. d.call \in Calls /\ d.did \in Dids /\ d.len \in Lens /\ d.id \in Ids \cup {0}
  BY DEF Deeds
<1>2. Api[d.call].op \in StatusOps
  BY <1>1 DEF StatusOps
<1> QED
  BY <1>1, <1>2 DEF CmdStatus, Message

(* Every step keeps the types.                                             *)
LEMMA TypeInvStep == TypeInv /\ [Next]_vars => TypeInv'
<1> SUFFICES ASSUME CallerOK, RequestsOK, DoingOK, InboxOK, [Next]_vars
             PROVE  CallerOK' /\ RequestsOK' /\ DoingOK' /\ InboxOK'
  BY DEF TypeInv
<1>1. ASSUME NEW t \in Tasks, NEW f \in CallsOf[t], Calling(t, f)
      PROVE  CallerOK' /\ RequestsOK' /\ DoingOK' /\ InboxOK'
  <2>0. f \in Calls
    BY CallsOfTask
  <2>1. PICK id \in Ids \cup {0} :
          /\ requests' = Append(requests, [from |-> t, call |-> f, id |-> id])
          /\ caller' = IF Waits(f) THEN [caller EXCEPT ![t] = [call |-> f, id |-> id]]
                                   ELSE caller
    BY <1>1 DEF Calling, NewId
  <2>2. [from |-> t, call |-> f, id |-> id] \in Request
    BY <2>0 DEF Request
  <2>3. RequestsOK'
    BY <2>1, <2>2, AppendProperties DEF RequestsOK
  <2>4. CallerOK'
    BY <2>0, <2>1 DEF CallerOK
  <2> QED
    BY <1>1, <2>3, <2>4 DEF Calling, DoingOK, InboxOK
<1>2. ASSUME NEW t \in Tasks, waitMatchCS(t)
      PROVE  CallerOK' /\ RequestsOK' /\ DoingOK' /\ InboxOK'
  <2>1. PICK i \in DOMAIN inbox[t] : inbox' = [inbox EXCEPT ![t] = Without(@, i)]
    BY <1>2 DEF waitMatchCS, Accepted
  <2>2. inbox[t] \in Seq(Message)
    BY DEF InboxOK
  <2>3. i \in 1..Len(inbox[t])
    BY <2>1, <2>2
  <2>4. Without(inbox[t], i) \in Seq(Message)
    BY <2>2, <2>3, WithoutProperties
  <2>5. InboxOK'
    BY <2>1, <2>4 DEF InboxOK
  <2>6. CallerOK'
    BY <1>2 DEF waitMatchCS, Idle, CallerOK
  <2> QED
    BY <1>2, <2>5, <2>6 DEF waitMatchCS, DoingOK, RequestsOK
<1>3. CASE bleDispatch_ProcessEvent
  <2>1. PICK e \in Executions :
          doing' = << [from |-> Head(requests).from, call |-> Head(requests).call,
                       id |-> Head(requests).id,
                       did |-> e.did, status |-> e.status, len |-> e.len] >>
    BY <1>3 DEF bleDispatch_ProcessEvent
  <2>2. requests # <<>> /\ requests' = Tail(requests) /\ UNCHANGED <<caller, inbox>>
    BY <1>3 DEF bleDispatch_ProcessEvent
  <2>3. Head(requests) \in Request /\ requests' \in Seq(Request)
    BY <2>2, HeadTailProperties DEF RequestsOK
  <2>4. /\ e.did \in Dids /\ e.len \in Lens
        /\ e.status \in { x.status : x \in Executions }
    BY DEF Dids, Lens
  <2>5. [from |-> Head(requests).from, call |-> Head(requests).call,
         id |-> Head(requests).id,
         did |-> e.did, status |-> e.status, len |-> e.len] \in Deeds
    BY <2>3, <2>4 DEF Request, Deeds
  <2>6. DoingOK'
    BY <2>1, <2>5 DEF DoingOK
  <2> QED
    BY <2>2, <2>3, <2>6 DEF CallerOK, RequestsOK, InboxOK
<1>4. CASE Finishes
  <2>1. doing' = <<>> /\ UNCHANGED <<caller, requests>>
    BY <1>4 DEF Finishes, sendGapCmdStatus
  <2>2. PICK d \in Deeds : doing = <<d>>
    BY <1>4 DEF Finishes, DoingOK
  <2>3. UNCHANGED inbox \/ inbox' = [inbox EXCEPT ![d.from] = Append(@, CmdStatus(d))]
    BY <1>4, <2>2 DEF Finishes, sendGapCmdStatus
  <2>4. d.from \in Tasks
    BY DEF Deeds
  <2>5. InboxOK'
    BY <2>3, <2>4, StatusType, MessageArrives DEF InboxOK
  <2> QED
    BY <2>1, <2>5 DEF CallerOK, RequestsOK, DoingOK
<1>5. CASE Fetches
  <2>1. inbox["app"] \in Seq(Message) /\ inbox["app"] # <<>>
    BY <1>5 DEF Fetches, Tasks, InboxOK
  <2>2. Tail(inbox["app"]) \in Seq(Message)
    BY <2>1, HeadTailProperties
  <2>3. InboxOK'
    BY <1>5, <2>2 DEF Fetches, InboxOK
  <2> QED
    BY <1>5, <2>3 DEF Fetches, CallerOK, RequestsOK, DoingOK
<1>6. CASE StackEvent
  <2>1. Event \in Message
    BY DEF Event, Message, StatusOps, Dids, Lens
  <2>2. InboxOK'
    BY <1>6, <2>1, MessageArrives DEF StackEvent, Tasks
  <2> QED
    BY <1>6, <2>2 DEF StackEvent, CallerOK, RequestsOK, DoingOK
<1>7. CASE UNCHANGED vars
  BY <1>7 DEF vars, CallerOK, RequestsOK, DoingOK, InboxOK
<1> QED
  BY <1>1, <1>2, <1>3, <1>4, <1>5, <1>6, <1>7 DEF Next

----------------------------------------------------------------------------
(* Where the numbered messages are.  A task that waits is in a call of its *)
(* own number; every numbered message belongs to the call its task is in;  *)
(* and there is only one for each task, queued, being executed, or in its  *)
(* inbox.                                                                  *)
CallsWait ==
  \A t \in Tasks : caller[t] # Idle =>
    caller[t].call \in Calls /\ Waits(caller[t].call) /\ caller[t].id \in Ids

RequestsOwned ==
  \A i \in DOMAIN requests :
    IF requests[i].id = 0 THEN ~Waits(requests[i].call)
    ELSE InCall(requests[i].from, requests[i].call, requests[i].id)

DoingOwned ==
  \A i \in DOMAIN doing :
    /\ \E e \in Executions : /\ e.call = doing[i].call /\ e.did = doing[i].did
                             /\ e.status = doing[i].status /\ e.len = doing[i].len
    /\ IF doing[i].id = 0 THEN ~Waits(doing[i].call)
       ELSE InCall(doing[i].from, doing[i].call, doing[i].id)

IsAnswerOf(m, c) ==
  /\ c # Idle /\ m.id = c.id
  /\ m.did # Refused => m.len = Api[c.call].len

InboxOwned ==
  \A t \in Tasks : \A i \in DOMAIN inbox[t] :
    IF inbox[t][i].id = 0 THEN inbox[t][i].op \in Stray
    ELSE IsAnswerOf(inbox[t][i], caller[t])

HasAsked(t) == \E i \in DOMAIN requests : requests[i].from = t /\ requests[i].id # 0
Served(t) == \E i \in DOMAIN doing : doing[i].from = t /\ doing[i].id # 0
Answered(t) == \E i \in DOMAIN inbox[t] : inbox[t][i].id # 0

OneRequest(t) ==
  \A i, j \in DOMAIN requests :
    requests[i].from = t /\ requests[i].id # 0 /\ requests[j].from = t /\ requests[j].id # 0
      => i = j

OneAnswer(t) ==
  \A i, j \in DOMAIN inbox[t] :
    inbox[t][i].id # 0 /\ inbox[t][j].id # 0 => i = j

OneOfEach ==
  \A t \in Tasks :
    /\ ~(HasAsked(t) /\ Served(t)) /\ ~(HasAsked(t) /\ Answered(t)) /\ ~(Served(t) /\ Answered(t))
    /\ OneRequest(t) /\ OneAnswer(t)

OwnInv == CallsWait /\ RequestsOwned /\ DoingOwned /\ InboxOwned /\ OneOfEach

(* A task that waits for no call has none under way, and no answer in its  *)
(* inbox.                                                                  *)
LEMMA IdleHasNothing ==
  ASSUME TypeInv, OwnInv, NEW t \in Tasks, caller[t] = Idle
  PROVE  ~HasAsked(t) /\ ~Served(t) /\ ~Answered(t)
<1>0. caller[t].id = 0
  <2>1. Idle.id = 0
    BY DEF Idle
  <2> QED
    BY <2>1, Zenon
<1>1. ~HasAsked(t)
  <2> SUFFICES ASSUME NEW i \in DOMAIN requests, requests[i].from = t, requests[i].id # 0
               PROVE  FALSE
    BY DEF HasAsked
  <2>1. caller[t] = [call |-> requests[i].call, id |-> requests[i].id]
    BY DEF OwnInv, RequestsOwned, InCall
  <2> QED
    BY <1>0, <2>1
<1>2. ~Served(t)
  <2> SUFFICES ASSUME NEW i \in DOMAIN doing, doing[i].from = t, doing[i].id # 0
               PROVE  FALSE
    BY DEF Served
  <2>1. caller[t] = [call |-> doing[i].call, id |-> doing[i].id]
    BY DEF OwnInv, DoingOwned, InCall
  <2> QED
    BY <1>0, <2>1
<1>3. ~Answered(t)
  BY DEF Answered, OwnInv, InboxOwned, IsAnswerOf
<1> QED
  BY <1>1, <1>2, <1>3

(* A message the waiting task accepts is its answer.                       *)
LEMMA AcceptedIsAnswer ==
  ASSUME TablesAgree, OwnInv, NEW t \in Tasks, caller[t] # Idle, NEW i \in Accepted(t)
  PROVE  inbox[t][i].id # 0 /\ IsAnswerOf(inbox[t][i], caller[t])
<1>1. caller[t].call \in Calls
  BY DEF OwnInv, CallsWait
<1>2. i \in DOMAIN inbox[t] /\ inbox[t][i].op \in Accepts(caller[t].call)
  BY DEF Accepted
<1>3. inbox[t][i].op \notin Stray
  BY <1>1, <1>2 DEF TablesAgree, MatchersAreExact
<1> QED
  BY <1>2, <1>3 DEF OwnInv, InboxOwned

(* A new call is the only one of its task that has a number.               *)
LEMMA OwnCalling ==
  ASSUME TypeInv, OwnInv, NEW t \in Tasks, NEW f \in CallsOf[t], Calling(t, f)
  PROVE  OwnInv'
<1>0. f \in Calls
  BY CallsOfTask
<1>1. PICK id \in IF Waits(f) THEN NewId(t) ELSE {0} :
        /\ requests' = Append(requests, [from |-> t, call |-> f, id |-> id])
        /\ caller' = IF Waits(f) THEN [caller EXCEPT ![t] = [call |-> f, id |-> id]]
                                 ELSE caller
  BY DEF Calling
<1> DEFINE new == [from |-> t, call |-> f, id |-> id]
<1>2. caller[t] = Idle /\ UNCHANGED <<doing, inbox>>
  BY DEF Calling
<1>3. IF Waits(f) THEN id \in Ids /\ id # 0 ELSE id = 0
  BY <1>1 DEF NewId, Ids
<1>4. new \in Request
  BY <1>0, <1>3 DEF Request
<1>5. requests \in Seq(Request) /\ Len(requests) \in Nat /\ DOMAIN requests = 1..Len(requests)
  BY LenProperties DEF TypeInv, RequestsOK
<1>6. /\ DOMAIN requests' = 1..Len(requests) + 1
      /\ \A i \in DOMAIN requests : requests'[i] = requests[i]
      /\ requests'[Len(requests) + 1] = new
  <2> HIDE DEF new
  <2>1. requests' = Append(requests, new)
    BY <1>1 DEF new
  <2> QED
    BY <1>4, <1>5, <2>1, AppendProperties, LenProperties
<1>7. \A i \in DOMAIN requests' : i \in DOMAIN requests \/ i = Len(requests) + 1
  BY <1>5, <1>6
<1>8. new.from = t /\ new.call = f /\ new.id = id
  OBVIOUS
<1> HIDE DEF new
<1>9. \A u \in Tasks : u # t => caller'[u] = caller[u]
  BY <1>1 DEF TypeInv, CallerOK
<1>10. IF Waits(f) THEN caller'[t] = [call |-> f, id |-> id] ELSE caller'[t] = Idle
  BY <1>1, <1>2 DEF TypeInv, CallerOK
<1>11. ~HasAsked(t) /\ ~Served(t) /\ ~Answered(t)
  BY <1>2, IdleHasNothing
<1>12. CallsWait'
  <2> SUFFICES ASSUME NEW u \in Tasks, caller'[u] # Idle
               PROVE  /\ caller'[u].call \in Calls /\ Waits(caller'[u].call)
                      /\ caller'[u].id \in Ids
    BY DEF CallsWait
  <2>1. CASE u # t
    BY <1>9, <2>1 DEF OwnInv, CallsWait
  <2>2. CASE u = t
    BY <1>0, <1>3, <1>10, <2>2
  <2> QED
    BY <2>1, <2>2
<1>13. RequestsOwned'
  <2> SUFFICES ASSUME NEW i \in DOMAIN requests'
               PROVE  IF requests'[i].id = 0 THEN ~Waits(requests'[i].call)
                      ELSE caller'[requests'[i].from] = [call |-> requests'[i].call, id |-> requests'[i].id]
    BY DEF RequestsOwned, InCall
  <2>1. CASE i \in DOMAIN requests
    <3>0. requests[i] \in Request
      BY <1>5, <2>1, ElementOfSeq
    <3>1. requests[i].from \in Tasks
      BY <3>0 DEF Request
    <3>2. requests[i].id # 0 => requests[i].from # t
      BY <1>11, <2>1 DEF HasAsked
    <3> QED
      BY <1>6, <1>9, <2>1, <3>1, <3>2 DEF OwnInv, RequestsOwned, InCall
  <2>2. CASE i = Len(requests) + 1
    BY <1>3, <1>6, <1>8, <1>10, <2>2
  <2> QED
    BY <1>7, <2>1, <2>2
<1>14. DoingOwned'
  <2> SUFFICES ASSUME NEW i \in DOMAIN doing, doing[i].id # 0
               PROVE  caller'[doing[i].from] = caller[doing[i].from]
    BY <1>2 DEF OwnInv, DoingOwned, InCall
  <2>1. doing[i].from \in Tasks
    BY DEF TypeInv, DoingOK, Deeds
  <2>2. doing[i].from # t
    BY <1>11 DEF Served
  <2> QED
    BY <1>9, <2>1, <2>2
<1>15. InboxOwned'
  <2> SUFFICES ASSUME NEW u \in Tasks, NEW i \in DOMAIN inbox[u], inbox[u][i].id # 0
               PROVE  caller'[u] = caller[u]
    BY <1>2 DEF OwnInv, InboxOwned
  <2> QED
    BY <1>9, <1>11 DEF Answered
<1>16. OneOfEach'
  <2> SUFFICES ASSUME NEW u \in Tasks
               PROVE  /\ ~(HasAsked(u)' /\ Served(u)') /\ ~(HasAsked(u)' /\ Answered(u)')
                      /\ ~(Served(u)' /\ Answered(u)')
                      /\ OneRequest(u)' /\ OneAnswer(u)'
    BY DEF OneOfEach
  <2>0. /\ ~(HasAsked(u) /\ Served(u)) /\ ~(HasAsked(u) /\ Answered(u))
        /\ ~(Served(u) /\ Answered(u)) /\ OneRequest(u) /\ OneAnswer(u)
    BY DEF OwnInv, OneOfEach
  <2>1. /\ Served(u)' <=> Served(u)
        /\ Answered(u)' <=> Answered(u)
        /\ OneAnswer(u)' <=> OneAnswer(u)
    BY <1>2 DEF Served, Answered, OneAnswer
  <2>2. CASE u = t
    <3>1. \A i \in DOMAIN requests' :
            requests'[i].from = t /\ requests'[i].id # 0 => i = Len(requests) + 1
      BY <1>6, <1>7, <1>11 DEF HasAsked
    <3>2. ~Served(u) /\ ~Answered(u)
      BY <1>11, <2>2
    <3>3. OneRequest(u)'
      <4> SUFFICES ASSUME NEW i \in DOMAIN requests', NEW j \in DOMAIN requests',
                          requests'[i].from = u, requests'[i].id # 0,
                          requests'[j].from = u, requests'[j].id # 0
                   PROVE  i = j
        BY DEF OneRequest
      <4>1. i = Len(requests) + 1
        BY <2>2, <3>1
      <4>2. j = Len(requests) + 1
        BY <2>2, <3>1
      <4> QED
        BY <4>1, <4>2
    <3> QED
      BY <2>0, <2>1, <3>2, <3>3
  <2>3. CASE u # t
    <3>1. \A i \in DOMAIN requests' :
            requests'[i].from = u => i \in DOMAIN requests /\ requests'[i] = requests[i]
      BY <1>6, <1>7, <1>8, <2>3
    <3>2. HasAsked(u)' => HasAsked(u)
      BY <3>1 DEF HasAsked
    <3>3. OneRequest(u)'
      <4> SUFFICES ASSUME NEW i \in DOMAIN requests', NEW j \in DOMAIN requests',
                          requests'[i].from = u, requests'[i].id # 0,
                          requests'[j].from = u, requests'[j].id # 0
                   PROVE  i = j
        BY DEF OneRequest
      <4>1. /\ i \in DOMAIN requests /\ requests[i].from = u /\ requests[i].id # 0
            /\ j \in DOMAIN requests /\ requests[j].from = u /\ requests[j].id # 0
        BY <3>1
      <4>2. \A x, y \in DOMAIN requests :
              requests[x].from = u /\ requests[x].id # 0
              /\ requests[y].from = u /\ requests[y].id # 0 => x = y
        BY <2>0 DEF OneRequest
      <4> QED
        BY <4>1, <4>2
    <3> QED
      BY <2>0, <2>1, <3>2, <3>3
  <2> QED
    BY <2>2, <2>3
<1> QED
  BY <1>12, <1>13, <1>14, <1>15, <1>16 DEF OwnInv

(* Elements of a sequence but its first.                                   *)
LEMMA TailProperties ==
  ASSUME NEW S, NEW s \in Seq(S), s # <<>>
  PROVE  \A i \in DOMAIN Tail(s) : i + 1 \in DOMAIN s /\ Tail(s)[i] = s[i + 1]
<1>1. /\ Tail(s) \in Seq(S) /\ Len(Tail(s)) = Len(s) - 1
      /\ \A i \in 1..Len(Tail(s)) : Tail(s)[i] = s[i + 1]
  BY HeadTailProperties
<1>2. DOMAIN Tail(s) = 1..Len(s) - 1 /\ DOMAIN s = 1..Len(s) /\ Len(s) \in Nat
  BY <1>1, LenProperties
<1> QED
  BY <1>1, <1>2

(* The stack's task takes the first request: it is done instead of asked.  *)
LEMMA OwnProcessEvent ==
  ASSUME TypeInv, OwnInv, bleDispatch_ProcessEvent
  PROVE  OwnInv'
<1>1. PICK e \in Executions :
        /\ e.call = Head(requests).call
        /\ doing' = << [from |-> Head(requests).from, call |-> Head(requests).call,
                        id |-> Head(requests).id,
                        did |-> e.did, status |-> e.status, len |-> e.len] >>
  BY DEF bleDispatch_ProcessEvent
<1>2. /\ requests # <<>> /\ requests' = Tail(requests) /\ UNCHANGED <<caller, inbox>>
      /\ doing = <<>>
  BY DEF bleDispatch_ProcessEvent
<1>3. requests \in Seq(Request) /\ 1 \in DOMAIN requests /\ Head(requests) = requests[1]
  BY <1>2 DEF TypeInv, RequestsOK
<1>4. \A i \in DOMAIN requests' : i + 1 \in DOMAIN requests /\ requests'[i] = requests[i + 1]
  BY <1>2, <1>3, TailProperties
<1>5. \A i \in DOMAIN requests' : i \in Nat /\ i >= 1
  <2>1. requests' \in Seq(Request)
    BY <1>2, <1>3, HeadTailProperties
  <2> QED
    BY <2>1, LenProperties
<1>6. /\ DOMAIN doing' = {1} /\ doing'[1].from = requests[1].from
      /\ doing'[1].call = requests[1].call /\ doing'[1].id = requests[1].id
      /\ doing'[1].did = e.did /\ doing'[1].status = e.status /\ doing'[1].len = e.len
  BY <1>1, <1>3
<1>7. CallsWait'
  BY <1>2 DEF OwnInv, CallsWait
<1>8. RequestsOwned'
  BY <1>2, <1>4 DEF OwnInv, RequestsOwned, InCall
<1>9. DoingOwned'
  <2>1. IF requests[1].id = 0 THEN ~Waits(requests[1].call)
        ELSE InCall(requests[1].from, requests[1].call, requests[1].id)
    BY <1>3 DEF OwnInv, RequestsOwned
  <2>2. \A i \in DOMAIN doing' : i = 1
    BY <1>6
  <2>3. e.call = doing'[1].call
    BY <1>1, <1>3, <1>6
  <2> QED
    BY <1>2, <1>6, <2>1, <2>2, <2>3 DEF DoingOwned, InCall
<1>10. InboxOwned'
  BY <1>2 DEF OwnInv, InboxOwned
<1>11. OneOfEach'
  <2> SUFFICES ASSUME NEW u \in Tasks
               PROVE  /\ ~(HasAsked(u)' /\ Served(u)') /\ ~(HasAsked(u)' /\ Answered(u)')
                      /\ ~(Served(u)' /\ Answered(u)')
                      /\ OneRequest(u)' /\ OneAnswer(u)'
    BY DEF OneOfEach
  <2>0. /\ ~(HasAsked(u) /\ Answered(u)) /\ OneRequest(u) /\ OneAnswer(u)
    BY DEF OwnInv, OneOfEach
  <2>1. HasAsked(u)' => HasAsked(u)
    BY <1>4 DEF HasAsked
  <2>2. Served(u)' => HasAsked(u)
    BY <1>3, <1>6 DEF Served, HasAsked
  <2>3. /\ Answered(u)' <=> Answered(u)
        /\ OneAnswer(u)' <=> OneAnswer(u)
    BY <1>2 DEF Answered, OneAnswer
  <2>4. OneRequest(u)'
    <3> SUFFICES ASSUME NEW i \in DOMAIN requests', NEW j \in DOMAIN requests',
                        requests'[i].from = u, requests'[i].id # 0,
                        requests'[j].from = u, requests'[j].id # 0
                 PROVE  i = j
      BY DEF OneRequest
    <3>1. i + 1 = j + 1
      BY <1>4, <2>0 DEF OneRequest
    <3> QED
      BY <1>5, <3>1
  <2>5. ~(HasAsked(u)' /\ Served(u)')
    <3> SUFFICES ASSUME NEW i \in DOMAIN requests', requests'[i].from = u,
                        requests'[i].id # 0, Served(u)'
                 PROVE  FALSE
      BY DEF HasAsked
    <3>1. requests[1].from = u /\ requests[1].id # 0
      BY <1>6 DEF Served
    <3>2. i + 1 = 1
      BY <1>3, <1>4, <2>0, <3>1 DEF OneRequest
    <3> QED
      BY <1>5, <3>2
  <2> QED
    BY <2>0, <2>1, <2>2, <2>3, <2>4, <2>5
<1> QED
  BY <1>7, <1>8, <1>9, <1>10, <1>11 DEF OwnInv

(* A message arrives that is an event or nobody's status, or the answer    *)
(* for the call the task is in.                                            *)
LEMMA OwnMessageArrives ==
  ASSUME TypeInv, OwnInv, NEW t \in Tasks, NEW m \in Message,
         inbox' = [inbox EXCEPT ![t] = Append(@, m)], UNCHANGED caller,
         IF m.id = 0 THEN m.op \in Stray ELSE IsAnswerOf(m, caller[t]) /\ ~Answered(t)
  PROVE  /\ InboxOwned'
         /\ \A u \in Tasks : OneAnswer(u)'
         /\ \A u \in Tasks : Answered(u)' => Answered(u) \/ (u = t /\ m.id # 0)
<1>1. inbox[t] \in Seq(Message)
  BY DEF TypeInv, InboxOK
<1>2. inbox'[t] = Append(inbox[t], m) /\ \A u \in Tasks : u # t => inbox'[u] = inbox[u]
  BY DEF TypeInv, InboxOK
<1>3. \A i \in DOMAIN inbox'[t] :
        \/ i \in DOMAIN inbox[t] /\ inbox'[t][i] = inbox[t][i]
        \/ i = Len(inbox[t]) + 1 /\ inbox'[t][i] = m
  BY <1>1, <1>2, AppendProperties, LenProperties
<1>4. InboxOwned'
  <2> SUFFICES ASSUME NEW u \in Tasks, NEW i \in DOMAIN inbox'[u]
               PROVE  IF inbox'[u][i].id = 0 THEN inbox'[u][i].op \in Stray
                      ELSE IsAnswerOf(inbox'[u][i], caller[u])
    BY DEF InboxOwned
  <2>1. CASE i \in DOMAIN inbox[u] /\ inbox'[u][i] = inbox[u][i]
    BY <2>1 DEF OwnInv, InboxOwned
  <2>2. CASE u = t /\ inbox'[u][i] = m
    BY <2>2
  <2> QED
    BY <1>2, <1>3, <2>1, <2>2
<1>5. ASSUME NEW u \in Tasks PROVE OneAnswer(u)'
  <2>0. OneAnswer(u)
    BY DEF OwnInv, OneOfEach
  <2>1. CASE u # t
    BY <1>2, <2>0, <2>1 DEF OneAnswer
  <2>2. CASE u = t
    <3> SUFFICES ASSUME NEW i \in DOMAIN inbox'[t], NEW j \in DOMAIN inbox'[t],
                        inbox'[t][i].id # 0, inbox'[t][j].id # 0
                 PROVE  i = j
      BY <2>2 DEF OneAnswer
    <3>1. m.id # 0 => \A x \in DOMAIN inbox[t] : inbox[t][x].id = 0
      BY DEF Answered
    <3> QED
      BY <1>3, <2>0, <2>2, <3>1 DEF OneAnswer
  <2> QED
    BY <2>1, <2>2
<1>6. ASSUME NEW u \in Tasks, Answered(u)'
      PROVE  Answered(u) \/ (u = t /\ m.id # 0)
  <2>1. PICK i \in DOMAIN inbox'[u] : inbox'[u][i].id # 0
    BY <1>6 DEF Answered
  <2> QED
    BY <1>2, <1>3, <2>1 DEF Answered
<1> QED
  BY <1>4, <1>5, <1>6

(* A command is done, and its status goes to the task it came from.        *)
LEMMA OwnFinishes ==
  ASSUME TablesAgree, TypeInv, OwnInv, Finishes
  PROVE  OwnInv'
<1>1. doing' = <<>> /\ UNCHANGED <<caller, requests>>
  BY DEF Finishes, sendGapCmdStatus
<1>2. PICK d \in Deeds : doing = <<d>>
  BY DEF Finishes, TypeInv, DoingOK
<1>3. UNCHANGED inbox
      \/ (d.status /\ inbox' = [inbox EXCEPT ![d.from] = Append(@, CmdStatus(d))])
  BY <1>2 DEF Finishes, sendGapCmdStatus
<1>4. d.from \in Tasks /\ 1 \in DOMAIN doing /\ doing[1] = d
  BY <1>2 DEF Deeds
<1>5. PICK e \in Executions : /\ e.call = d.call /\ e.did = d.did
                              /\ e.status = d.status /\ e.len = d.len
  BY <1>4 DEF OwnInv, DoingOwned
<1>6. IF d.id = 0 THEN ~Waits(d.call) ELSE InCall(d.from, d.call, d.id)
  BY <1>4 DEF OwnInv, DoingOwned
<1>7. ASSUME inbox' = [inbox EXCEPT ![d.from] = Append(@, CmdStatus(d))], d.status
      PROVE  /\ InboxOwned'
             /\ \A u \in Tasks : OneAnswer(u)'
             /\ \A u \in Tasks : Answered(u)' => Answered(u) \/ (u = d.from /\ d.id # 0)
  <2> DEFINE m == CmdStatus(d)
  <2>1. m \in Message
    BY StatusType
  <2>2. m.id = d.id /\ m.op = Api[d.call].op /\ m.did = d.did /\ m.len = d.len
    BY DEF CmdStatus
  <2> HIDE DEF m
  <2>3. CASE d.id = 0
    <3>1. m.op \in Stray
      BY <1>5, <1>6, <1>7, <2>2, <2>3 DEF Stray
    <3> QED
      BY <1>1, <1>4, <1>7, <2>1, <2>2, <2>3, <3>1, OwnMessageArrives DEF m
  <2>4. CASE d.id # 0
    <3>1. caller[d.from] = [call |-> d.call, id |-> d.id]
      BY <1>6, <2>4 DEF InCall
    <3>2. caller[d.from].call = d.call /\ caller[d.from].id = d.id
      BY <3>1
    <3>3. caller[d.from] # Idle
      <4>1. Idle.id = 0
        BY DEF Idle
      <4> QED
        BY <2>4, <3>2, <4>1
    <3>4. Waits(d.call)
      BY <1>4, <3>2, <3>3 DEF OwnInv, CallsWait
    <3>5. IsAnswerOf(m, caller[d.from])
      BY <1>5, <2>2, <3>2, <3>3, <3>4 DEF IsAnswerOf, TablesAgree, LengthsAgree
    <3>6. ~Answered(d.from)
      <4>1. Served(d.from)
        BY <1>4, <2>4 DEF Served
      <4> QED
        BY <1>4, <4>1 DEF OwnInv, OneOfEach
    <3> QED
      BY <1>1, <1>4, <1>7, <2>1, <2>2, <2>4, <3>5, <3>6, OwnMessageArrives DEF m
  <2> QED
    BY <2>3, <2>4
<1>8. /\ InboxOwned'
      /\ \A u \in Tasks : OneAnswer(u)'
      /\ \A u \in Tasks : Answered(u)' => Answered(u) \/ (u = d.from /\ d.id # 0)
  <2>1. CASE UNCHANGED inbox
    <3>1. \A u \in Tasks : OneAnswer(u)' /\ (Answered(u)' => Answered(u))
      BY <2>1 DEF OwnInv, OneOfEach, OneAnswer, Answered
    <3>2. InboxOwned'
      BY <1>1, <2>1 DEF OwnInv, InboxOwned
    <3> QED
      BY <3>1, <3>2
  <2> QED
    BY <1>3, <1>7, <2>1
<1>9. CallsWait' /\ RequestsOwned'
  BY <1>1 DEF OwnInv, CallsWait, RequestsOwned, InCall
<1>10. DoingOwned'
  BY <1>1 DEF DoingOwned
<1>11. OneOfEach'
  <2> SUFFICES ASSUME NEW u \in Tasks
               PROVE  /\ ~(HasAsked(u)' /\ Served(u)') /\ ~(HasAsked(u)' /\ Answered(u)')
                      /\ ~(Served(u)' /\ Answered(u)')
                      /\ OneRequest(u)' /\ OneAnswer(u)'
    BY DEF OneOfEach
  <2>0. /\ ~(HasAsked(u) /\ Served(u)) /\ ~(HasAsked(u) /\ Answered(u)) /\ OneRequest(u)
    BY DEF OwnInv, OneOfEach
  <2>1. /\ HasAsked(u)' <=> HasAsked(u)
        /\ OneRequest(u)' <=> OneRequest(u)
    BY <1>1 DEF HasAsked, OneRequest
  <2>2. ~Served(u)'
    BY <1>1 DEF Served
  <2>3. u = d.from /\ d.id # 0 => Served(u)
    BY <1>4 DEF Served
  <2> QED
    BY <1>8, <2>0, <2>1, <2>2, <2>3
<1> QED
  BY <1>8, <1>9, <1>10, <1>11 DEF OwnInv

(* A message is taken out of an inbox in which no other is numbered.       *)
LEMMA OwnMessageTaken ==
  ASSUME TypeInv, OwnInv, NEW t \in Tasks, NEW i \in DOMAIN inbox[t],
         inbox' = [inbox EXCEPT ![t] = Without(@, i)],
         \A j \in DOMAIN inbox[t] : j # i => inbox[t][j].id = 0,
         \A u \in Tasks : u # t => caller'[u] = caller[u]
  PROVE  /\ InboxOwned'
         /\ \A u \in Tasks : OneAnswer(u)' /\ (Answered(u)' => Answered(u) /\ u # t)
<1>1. inbox[t] \in Seq(Message) /\ DOMAIN inbox[t] = 1..Len(inbox[t])
      /\ Len(inbox[t]) \in Nat
  BY LenProperties DEF TypeInv, InboxOK
<1>2. /\ inbox'[t] = Without(inbox[t], i)
      /\ \A u \in Tasks : u # t => inbox'[u] = inbox[u]
  BY DEF TypeInv, InboxOK
<1>3. i \in 1..Len(inbox[t])
  BY <1>1
<1>4. /\ Without(inbox[t], i) \in Seq(Message)
      /\ Len(Without(inbox[t], i)) = Len(inbox[t]) - 1
      /\ \A j \in 1..Len(inbox[t]) - 1 :
           Without(inbox[t], i)[j] = IF j < i THEN inbox[t][j] ELSE inbox[t][j + 1]
  BY <1>1, <1>3, WithoutProperties
<1>5. DOMAIN inbox'[t] = 1..Len(inbox[t]) - 1
  BY <1>2, <1>4, LenProperties
<1>6. ASSUME NEW j \in DOMAIN inbox'[t]
      PROVE  \E k \in DOMAIN inbox[t] : k # i /\ inbox'[t][j] = inbox[t][k]
  <2>1. j \in 1..Len(inbox[t]) - 1
    BY <1>5
  <2>2. CASE j < i
    <3>1. inbox'[t][j] = inbox[t][j]
      BY <1>2, <1>4, <2>1, <2>2
    <3>2. j \in DOMAIN inbox[t] /\ j # i
      BY <1>1, <1>3, <2>1, <2>2
    <3> QED
      BY <3>1, <3>2
  <2>3. CASE ~(j < i)
    <3>1. inbox'[t][j] = inbox[t][j + 1]
      BY <1>2, <1>4, <2>1, <2>3
    <3>2. j + 1 \in DOMAIN inbox[t] /\ j + 1 # i
      BY <1>1, <1>3, <2>1, <2>3
    <3> QED
      BY <3>1, <3>2
  <2> QED
    BY <2>2, <2>3
<1>7. \A j \in DOMAIN inbox'[t] : inbox'[t][j].id = 0 /\ inbox'[t][j].op \in Stray
  BY <1>6 DEF OwnInv, InboxOwned
<1>8. InboxOwned'
  <2> SUFFICES ASSUME NEW u \in Tasks, NEW j \in DOMAIN inbox'[u]
               PROVE  IF inbox'[u][j].id = 0 THEN inbox'[u][j].op \in Stray
                      ELSE IsAnswerOf(inbox'[u][j], caller'[u])
    BY DEF InboxOwned, IsAnswerOf
  <2>1. CASE u = t
    BY <1>7, <2>1
  <2>2. CASE u # t
    BY <1>2, <2>2 DEF OwnInv, InboxOwned
  <2> QED
    BY <2>1, <2>2
<1>9. ASSUME NEW u \in Tasks
      PROVE  OneAnswer(u)' /\ (Answered(u)' => Answered(u) /\ u # t)
  <2>1. CASE u = t
    BY <1>7, <2>1 DEF OneAnswer, Answered
  <2>2. CASE u # t
    BY <1>2, <2>2 DEF OwnInv, OneOfEach, OneAnswer, Answered
  <2> QED
    BY <2>1, <2>2
<1> QED
  BY <1>8, <1>9

(* The waiting task takes its answer and goes on.                          *)
LEMMA OwnWaitMatch ==
  ASSUME TablesAgree, TypeInv, OwnInv, NEW t \in Tasks, waitMatchCS(t)
  PROVE  OwnInv'
<1>1. PICK i \in Accepted(t) : inbox' = [inbox EXCEPT ![t] = Without(@, i)]
  BY DEF waitMatchCS
<1>2. caller[t] # Idle /\ caller' = [caller EXCEPT ![t] = Idle] /\ UNCHANGED <<requests, doing>>
  BY DEF waitMatchCS
<1>3. caller'[t] = Idle /\ \A u \in Tasks : u # t => caller'[u] = caller[u]
  BY <1>2 DEF TypeInv, CallerOK
<1>4. i \in DOMAIN inbox[t] /\ inbox[t][i].id # 0
  BY <1>1, <1>2, AcceptedIsAnswer DEF Accepted
<1>5. Answered(t)
  BY <1>4 DEF Answered
<1>6. ~HasAsked(t) /\ ~Served(t) /\ OneAnswer(t)
  BY <1>5 DEF OwnInv, OneOfEach
<1>7. \A j \in DOMAIN inbox[t] : j # i => inbox[t][j].id = 0
  BY <1>4, <1>6 DEF OneAnswer
<1>8. /\ InboxOwned'
      /\ \A u \in Tasks : OneAnswer(u)' /\ (Answered(u)' => Answered(u) /\ u # t)
  BY <1>1, <1>3, <1>4, <1>7, OwnMessageTaken
<1>9. CallsWait'
  BY <1>3 DEF OwnInv, CallsWait
<1>10. RequestsOwned'
  <2> SUFFICES ASSUME NEW j \in DOMAIN requests, requests[j].id # 0
               PROVE  caller'[requests[j].from] = caller[requests[j].from]
    BY <1>2 DEF OwnInv, RequestsOwned, InCall
  <2>1. requests[j].from \in Tasks
    <3>1. requests[j] \in Request
      BY DEF TypeInv, RequestsOK
    <3> QED
      BY <3>1 DEF Request
  <2>2. requests[j].from # t
    BY <1>6 DEF HasAsked
  <2> QED
    BY <1>3, <2>1, <2>2
<1>11. DoingOwned'
  <2> SUFFICES ASSUME NEW j \in DOMAIN doing, doing[j].id # 0
               PROVE  caller'[doing[j].from] = caller[doing[j].from]
    BY <1>2 DEF OwnInv, DoingOwned, InCall
  <2>1. doing[j].from \in Tasks
    BY DEF TypeInv, DoingOK, Deeds
  <2>2. doing[j].from # t
    BY <1>6 DEF Served
  <2> QED
    BY <1>3, <2>1, <2>2
<1>12. OneOfEach'
  <2>1. \A u \in Tasks : /\ HasAsked(u)' <=> HasAsked(u)
                         /\ Served(u)' <=> Served(u)
                         /\ OneRequest(u)' <=> OneRequest(u)
    BY <1>2 DEF HasAsked, Served, OneRequest
  <2> QED
    BY <1>8, <2>1 DEF OwnInv, OneOfEach
<1> QED
  BY <1>8, <1>9, <1>10, <1>11, <1>12 DEF OwnInv

(* The loop of the application task takes an event, or nobody's status.    *)
LEMMA OwnFetches ==
  ASSUME TypeInv, OwnInv, Fetches
  PROVE  OwnInv'
<1>1. /\ caller["app"] = Idle /\ inbox["app"] # <<>>
      /\ inbox' = [inbox EXCEPT !["app"] = Tail(@)]
      /\ UNCHANGED <<caller, requests, doing>>
  BY DEF Fetches
<1>2. "app" \in Tasks
  BY DEF Tasks
<1>3. ~Answered("app")
  BY <1>1, <1>2, IdleHasNothing
<1>4. inbox["app"] \in Seq(Message)
  BY <1>2 DEF TypeInv, InboxOK
<1>5. inbox'["app"] = Tail(inbox["app"]) /\ \A u \in Tasks : u # "app" => inbox'[u] = inbox[u]
  BY <1>1, <1>2 DEF TypeInv, InboxOK
<1>6. \A j \in DOMAIN inbox'["app"] :
        j + 1 \in DOMAIN inbox["app"] /\ inbox'["app"][j] = inbox["app"][j + 1]
  <2>1. \A j \in DOMAIN Tail(inbox["app"]) :
          j + 1 \in DOMAIN inbox["app"] /\ Tail(inbox["app"])[j] = inbox["app"][j + 1]
    BY <1>1, <1>4, TailProperties
  <2> QED
    BY <1>5, <2>1
<1>7. \A j \in DOMAIN inbox'["app"] :
        inbox'["app"][j].id = 0 /\ inbox'["app"][j].op \in Stray
  BY <1>2, <1>3, <1>6 DEF Answered, OwnInv, InboxOwned
<1>8. InboxOwned'
  <2> SUFFICES ASSUME NEW u \in Tasks, NEW j \in DOMAIN inbox'[u]
               PROVE  IF inbox'[u][j].id = 0 THEN inbox'[u][j].op \in Stray
                      ELSE IsAnswerOf(inbox'[u][j], caller[u])
    BY <1>1 DEF InboxOwned, IsAnswerOf
  <2>1. CASE u = "app"
    BY <1>7, <2>1
  <2>2. CASE u # "app"
    BY <1>5, <2>2 DEF OwnInv, InboxOwned
  <2> QED
    BY <2>1, <2>2
<1>9. ASSUME NEW u \in Tasks
      PROVE  OneAnswer(u)' /\ (Answered(u)' => Answered(u))
  <2>1. CASE u = "app"
    BY <1>7, <2>1 DEF OneAnswer, Answered
  <2>2. CASE u # "app"
    BY <1>5, <2>2 DEF OwnInv, OneOfEach, OneAnswer, Answered
  <2> QED
    BY <2>1, <2>2
<1>10. CallsWait' /\ RequestsOwned' /\ DoingOwned'
  BY <1>1 DEF OwnInv, CallsWait, RequestsOwned, DoingOwned, InCall
<1>11. OneOfEach'
  <2>1. \A u \in Tasks : /\ HasAsked(u)' <=> HasAsked(u)
                         /\ Served(u)' <=> Served(u)
                         /\ OneRequest(u)' <=> OneRequest(u)
    BY <1>1 DEF HasAsked, Served, OneRequest
  <2> QED
    BY <1>9, <2>1 DEF OwnInv, OneOfEach
<1> QED
  BY <1>8, <1>10, <1>11 DEF OwnInv

(* An event of the stack is nobody's answer.                               *)
LEMMA OwnStackEvent ==
  ASSUME TypeInv, OwnInv, StackEvent
  PROVE  OwnInv'
<1>1. /\ inbox' = [inbox EXCEPT !["app"] = Append(@, Event)]
      /\ UNCHANGED <<caller, requests, doing>>
  BY DEF StackEvent
<1>2. Event \in Message /\ Event.id = 0 /\ Event.op \in Stray
  BY DEF Event, Message, StatusOps, Dids, Lens, Stray
<1>3. "app" \in Tasks
  BY DEF Tasks
<1>4. /\ InboxOwned'
      /\ \A u \in Tasks : OneAnswer(u)'
      /\ \A u \in Tasks : Answered(u)' => Answered(u)
  BY <1>1, <1>2, <1>3, OwnMessageArrives
<1>5. CallsWait' /\ RequestsOwned' /\ DoingOwned'
  BY <1>1 DEF OwnInv, CallsWait, RequestsOwned, DoingOwned, InCall
<1>6. OneOfEach'
  <2>1. \A u \in Tasks : /\ HasAsked(u)' <=> HasAsked(u)
                         /\ Served(u)' <=> Served(u)
                         /\ OneRequest(u)' <=> OneRequest(u)
    BY <1>1 DEF HasAsked, Served, OneRequest
  <2> QED
    BY <1>4, <2>1 DEF OwnInv, OneOfEach
<1> QED
  BY <1>4, <1>5, <1>6 DEF OwnInv

----------------------------------------------------------------------------
(* At first nothing is under way.                                          *)
LEMMA InitIsOwn == Init => TypeInv /\ OwnInv
<1> SUFFICES ASSUME Init PROVE TypeInv /\ OwnInv
  OBVIOUS
<1>1. /\ caller = [t \in Tasks |-> Idle] /\ requests = <<>> /\ doing = <<>>
      /\ inbox = [t \in Tasks |-> <<>>]
  BY DEF Init
<1>2. Idle \in [call : Calls \cup {"none"}, id : Ids \cup {0}]
  BY DEF Idle
<1>3. CallerOK /\ RequestsOK /\ DoingOK /\ InboxOK
  <2>1. CallerOK
    BY <1>1, <1>2 DEF CallerOK
  <2>2. RequestsOK /\ DoingOK
    BY <1>1, EmptySeq DEF RequestsOK, DoingOK
  <2>3. InboxOK
    BY <1>1, EmptySeq DEF InboxOK
  <2> QED
    BY <2>1, <2>2, <2>3
<1>4. CallsWait /\ RequestsOwned /\ DoingOwned /\ InboxOwned
  BY <1>1 DEF CallsWait, RequestsOwned, DoingOwned, InboxOwned
<1>5. OneOfEach
  BY <1>1 DEF OneOfEach, HasAsked, Served, Answered, OneRequest, OneAnswer
<1> QED
  BY <1>3, <1>4, <1>5 DEF TypeInv, OwnInv

(* Every step keeps calls and answers to their own.                        *)
LEMMA OwnStep == TablesAgree /\ TypeInv /\ OwnInv /\ [Next]_vars => OwnInv'
<1> SUFFICES ASSUME TablesAgree, TypeInv, OwnInv, [Next]_vars PROVE OwnInv'
  OBVIOUS
<1>1. CASE \E t \in Tasks : (\E f \in CallsOf[t] : Calling(t, f)) \/ waitMatchCS(t)
  BY <1>1, OwnCalling, OwnWaitMatch
<1>2. CASE bleDispatch_ProcessEvent
  BY <1>2, OwnProcessEvent
<1>3. CASE Finishes
  BY <1>3, OwnFinishes
<1>4. CASE Fetches
  BY <1>4, OwnFetches
<1>5. CASE StackEvent
  BY <1>5, OwnStackEvent
<1>6. CASE UNCHANGED vars
  <2>1. UNCHANGED <<caller, requests, doing, inbox>>
    BY <1>6 DEF vars
  <2>2. \A u \in Tasks : /\ HasAsked(u)' <=> HasAsked(u)
                         /\ Served(u)' <=> Served(u)
                         /\ Answered(u)' <=> Answered(u)
                         /\ OneRequest(u)' <=> OneRequest(u)
                         /\ OneAnswer(u)' <=> OneAnswer(u)
    BY <2>1 DEF HasAsked, Served, Answered, OneRequest, OneAnswer
  <2>3. OneOfEach'
    BY <2>2 DEF OwnInv, OneOfEach
  <2> QED
    BY <2>1, <2>3 DEF OwnInv, CallsWait, RequestsOwned, DoingOwned, InboxOwned, InCall
<1> QED
  BY <1>1, <1>2, <1>3, <1>4, <1>5, <1>6 DEF Next

(* Calls and answers are always to their own.                              *)
LEMMA OwnInvariant == ASSUME TablesAgree PROVE Spec => [](TypeInv /\ OwnInv)
<1>1. Init => TypeInv /\ OwnInv
  BY InitIsOwn
<1>2. TypeInv /\ OwnInv /\ [Next]_vars => (TypeInv /\ OwnInv)'
  BY TypeInvStep, OwnStep
<1> QED
  BY <1>1, <1>2, PTL DEF Spec

(* The arguments of a call, which point to the frame of its caller, stay   *)
(* there as long as the stack has its message (ICallBleAPI.c:560).         *)
THEOREM ArgsOutliveInvariant == ASSUME TablesAgree PROVE Spec => []ArgsOutlive
<1>1. OwnInv => ArgsOutlive
  BY DEF OwnInv, RequestsOwned, DoingOwned, ArgsOutlive
<1> QED
  BY <1>1, OwnInvariant, PTL

(* What ends the wait of a call is the answer to that call, with the bytes *)
(* it copies (ICallBleAPI.c:608).                                          *)
THEOREM AnswerIsOwnInvariant == ASSUME TablesAgree PROVE Spec => []AnswerIsOwn
<1>1. OwnInv => AnswerIsOwn
  <2> SUFFICES ASSUME OwnInv, NEW t \in Tasks, caller[t] # Idle, NEW i \in Accepted(t)
               PROVE  /\ inbox[t][i].id = caller[t].id
                      /\ inbox[t][i].did # Refused => inbox[t][i].len = Api[caller[t].call].len
    BY DEF AnswerIsOwn
  <2> QED
    BY AcceptedIsAnswer DEF IsAnswerOf
<1> QED
  BY <1>1, OwnInvariant, PTL

----------------------------------------------------------------------------
(* The detour over messages is not seen.                                   *)

(* Whatever the dispatcher does for a call is the call itself, or nothing. *)
ExecutionsAgree == \A e \in Executions : e.did \in {Itself(e.call), Refused}

(* What a task that is in c is told by the messages q.                     *)
Told(q, c) ==
  LET own == { i \in DOMAIN q : q[i].id # 0 /\ q[i].id = c.id }
  IN IF own = {} THEN "none" ELSE Deed(c.call, q[CHOOSE i \in own : TRUE].did)

(* What is owed, seen as the callers see it.                               *)
Pairs(q) == [i \in DOMAIN q |-> <<q[i].from, q[i].call>>]
RemoteNow == [i \in DOMAIN doing |-> <<doing[i].from, doing[i].call,
                                       Deed(doing[i].call, doing[i].did)>>]
RemoteCalls == [t \in Tasks |-> caller[t].call]
RemoteAnswers == [t \in Tasks |-> Answer(t)]
RemoteVars == <<Pairs(requests), RemoteNow, RemoteCalls, RemoteAnswers>>

(* What is done for a call is something.                                   *)
LEMMA DeedIsSomething ==
  ASSUME NEW f \in Calls, NEW did
  PROVE  Deed(f, did) # "none" /\ f # "none"
<1>1. f # "none"
  BY StackCallAssumption DEF Calls
<1>2. CASE did = Itself(f)
  <2>1. Deed(f, did) = f
    BY <1>2 DEF Deed
  <2> QED
    BY <1>1, <2>1
<1>3. CASE did # Itself(f)
  <2>1. Deed(f, did) = "refused" \/ Deed(f, did) = "something else"
    BY <1>3, Zenon DEF Deed
  <2> QED
    BY <1>1, <2>1
<1> QED
  BY <1>2, <1>3

(* Nobody is told anything without a number of its own.                    *)
LEMMA ToldNothing ==
  ASSUME NEW q, NEW c, \A i \in DOMAIN q : q[i].id = 0 \/ q[i].id # c.id
  PROVE  Told(q, c) = "none"
<1>1. { i \in DOMAIN q : q[i].id # 0 /\ q[i].id = c.id } = {}
  OBVIOUS
<1> QED
  BY <1>1, Zenon DEF Told

(* The one message with its number tells a task what was done.             *)
LEMMA ToldOne ==
  ASSUME NEW q, NEW c, NEW k \in DOMAIN q, q[k].id # 0, q[k].id = c.id,
         \A i \in DOMAIN q : q[i].id # 0 => i = k
  PROVE  Told(q, c) = Deed(c.call, q[k].did)
<1> DEFINE own == { i \in DOMAIN q : q[i].id # 0 /\ q[i].id = c.id }
<1>1. own = {k}
  OBVIOUS
<1>2. (CHOOSE i \in {k} : TRUE) = k
  OBVIOUS
<1>3. own # {} /\ (CHOOSE i \in own : TRUE) = k
  BY <1>1, <1>2
<1>4. Told(q, c) = IF own = {} THEN "none" ELSE Deed(c.call, q[CHOOSE i \in own : TRUE].did)
  BY DEF Told
<1> HIDE DEF own
<1> QED
  BY <1>3, <1>4

(* A message without a number tells nobody anything.                       *)
LEMMA ToldAsBefore ==
  ASSUME NEW q \in Seq(Message), NEW m \in Message, m.id = 0, NEW c
  PROVE  Told(Append(q, m), c) = Told(q, c)
<1> DEFINE own == { i \in DOMAIN q : q[i].id # 0 /\ q[i].id = c.id }
           also == { i \in DOMAIN Append(q, m) :
                       Append(q, m)[i].id # 0 /\ Append(q, m)[i].id = c.id }
<1>1. /\ DOMAIN q = 1..Len(q) /\ DOMAIN Append(q, m) = 1..(Len(q) + 1) /\ Len(q) \in Nat
      /\ Append(q, m)[Len(q) + 1] = m
      /\ \A i \in 1..Len(q) : Append(q, m)[i] = q[i]
  BY AppendProperties, LenProperties
<1>2. also = own
  BY <1>1
<1>3. own # {} => Append(q, m)[CHOOSE i \in own : TRUE].did = q[CHOOSE i \in own : TRUE].did
  <2> SUFFICES ASSUME own # {}
               PROVE  Append(q, m)[CHOOSE i \in own : TRUE] = q[CHOOSE i \in own : TRUE]
    OBVIOUS
  <2>1. PICK k : k = CHOOSE i \in own : TRUE
    OBVIOUS
  <2>2. k \in own
    BY <2>1
  <2>3. k \in 1..Len(q)
    BY <1>1, <2>2
  <2> QED
    BY <1>1, <2>1, <2>3
<1>4. /\ Told(q, c) = IF own = {} THEN "none" ELSE Deed(c.call, q[CHOOSE i \in own : TRUE].did)
      /\ Told(Append(q, m), c)
           = IF also = {} THEN "none"
             ELSE Deed(c.call, Append(q, m)[CHOOSE i \in also : TRUE].did)
  BY DEF Told
<1> HIDE DEF own, also
<1>5. CASE own = {}
  BY <1>2, <1>4, <1>5, Zenon
<1>6. CASE own # {}
  <2>1. Told(Append(q, m), c) = Deed(c.call, Append(q, m)[CHOOSE i \in own : TRUE].did)
    BY <1>2, <1>4, <1>6, Zenon
  <2>2. Told(q, c) = Deed(c.call, q[CHOOSE i \in own : TRUE].did)
    BY <1>4, <1>6, Zenon
  <2> QED
    BY <1>3, <1>6, <2>1, <2>2, Zenon
<1> QED
  BY <1>5, <1>6

(* The answers, seen one by one.                                           *)
LEMMA AnswersAreTold ==
  /\ \A t \in Tasks : Answer(t) = Told(inbox[t], caller[t])
  /\ \A t \in Tasks : Answer(t)' = Told(inbox'[t], caller'[t])
BY DEF Answer, Told

(* Pairs of a queue are as many, in the same order.                        *)
LEMMA PairsType ==
  ASSUME NEW q \in Seq(Request)
  PROVE  /\ Pairs(q) \in Seq(Tasks \X Calls) /\ Len(Pairs(q)) = Len(q)
         /\ \A i \in 1..Len(q) : Pairs(q)[i] = <<q[i].from, q[i].call>>
<1>1. Len(q) \in Nat /\ DOMAIN q = 1..Len(q) /\ \A i \in 1..Len(q) : q[i] \in Request
  BY LenProperties, ElementOfSeq
<1>2. \A i \in 1..Len(q) : <<q[i].from, q[i].call>> \in Tasks \X Calls
  BY <1>1 DEF Request
<1>3. Pairs(q) \in [1..Len(q) -> Tasks \X Calls]
  BY <1>1, <1>2 DEF Pairs
<1> QED
  BY <1>1, <1>3 DEF Pairs

(* A call that is added is owed last.                                      *)
LEMMA PairsAppend ==
  ASSUME NEW q \in Seq(Request), NEW r \in Request
  PROVE  Pairs(Append(q, r)) = Append(Pairs(q), <<r.from, r.call>>)
<1> DEFINE long == Append(q, r)
           pair == <<r.from, r.call>>
<1>1. long \in Seq(Request) /\ Len(long) = Len(q) + 1 /\ long[Len(q) + 1] = r
      /\ \A i \in 1..Len(q) : long[i] = q[i]
  BY AppendProperties
<1>2. Len(q) \in Nat
  BY LenProperties
<1>3. pair \in Tasks \X Calls
  BY DEF Request
<1>4. /\ Pairs(q) \in Seq(Tasks \X Calls) /\ Len(Pairs(q)) = Len(q)
      /\ \A i \in 1..Len(q) : Pairs(q)[i] = <<q[i].from, q[i].call>>
  BY PairsType
<1> HIDE DEF long
<1>5. /\ Pairs(long) \in Seq(Tasks \X Calls) /\ Len(Pairs(long)) = Len(long)
      /\ \A i \in 1..Len(long) : Pairs(long)[i] = <<long[i].from, long[i].call>>
  BY <1>1, PairsType
<1> HIDE DEF pair
<1>6. /\ Append(Pairs(q), pair) \in Seq(Tasks \X Calls)
      /\ Len(Append(Pairs(q), pair)) = Len(q) + 1
      /\ Append(Pairs(q), pair)[Len(q) + 1] = pair
      /\ \A i \in 1..Len(q) : Append(Pairs(q), pair)[i] = Pairs(q)[i]
  BY <1>3, <1>4, AppendProperties
<1>7. \A i \in 1..Len(Pairs(long)) : Pairs(long)[i] = Append(Pairs(q), pair)[i]
  <2> SUFFICES ASSUME NEW i \in 1..Len(q) + 1
               PROVE  Pairs(long)[i] = Append(Pairs(q), pair)[i]
    BY <1>1, <1>5
  <2>1. CASE i # Len(q) + 1
    <3>1. i \in 1..Len(q)
      BY <1>2, <2>1
    <3> QED
      BY <1>1, <1>2, <1>4, <1>5, <1>6, <3>1
  <2>2. CASE i = Len(q) + 1
    BY <1>1, <1>2, <1>5, <1>6, <2>2 DEF pair
  <2> QED
    BY <2>1, <2>2
<1> QED
  BY <1>1, <1>5, <1>6, <1>7, SeqEqual DEF long, pair

(* A call that is begun was owed first.                                    *)
LEMMA PairsTail ==
  ASSUME NEW q \in Seq(Request), q # <<>>
  PROVE  /\ Pairs(q) # <<>> /\ Head(Pairs(q)) = <<Head(q).from, Head(q).call>>
         /\ Tail(Pairs(q)) = Pairs(Tail(q))
<1>1. /\ Pairs(q) \in Seq(Tasks \X Calls) /\ Len(Pairs(q)) = Len(q)
      /\ \A i \in 1..Len(q) : Pairs(q)[i] = <<q[i].from, q[i].call>>
  BY PairsType
<1>2. Len(q) \in Nat \ {0}
  BY EmptySeq
<1>3. /\ Tail(q) \in Seq(Request) /\ Len(Tail(q)) = Len(q) - 1
      /\ \A i \in 1..Len(Tail(q)) : Tail(q)[i] = q[i + 1]
  BY HeadTailProperties
<1>4. /\ Pairs(Tail(q)) \in Seq(Tasks \X Calls) /\ Len(Pairs(Tail(q))) = Len(Tail(q))
      /\ \A i \in 1..Len(Tail(q)) : Pairs(Tail(q))[i] = <<Tail(q)[i].from, Tail(q)[i].call>>
  BY <1>3, PairsType
<1>5. Pairs(q) # <<>>
  BY <1>1, <1>2
<1>6. /\ Tail(Pairs(q)) \in Seq(Tasks \X Calls) /\ Len(Tail(Pairs(q))) = Len(Pairs(q)) - 1
      /\ \A i \in 1..Len(Tail(Pairs(q))) : Tail(Pairs(q))[i] = Pairs(q)[i + 1]
  BY <1>1, <1>5, HeadTailProperties
<1>7. \A i \in 1..Len(Tail(Pairs(q))) : Tail(Pairs(q))[i] = Pairs(Tail(q))[i]
  <2> SUFFICES ASSUME NEW i \in 1..Len(q) - 1
               PROVE  Tail(Pairs(q))[i] = Pairs(Tail(q))[i]
    BY <1>1, <1>6
  <2>1. i + 1 \in 1..Len(q) /\ i \in 1..Len(Tail(q)) /\ i \in 1..Len(Tail(Pairs(q)))
    BY <1>1, <1>2, <1>3, <1>6
  <2>2. Tail(Pairs(q))[i] = <<q[i + 1].from, q[i + 1].call>>
    BY <1>1, <1>6, <2>1
  <2>3. Pairs(Tail(q))[i] = <<q[i + 1].from, q[i + 1].call>>
    BY <1>3, <1>4, <2>1
  <2> QED
    BY <2>2, <2>3
<1>8. Tail(Pairs(q)) = Pairs(Tail(q))
  <2>1. Len(Tail(Pairs(q))) = Len(Pairs(Tail(q)))
    BY <1>1, <1>3, <1>4, <1>6
  <2>2. Tail(Pairs(q)) \in Seq(Tasks \X Calls) /\ Pairs(Tail(q)) \in Seq(Tasks \X Calls)
    BY <1>4, <1>6
  <2> QED
    BY <1>7, <2>1, <2>2, SeqEqual
<1>9. Head(Pairs(q)) = <<Head(q).from, Head(q).call>>
  BY <1>1, <1>2
<1> QED
  BY <1>5, <1>8, <1>9

(* The types of what the callers see, apart.                               *)
LEMMA CallerFacts ==
  ASSUME TypeInv
  PROVE  /\ requests \in Seq(Request)
         /\ \A t \in Tasks : /\ caller[t].call \in Calls \cup {"none"}
                             /\ inbox[t] \in Seq(Message) /\ DOMAIN inbox[t] = 1..Len(inbox[t])
         /\ DOMAIN caller = Tasks /\ DOMAIN inbox = Tasks
<1>1. \A t \in Tasks : inbox[t] \in Seq(Message)
  BY DEF TypeInv, InboxOK
<1>2. \A t \in Tasks : DOMAIN inbox[t] = 1..Len(inbox[t])
  BY <1>1, LenProperties
<1>3. \A t \in Tasks : caller[t] \in [call : Calls \cup {"none"}, id : Ids \cup {0}]
  BY DEF TypeInv, CallerOK
<1> QED
  BY <1>1, <1>2, <1>3 DEF TypeInv, RequestsOK, CallerOK, InboxOK

(* A task that is in no call is in none, and has no number.                *)
LEMMA IdleIsNone == Idle.call = "none" /\ Idle.id = 0
BY DEF Idle

(* A task that is in no call is told nothing.                              *)
LEMMA IdleIsToldNothing ==
  ASSUME NEW q, NEW c, c = Idle
  PROVE  Told(q, c) = "none"
BY IdleIsNone, ToldNothing

(* A call is owed, and waited for if its caller waits.                     *)
LEMMA RemoteAsks ==
  ASSUME TypeInv, OwnInv, NEW t \in Tasks, NEW f \in CallsOf[t], Calling(t, f)
  PROVE  Remote!Ask(t, f) /\ f \in Calls
<1>1. f \in Calls
  BY CallsOfTask
<1>2. PICK id \in IF Waits(f) THEN NewId(t) ELSE {0} :
        /\ requests' = Append(requests, [from |-> t, call |-> f, id |-> id])
        /\ caller' = IF Waits(f) THEN [caller EXCEPT ![t] = [call |-> f, id |-> id]]
                                 ELSE caller
  BY DEF Calling
<1>3. caller[t] = Idle /\ doing' = doing /\ inbox' = inbox
  BY DEF Calling
<1>4. id \in Ids \cup {0}
  BY <1>2 DEF NewId
<1>5. PICK r \in Request : r = [from |-> t, call |-> f, id |-> id]
  BY <1>1, <1>4 DEF Request
<1>6. Pairs(requests') = Append(Pairs(requests), <<t, f>>)
  BY <1>2, <1>5, PairsAppend, CallerFacts
<1>7. RemoteNow' = RemoteNow
  BY <1>3 DEF RemoteNow
<1>8. RemoteCalls[t] = "none"
  BY <1>3, IdleIsNone DEF RemoteCalls
<1>9. \A u \in Tasks : u # t => caller'[u] = caller[u]
  BY <1>2, CallerFacts
<1>10. caller'[t].call = IF Waits(f) THEN f ELSE "none"
  BY <1>2, <1>3, CallerFacts, IdleIsNone
<1>11. RemoteCalls' = IF f \in { g \in Calls : Waits(g) } THEN [RemoteCalls EXCEPT ![t] = f]
                      ELSE RemoteCalls
  BY <1>1, <1>3, <1>9, <1>10, IdleIsNone DEF RemoteCalls
<1>12. ASSUME NEW u \in Tasks PROVE Answer(u)' = Answer(u)
  <2>1. CASE u # t
    BY <1>3, <1>9, <2>1, AnswersAreTold
  <2>2. CASE u = t
    <3>1. ~Answered(t)
      BY <1>3, IdleHasNothing
    <3>2. \A i \in DOMAIN inbox[t] : inbox[t][i].id = 0
      BY <3>1 DEF Answered
    <3>3. Told(inbox[t], caller[t]) = "none" /\ Told(inbox[t], caller'[t]) = "none"
      BY <3>2, ToldNothing
    <3> QED
      BY <1>3, <2>2, <3>3, AnswersAreTold
  <2> QED
    BY <2>1, <2>2
<1>13. RemoteAnswers' = RemoteAnswers
  BY <1>12 DEF RemoteAnswers
<1> QED
  BY <1>1, <1>6, <1>7, <1>8, <1>11, <1>13
     DEF Remote!Ask, Pairs, RemoteNow, RemoteCalls, RemoteAnswers

(* A pair and one thing more are three.                                    *)
LEMMA PairAndOne ==
  ASSUME NEW a, NEW b, NEW c
  PROVE  <<a, b>> \o <<c>> = <<a, b, c>>
<1> DEFINE S == {a, b, c}
<1>1. /\ <<a, b>> \in Seq(S) /\ Len(<<a, b>>) = 2
      /\ <<a, b>>[1] = a /\ <<a, b>>[2] = b
  OBVIOUS
<1>2. <<c>> \in Seq(S) /\ Len(<<c>>) = 1 /\ <<c>>[1] = c
  OBVIOUS
<1>3. /\ <<a, b, c>> \in Seq(S) /\ Len(<<a, b, c>>) = 3
      /\ <<a, b, c>>[1] = a /\ <<a, b, c>>[2] = b /\ <<a, b, c>>[3] = c
  OBVIOUS
<1> DEFINE p == <<a, b>>
           q == <<c>>
           r == <<a, b, c>>
           s == p \o q
<1> HIDE DEF S, p, q, r
<1>4. /\ s \in Seq(S) /\ Len(s) = Len(p) + Len(q)
      /\ \A i \in 1..Len(s) : s[i] = IF i <= Len(p) THEN p[i] ELSE q[i - Len(p)]
  BY <1>1, <1>2, ConcatProperties DEF p, q
<1>5. \A i \in 1..Len(s) : s[i] = r[i]
  BY <1>1, <1>2, <1>3, <1>4 DEF p, q, r
<1>6. Len(s) = Len(r) /\ r \in Seq(S)
  BY <1>1, <1>2, <1>3, <1>4 DEF p, q, r
<1>7. s = r
  BY <1>4, <1>5, <1>6, SeqEqual
<1> QED
  BY <1>7 DEF p, q, r

(* The first call owed is begun as itself, or refused.                     *)
LEMMA RemoteStarts ==
  ASSUME ExecutionsAgree, TypeInv, bleDispatch_ProcessEvent
  PROVE  Remote!Start
<1>1. requests # <<>> /\ doing = <<>> /\ requests' = Tail(requests)
      /\ caller' = caller /\ inbox' = inbox
  BY DEF bleDispatch_ProcessEvent
<1>2. PICK e \in Executions :
        /\ e.call = Head(requests).call
        /\ doing' = << [from |-> Head(requests).from, call |-> Head(requests).call,
                        id |-> Head(requests).id,
                        did |-> e.did, status |-> e.status, len |-> e.len] >>
  BY DEF bleDispatch_ProcessEvent
<1>3. PICK t, f : t = Head(requests).from /\ f = Head(requests).call
  OBVIOUS
<1>4. PICK does : does = Deed(f, e.did)
  OBVIOUS
<1>5. e.did = Itself(f) \/ e.did = Refused
  BY <1>2, <1>3 DEF ExecutionsAgree
<1>6. does \in {f, "refused"}
  BY <1>4, <1>5, Zenon DEF Deed
<1>7. RemoteNow = <<>>
  BY <1>1 DEF RemoteNow
<1>8. RemoteNow' = << <<t, f, does>> >>
  <2>1. DOMAIN doing' = {1} /\ doing'[1].from = t /\ doing'[1].call = f /\ doing'[1].did = e.did
    BY <1>2, <1>3
  <2>2. RemoteNow' = [i \in {1} |-> <<t, f, does>>]
    BY <1>4, <2>1 DEF RemoteNow
  <2> QED
    BY <2>2
<1>9. /\ Pairs(requests) # <<>> /\ Head(Pairs(requests)) = <<t, f>>
      /\ Pairs(requests') = Tail(Pairs(requests))
  BY <1>1, <1>3, PairsTail, CallerFacts
<1>10. Head(Pairs(requests)) \o <<does>> = <<t, f, does>> /\ Head(Pairs(requests))[2] = f
  <2>1. \A p : p = <<t, f>> => p \o <<does>> = <<t, f>> \o <<does>> /\ p[2] = f
    OBVIOUS
  <2>2. <<t, f>> \o <<does>> = <<t, f, does>>
    BY PairAndOne
  <2> QED
    BY <1>9, <2>1, <2>2
<1>11. RemoteCalls' = RemoteCalls
  BY <1>1 DEF RemoteCalls
<1>12. RemoteAnswers' = RemoteAnswers
  BY <1>1, AnswersAreTold DEF RemoteAnswers
<1> QED
  BY <1>6, <1>7, <1>8, <1>9, <1>10, <1>11, <1>12
     DEF Remote!Start, Remote!Refusal, Pairs, RemoteNow, RemoteCalls, RemoteAnswers

(* The task that waits for what was done is told so, or nobody is.         *)
LEMMA RemoteFinishes ==
  ASSUME TypeInv, OwnInv, Finishes
  PROVE  Remote!Finish
<1>1. doing' = <<>> /\ caller' = caller /\ requests' = requests
  BY DEF Finishes, sendGapCmdStatus
<1>2. PICK d \in Deeds : doing = <<d>>
  BY DEF Finishes, TypeInv, DoingOK
<1>3. inbox' = inbox \/ inbox' = [inbox EXCEPT ![d.from] = Append(@, CmdStatus(d))]
  BY <1>2 DEF Finishes, sendGapCmdStatus
<1>4. d.from \in Tasks /\ 1 \in DOMAIN doing /\ doing[1] = d /\ d.call \in Calls
  BY <1>2 DEF Deeds
<1>5. PICK does : does = Deed(d.call, d.did)
  OBVIOUS
<1>6. RemoteNow # <<>> /\ RemoteNow' = <<>> /\ RemoteNow[1] = <<d.from, d.call, does>>
  BY <1>1, <1>2, <1>5 DEF RemoteNow
<1>7. PICK m \in Message : m = CmdStatus(d)
  BY StatusType
<1>8. m.id = d.id /\ m.did = d.did
  BY <1>7 DEF CmdStatus
<1>9. RemoteAnswers' \in {RemoteAnswers}
        \cup (IF RemoteCalls[d.from] = d.call
              THEN { [RemoteAnswers EXCEPT ![d.from] = does] } ELSE {})
  <2>1. CASE inbox' = inbox
    BY <1>1, <2>1, AnswersAreTold DEF RemoteAnswers
  <2>2. CASE inbox' = [inbox EXCEPT ![d.from] = Append(@, CmdStatus(d))]
    <3>1. /\ inbox'[d.from] = Append(inbox[d.from], m)
          /\ \A u \in Tasks : u # d.from => inbox'[u] = inbox[u]
      BY <1>4, <1>7, <2>2, CallerFacts
    <3>2. \A u \in Tasks : u # d.from => Answer(u)' = Answer(u)
      BY <1>1, <3>1, AnswersAreTold
    <3>3. inbox[d.from] \in Seq(Message) /\ Len(inbox[d.from]) \in Nat
      BY <1>4, CallerFacts, LenProperties
    <3>4. CASE d.id = 0
      <4>1. m.id = 0 /\ inbox[d.from] \in Seq(Message)
        BY <1>8, <3>3, <3>4
      <4>2. Told(Append(inbox[d.from], m), caller[d.from]) = Told(inbox[d.from], caller[d.from])
        BY <4>1, ToldAsBefore
      <4>3. Answer(d.from)' = Answer(d.from)
        BY <1>1, <1>4, <3>1, <4>2, AnswersAreTold
      <4> QED
        BY <3>2, <4>3 DEF RemoteAnswers
    <3>5. CASE d.id # 0
      <4>1. caller[d.from] = [call |-> d.call, id |-> d.id]
        BY <1>4, <3>5 DEF OwnInv, DoingOwned, InCall
      <4>2. caller[d.from].call = d.call /\ caller[d.from].id = d.id
        BY <4>1
      <4>3. ~Answered(d.from)
        <5>1. Served(d.from)
          BY <1>4, <3>5 DEF Served
        <5> QED
          BY <1>4, <5>1 DEF OwnInv, OneOfEach
      <4>4. \A i \in DOMAIN inbox[d.from] : inbox[d.from][i].id = 0
        BY <4>3 DEF Answered
      <4>5. PICK q : q = Append(inbox[d.from], m)
        OBVIOUS
      <4>6. /\ DOMAIN inbox[d.from] = 1..Len(inbox[d.from])
            /\ DOMAIN q = 1..Len(inbox[d.from]) + 1
            /\ q[Len(inbox[d.from]) + 1] = m
            /\ \A i \in 1..Len(inbox[d.from]) : q[i] = inbox[d.from][i]
        BY <3>3, <4>5, AppendProperties, LenProperties
      <4>7. PICK k \in DOMAIN q : k = Len(inbox[d.from]) + 1
        BY <3>3, <4>6
      <4>8. \A i \in DOMAIN q : q[i].id # 0 => i = k
        BY <3>3, <4>4, <4>6, <4>7
      <4>9. q[k] = m /\ q[k].id # 0 /\ q[k].id = caller[d.from].id
        BY <1>8, <3>5, <4>2, <4>6, <4>7
      <4>10. Told(q, caller[d.from]) = Deed(caller[d.from].call, q[k].did)
        BY <4>8, <4>9, ToldOne
      <4>11. Answer(d.from)' = does
        BY <1>1, <1>4, <1>5, <1>8, <3>1, <4>2, <4>5, <4>9, <4>10, AnswersAreTold
      <4>12. RemoteAnswers' = [RemoteAnswers EXCEPT ![d.from] = does]
        BY <1>4, <3>2, <4>11 DEF RemoteAnswers
      <4>13. RemoteCalls[d.from] = d.call
        BY <1>4, <4>2 DEF RemoteCalls
      <4> QED
        BY <4>12, <4>13
    <3> QED
      BY <3>4, <3>5
  <2> QED
    BY <1>3, <2>1, <2>2
<1>10. Pairs(requests') = Pairs(requests) /\ RemoteCalls' = RemoteCalls
  BY <1>1 DEF RemoteCalls
<1>11. /\ RemoteNow # <<>> /\ RemoteNow' = <<>>
       /\ LET t == RemoteNow[1][1]
          IN RemoteAnswers' \in {RemoteAnswers}
               \cup (IF RemoteCalls[t] = RemoteNow[1][2]
                     THEN { [RemoteAnswers EXCEPT ![t] = RemoteNow[1][3]] } ELSE {})
  BY <1>6, <1>9
<1> QED
  BY <1>10, <1>11 DEF Remote!Finish, Pairs, RemoteNow, RemoteCalls, RemoteAnswers

(* A task goes on with what was done for its call.                         *)
LEMMA RemoteReturns ==
  ASSUME TablesAgree, TypeInv, OwnInv, NEW t \in Tasks, waitMatchCS(t)
  PROVE  Remote!Return(t)
<1>1. PICK i \in Accepted(t) : inbox' = [inbox EXCEPT ![t] = Without(@, i)]
  BY DEF waitMatchCS
<1>2. caller[t] # Idle /\ caller' = [caller EXCEPT ![t] = Idle]
      /\ requests' = requests /\ doing' = doing
  BY DEF waitMatchCS
<1>3. caller'[t] = Idle /\ \A u \in Tasks : u # t => caller'[u] = caller[u]
  BY <1>2, CallerFacts
<1>4. \A u \in Tasks : u # t => inbox'[u] = inbox[u]
  BY <1>1, CallerFacts
<1>5. /\ i \in DOMAIN inbox[t] /\ inbox[t][i].id # 0
      /\ inbox[t][i].id = caller[t].id
  BY <1>1, <1>2, AcceptedIsAnswer DEF Accepted, IsAnswerOf
<1>6. \A j \in DOMAIN inbox[t] : inbox[t][j].id # 0 => j = i
  BY <1>5 DEF OwnInv, OneOfEach, OneAnswer
<1>7. caller[t].call \in Calls
  BY <1>2 DEF OwnInv, CallsWait
<1>8. Told(inbox[t], caller[t]) = Deed(caller[t].call, inbox[t][i].did)
  BY <1>5, <1>6, ToldOne
<1>9. Answer(t) # "none" /\ caller[t].call # "none"
  BY <1>7, <1>8, AnswersAreTold, DeedIsSomething
<1>10. Answer(t)' = "none"
  BY <1>3, AnswersAreTold, IdleIsToldNothing
<1>11. \A u \in Tasks : u # t => Answer(u)' = Answer(u)
  BY <1>3, <1>4, AnswersAreTold
<1>12. /\ RemoteAnswers[t] # "none" /\ RemoteCalls[t] # "none"
       /\ RemoteAnswers' = [RemoteAnswers EXCEPT ![t] = "none"]
       /\ RemoteCalls' = [RemoteCalls EXCEPT ![t] = "none"]
  BY <1>3, <1>9, <1>10, <1>11, IdleIsNone DEF RemoteAnswers, RemoteCalls
<1>13. Pairs(requests') = Pairs(requests) /\ RemoteNow' = RemoteNow
  BY <1>2 DEF RemoteNow
<1> QED
  BY <1>12, <1>13 DEF Remote!Return, Pairs, RemoteNow, RemoteCalls, RemoteAnswers

(* Messages that are nobody's answer change nothing of what callers see.   *)
LEMMA RemoteStays ==
  ASSUME TypeInv, OwnInv, Fetches \/ StackEvent \/ UNCHANGED vars
  PROVE  UNCHANGED RemoteVars
<1>1. caller' = caller /\ requests' = requests /\ doing' = doing
  BY DEF Fetches, StackEvent, vars
<1>2. "app" \in Tasks
  BY DEF Tasks
<1>3. \A u \in Tasks : Answer(u)' = Answer(u)
  <2>1. CASE Fetches
    <3>1. caller["app"] = Idle /\ inbox' = [inbox EXCEPT !["app"] = Tail(@)]
      BY <2>1 DEF Fetches
    <3>2. \A u \in Tasks : u # "app" => inbox'[u] = inbox[u]
      BY <3>1, CallerFacts
    <3>3. Answer("app") = "none" /\ Answer("app")' = "none"
      BY <1>1, <1>2, <3>1, AnswersAreTold, IdleIsToldNothing
    <3> QED
      BY <1>1, <3>2, <3>3, AnswersAreTold
  <2>2. CASE StackEvent
    <3>1. inbox' = [inbox EXCEPT !["app"] = Append(@, Event)]
      BY <2>2 DEF StackEvent
    <3>2. Event \in Message /\ Event.id = 0
      BY DEF Event, Message, StatusOps, Dids, Lens
    <3>3. /\ inbox'["app"] = Append(inbox["app"], Event)
          /\ \A u \in Tasks : u # "app" => inbox'[u] = inbox[u]
      BY <1>2, <3>1, CallerFacts
    <3>4. inbox["app"] \in Seq(Message)
      BY <1>2, CallerFacts
    <3> HIDE DEF Event
    <3>5. Told(Append(inbox["app"], Event), caller["app"]) = Told(inbox["app"], caller["app"])
      BY <3>2, <3>4, ToldAsBefore
    <3>6. Answer("app")' = Answer("app")
      BY <1>1, <1>2, <3>3, <3>5, AnswersAreTold
    <3> QED
      BY <1>1, <3>3, <3>6, AnswersAreTold
  <2>3. CASE UNCHANGED vars
    BY <1>1, <2>3, AnswersAreTold DEF vars
  <2> QED
    BY <2>1, <2>2, <2>3
<1> QED
  BY <1>1, <1>3 DEF RemoteVars, RemoteNow, RemoteCalls, RemoteAnswers

(* Every step is a step of RemoteCall, or changes nothing of it.           *)
LEMMA RemoteStep ==
  ASSUME TablesAgree, ExecutionsAgree, TypeInv, OwnInv, [Next]_vars
  PROVE  [Remote!Next]_RemoteVars
<1>1. CASE \E t \in Tasks, f \in Calls : f \in CallsOf[t] /\ Calling(t, f)
  BY <1>1, RemoteAsks DEF Remote!Next
<1>2. CASE \E t \in Tasks : waitMatchCS(t)
  BY <1>2, RemoteReturns DEF Remote!Next
<1>3. CASE bleDispatch_ProcessEvent
  BY <1>3, RemoteStarts DEF Remote!Next
<1>4. CASE Finishes
  BY <1>4, RemoteFinishes DEF Remote!Next
<1>5. CASE Fetches \/ StackEvent \/ UNCHANGED vars
  BY <1>5, RemoteStays
<1>6. \A t \in Tasks : \A f \in CallsOf[t] : f \in Calls
  BY CallsOfTask
<1> QED
  BY <1>1, <1>2, <1>3, <1>4, <1>5, <1>6 DEF Next

(* Nobody has called anything yet.                                         *)
LEMMA RemoteInit == Init => Remote!Init
<1> SUFFICES ASSUME Init PROVE Remote!Init
  OBVIOUS
<1>1. /\ caller = [t \in Tasks |-> Idle] /\ requests = <<>> /\ doing = <<>>
      /\ inbox = [t \in Tasks |-> <<>>]
  BY DEF Init
<1>2. Pairs(requests) = <<>> /\ RemoteNow = <<>>
  BY <1>1 DEF Pairs, RemoteNow
<1>3. RemoteCalls = [t \in Tasks |-> "none"]
  BY <1>1, IdleIsNone DEF RemoteCalls
<1>4. \A t \in Tasks : Answer(t) = "none"
  BY <1>1, AnswersAreTold, IdleIsToldNothing
<1>5. RemoteAnswers = [t \in Tasks |-> "none"]
  BY <1>4 DEF RemoteAnswers
<1> QED
  BY <1>2, <1>3, <1>5 DEF Remote!Init, Pairs, RemoteNow, RemoteCalls, RemoteAnswers

(* Calls of the stack are executed as if they were local ones, whatever    *)
(* functions the tasks call, in whatever builds, provided the dispatcher   *)
(* executes each as itself or not at all (ICallBleAPI.c:604).              *)
THEOREM ImplementsRemoteCall ==
  ASSUME TablesAgree, ExecutionsAgree
  PROVE  Spec => IsRemoteCall
<1>1. TypeInv /\ OwnInv /\ [Next]_vars => [Remote!Next]_RemoteVars
  BY RemoteStep
<1>2. TypeInv /\ OwnInv /\ [Next]_vars => [Remote!Next]_Remote!vars
  BY <1>1 DEF RemoteVars, Remote!vars, Pairs, RemoteNow, RemoteCalls, RemoteAnswers
<1> QED
  BY <1>2, RemoteInit, OwnInvariant, PTL DEF Spec, IsRemoteCall, Remote!Spec

----------------------------------------------------------------------------
(* The commands of a host on the serial port.                              *)
Record == [payload : Blocks, valued : BOOLEAN]
Service == [attrs : Blocks \cup {0}, recs : Seq(Blocks \cup {0}), total : Nat]

HeapOK == live \in SUBSET Blocks /\ stack \in SUBSET Blocks /\ tokens \in SUBSET Blocks
WritesOK ==
  /\ pPrepareWrites \in Blocks \cup {0} /\ prepared \in Seq(Record)
  /\ promised \in Seq(Blocks) /\ valueless \in SUBSET Blocks
  /\ pPrepareWrites = 0 => prepared = <<>> /\ promised = <<>>
ServicesOK ==
  /\ service \in Service /\ (service.attrs = 0 => service = NoService)
  /\ registered \in SUBSET Service /\ \A s \in registered : s.attrs # 0
  /\ agreed \in [got : Nat, total : Nat]

ExtTypeInv == HeapOK /\ WritesOK /\ ServicesOK

(* A service the host knows it is building is not complete.                *)
BuiltInv ==
  agreed # NotAgreed =>
    /\ service.attrs # 0 /\ Len(service.recs) = agreed.got
    /\ service.total = agreed.total /\ agreed.got < agreed.total

AnsweredInv == PreparedAsAnswered /\ BuiltInv

(* What an allocation returns was free.                                    *)
LEMMA NewIsFree ==
  ASSUME NEW used, NEW p \in Allocated(used)
  PROVE  p = 0 \/ (p \in Blocks /\ p \notin used)
BY DEF Allocated

(* No block is at address 0.                                               *)
LEMMA BlocksArePositive == 0 \notin Blocks
BY ExtMsgAssumption

(* The blocks of a service.                                                *)
LEMMA BlocksOfType ==
  ASSUME NEW s \in Service
  PROVE  BlocksOf(s) \subseteq Blocks
<1>1. s.attrs \in Blocks \cup {0} /\ s.recs \in Seq(Blocks \cup {0})
  BY DEF Service
<1>2. \A i \in DOMAIN s.recs : s.recs[i] \in Blocks \cup {0}
  BY <1>1
<1> QED
  BY <1>1, <1>2 DEF BlocksOf, Pointed

(* No service has no blocks.                                               *)
LEMMA NoServiceBlocks == BlocksOf(NoService) = {} /\ NoService \in Service
<1>1. DOMAIN <<>> = {} /\ <<>> \in Seq(Blocks \cup {0})
  OBVIOUS
<1>2. Pointed(<<>>) = {}
  BY <1>1 DEF Pointed
<1> QED
  BY <1>1, <1>2 DEF BlocksOf, NoService, Service

(* A new service has the block of its array.                               *)
LEMMA EmptyServiceBlocks ==
  ASSUME NEW a \in Blocks, NEW n \in Nat
  PROVE  LET s == [attrs |-> a, recs |-> <<>>, total |-> n]
         IN  BlocksOf(s) = {a} /\ s \in Service
<1> DEFINE s == [attrs |-> a, recs |-> <<>>, total |-> n]
<1>1. DOMAIN <<>> = {} /\ <<>> \in Seq(Blocks \cup {0})
  OBVIOUS
<1>2. Pointed(<<>>) = {}
  BY <1>1 DEF Pointed
<1>3. s.recs = <<>> /\ s.attrs = a
  OBVIOUS
<1>4. a # 0
  BY BlocksArePositive
<1>5. BlocksOf(s) = {a}
  BY <1>2, <1>3, <1>4 DEF BlocksOf
<1>6. s \in Service
  BY <1>1 DEF Service
<1> QED
  BY <1>5, <1>6

(* A service with one record more.                                         *)
More(s, u) == [s EXCEPT !.recs = Append(@, u)]

(* One record more is at most one block more.                              *)
LEMMA MoreFacts ==
  ASSUME NEW s \in Service, NEW u \in Blocks \cup {0}
  PROVE  /\ More(s, u) \in Service
         /\ More(s, u).attrs = s.attrs /\ More(s, u).total = s.total
         /\ Len(More(s, u).recs) = Len(s.recs) + 1
         /\ BlocksOf(More(s, u)) = BlocksOf(s) \cup ({u} \ {0})
<1> DEFINE r == s.recs
           q == Append(s.recs, u)
<1>1. /\ r \in Seq(Blocks \cup {0}) /\ s.attrs \in Blocks \cup {0} /\ s.total \in Nat
      /\ s = [attrs |-> s.attrs, recs |-> s.recs, total |-> s.total]
  BY DEF Service
<1>2. More(s, u) = [attrs |-> s.attrs, recs |-> q, total |-> s.total]
  <2>1. ASSUME NEW x PROVE [s EXCEPT !.recs = x] = [attrs |-> s.attrs, recs |-> x, total |-> s.total]
    BY DEF Service
  <2> QED
    BY <2>1, Zenon DEF More
<1> HIDE DEF r
<1>3. /\ q \in Seq(Blocks \cup {0}) /\ Len(q) = Len(s.recs) + 1
      /\ \A i \in 1..Len(s.recs) : q[i] = s.recs[i]
      /\ q[Len(s.recs) + 1] = u
  BY <1>1 DEF r
<1>4. DOMAIN s.recs = 1..Len(s.recs) /\ DOMAIN q = 1..Len(q) /\ Len(s.recs) \in Nat
  BY <1>1, <1>3 DEF r
<1> HIDE DEF q
<1>5. Pointed(q) = Pointed(s.recs) \cup ({u} \ {0})
  BY <1>3, <1>4 DEF Pointed
<1>6. BlocksOf(More(s, u)) = BlocksOf(s) \cup ({u} \ {0})
  BY <1>2, <1>5 DEF BlocksOf
<1>7. More(s, u) \in Service
  BY <1>1, <1>2, <1>3 DEF Service
<1> QED
  BY <1>2, <1>3, <1>6, <1>7

(* How an attempt to add a record may end.                                 *)
LEMMA AddWays ==
  ASSUME NEW s, NEW known, NEW used, NEW o \in addAttrRec(s, known, used)
  PROVE  \E u \in Blocks \cup {0} :
           /\ u = 0 \/ u \notin used
           /\ o.uuid = {u} \ {0}
           /\ \/ o.stat = "INVALIDPARAMETER" /\ o.serv = s /\ o.made = {} /\ u = 0 /\ ~known
              \/ /\ Len(More(s, u).recs) = s.total
                 /\ o.stat \in Results /\ o.serv = NoService /\ o.made = {More(s, u)}
              \/ /\ Len(More(s, u).recs) # s.total
                 /\ o.stat = "SUCCESS" /\ o.serv = More(s, u) /\ o.made = {}
<1> DEFINE way(u) == [stat |-> "SUCCESS", serv |-> More(s, u), made |-> {}, uuid |-> {u} \ {0}]
           Ways(g) ==
             IF ~g.found
             THEN { [way(g.uuid) EXCEPT !.stat = "INVALIDPARAMETER", !.serv = s] }
             ELSE IF Len(More(s, g.uuid).recs) = s.total
             THEN { [way(g.uuid) EXCEPT !.stat = r, !.serv = NoService,
                                        !.made = {More(s, g.uuid)}] : r \in Results }
             ELSE { way(g.uuid) }
<1>1. addAttrRec(s, known, used) = UNION { Ways(g) : g \in findUUIDRec(known, used) }
  BY Zenon DEF addAttrRec, More
<1> HIDE DEF Ways
<1>2. PICK f \in findUUIDRec(known, used) : o \in Ways(f)
  BY <1>1
<1>3. /\ f.uuid \in Blocks \cup {0} /\ (f.uuid = 0 \/ f.uuid \notin used)
      /\ ~f.found => ~known /\ f.uuid = 0
  <2>1. CASE known
    BY <2>1 DEF findUUIDRec
  <2>2. CASE ~known
    <3>1. PICK b \in Allocated(used) : f = [found |-> b # 0, uuid |-> b]
      BY <2>2 DEF findUUIDRec
    <3> QED
      BY <2>2, <3>1, NewIsFree
  <2> QED
    BY <2>1, <2>2
<1>4. CASE ~f.found
  <2>1. o = [way(f.uuid) EXCEPT !.stat = "INVALIDPARAMETER", !.serv = s]
    BY <1>2, <1>4, Zenon DEF Ways
  <2>2. /\ o.stat = "INVALIDPARAMETER" /\ o.serv = s /\ o.made = {}
        /\ o.uuid = {f.uuid} \ {0}
    BY <2>1
  <2> QED
    BY <1>3, <1>4, <2>2
<1>5. CASE f.found /\ Len(More(s, f.uuid).recs) = s.total
  <2>1. PICK r \in Results : o = [way(f.uuid) EXCEPT !.stat = r, !.serv = NoService,
                                           !.made = {More(s, f.uuid)}]
    BY <1>2, <1>5, Zenon DEF Ways
  <2>2. /\ o.stat = r /\ o.serv = NoService /\ o.made = {More(s, f.uuid)}
        /\ o.uuid = {f.uuid} \ {0}
    BY <2>1
  <2> QED
    BY <1>3, <1>5, <2>2
<1>6. CASE f.found /\ Len(More(s, f.uuid).recs) # s.total
  <2>1. o = way(f.uuid)
    BY <1>2, <1>6, Zenon DEF Ways
  <2> QED
    BY <1>3, <1>6, <2>1
<1> QED
  BY <1>4, <1>5, <1>6

(* A payload that waits to be written has its value, or is lost.           *)
LostInv ==
  \A i \in DOMAIN prepared : prepared[i].valued \/ prepared[i].payload \in valueless

(* Who owns which blocks.                                                  *)
Owners == OneOwner /\ ServicesApart /\ PreparedApart

(* The invariant as long as nobody has freed what was not its own.         *)
ExtInv == ExtTypeInv /\ Owners /\ LostInv /\ AnsweredInv

(* At first nothing is allocated.                                          *)
LEMMA ExtInvInit == ExtInit => ExtInv
<1> SUFFICES ASSUME ExtInit PROVE ExtInv
  OBVIOUS
<1> USE DEF ExtInit
<1>1. ExtTypeInv
  <2>1. <<>> \in Seq(Record) /\ <<>> \in Seq(Blocks)
    OBVIOUS
  <2>2. agreed \in [got : Nat, total : Nat]
    BY DEF NotAgreed
  <2> QED
    BY <2>1, <2>2, NoServiceBlocks DEF ExtTypeInv, HeapOK, WritesOK, ServicesOK
<1>2. Owners
  <2>1. DOMAIN prepared = {}
    OBVIOUS
  <2>2. Values(prepared) = {} /\ Array = {}
    BY <2>1 DEF Values, Array
  <2>3. Kept = {} /\ BlocksOf(service) = {}
    BY NoServiceBlocks DEF Kept, BlocksOfAll
  <2> QED
    BY <2>1, <2>2, <2>3
       DEF Owners, OneOwner, ServicesApart, PreparedApart, Statics, Apart
<1>3. AnsweredInv
  <2>1. [i \in DOMAIN <<>> |-> <<>>[i].payload] = <<>>
    OBVIOUS
  <2> QED
    BY <2>1 DEF AnsweredInv, PreparedAsAnswered, BuiltInv
<1>4. LostInv
  <2>1. DOMAIN prepared = {}
    OBVIOUS
  <2> QED
    BY <2>1 DEF LostInv
<1> QED
  BY <1>1, <1>2, <1>3, <1>4 DEF ExtInv

----------------------------------------------------------------------------
(* Commands that leave the writes, services and tokens alone.              *)
LEMMA HeapStep ==
  ASSUME ExtInv, UNCHANGED <<writes, services, tokens>>,
         live' \in SUBSET Blocks, stack' \in SUBSET Blocks,
         live' = stack' \cup Kept \cup Statics \cup valueless,
         Apart(stack', Kept \cup Statics \cup valueless)
  PROVE  ExtInv'
<1>1. /\ UNCHANGED <<pPrepareWrites, prepared, promised, valueless>>
      /\ UNCHANGED <<service, registered, agreed, tokens>>
  BY DEF writes, services
<1>2. ExtTypeInv'
  BY <1>1 DEF ExtInv, ExtTypeInv, HeapOK, WritesOK, ServicesOK
<1>3. Kept' = Kept /\ Statics' = Statics /\ Array' = Array
  BY <1>1 DEF Kept, Statics, Array
<1>4. OneOwner'
  BY <1>1, <1>3 DEF ExtInv, Owners, OneOwner, Apart
<1>5. ServicesApart' /\ PreparedApart'
  BY <1>1, <1>3 DEF ExtInv, Owners, ServicesApart, PreparedApart
<1>6. AnsweredInv' /\ LostInv'
  BY <1>1 DEF ExtInv, AnsweredInv, PreparedAsAnswered, BuiltInv, LostInv
<1> QED
  BY <1>2, <1>4, <1>5, <1>6 DEF ExtInv, Owners

(* A block nobody had is nobody's.                                         *)
LEMMA FreeIsApart ==
  ASSUME ExtInv, NEW p, p \notin live
  PROVE  p \notin stack /\ p \notin Kept \cup Statics \cup valueless
BY DEF ExtInv, Owners, OneOwner

(* Who frees only what is allocated, and leaves every block to its owner,  *)
(* has not freed what is another's.                                        *)
LEMMA FreesIsClean ==
  ASSUME NEW what, NEW had, NEW freed, Frees(what, had, freed), freed \subseteq had, Owners'
  PROVE  misfreed' = misfreed
<1>1. live' = had \ freed
  BY DEF Frees
<1>2. (stack \cup Kept \cup Statics)' \subseteq live'
  BY DEF Owners, OneOwner
<1>3. freed \cap (stack \cup Kept \cup Statics)' = {}
  BY <1>1, <1>2
<1> QED
  BY <1>3 DEF Frees

(* Commands without memory.                                                *)
LEMMA SimpleStep ==
  ASSUME ExtInv, UNCHANGED <<heap, writes, services, tokens>>
  PROVE  ExtInv' /\ misfreed' = misfreed
<1>1. live' = live /\ stack' = stack /\ misfreed' = misfreed
  BY DEF heap
<1>2. /\ live \in SUBSET Blocks /\ stack \in SUBSET Blocks
      /\ live = stack \cup Kept \cup Statics \cup valueless
      /\ Apart(stack, Kept \cup Statics \cup valueless)
  BY DEF ExtInv, ExtTypeInv, HeapOK, Owners, OneOwner
<1> QED
  BY <1>1, <1>2, HeapStep

(* Commands with a payload: it is the stack's, or free again.              *)
LEMMA SendsStep ==
  ASSUME ExtInv, NEW kind, Sends(kind)
  PROVE  ExtInv' /\ misfreed' = misfreed
<1>1. PICK p \in New, valued \in {kind # "value", TRUE},
             stat \in GattResults \cup {"bleInvalidPDU"} :
        /\ p = 0 /\ kind # "optional" => stat = "bleInvalidPDU"
        /\ stack' = stack \cup (IF stat = "SUCCESS" /\ valued THEN {p} \ {0} ELSE {})
        /\ Frees(kind, live \cup ({p} \ {0}),
                 IF SafeToDealloc(kind, stat, valued) THEN {p} \ {0} ELSE {})
  BY DEF Sends
<1>2. valued \in BOOLEAN
  OBVIOUS
<1>3. SafeToDealloc(kind, stat, valued) <=> ~(stat = "SUCCESS" /\ valued)
  BY <1>1, <1>2, Zenon DEF SafeToDealloc
<1>4. PICK freed : freed = IF SafeToDealloc(kind, stat, valued) THEN {p} \ {0} ELSE {}
  OBVIOUS
<1>5. Frees(kind, live \cup ({p} \ {0}), freed) /\ live' = (live \cup ({p} \ {0})) \ freed
  BY <1>1, <1>4 DEF Frees
<1>6. p = 0 \/ (p \in Blocks /\ p \notin live)
  BY NewIsFree DEF New
<1>7. /\ live \in SUBSET Blocks /\ stack \in SUBSET Blocks
      /\ live = stack \cup Kept \cup Statics \cup valueless
      /\ Apart(stack, Kept \cup Statics \cup valueless)
  BY DEF ExtInv, ExtTypeInv, HeapOK, Owners, OneOwner
<1>8. UNCHANGED <<writes, services, tokens>>
  BY DEF Sends
<1>9. CASE p # 0 /\ stat = "SUCCESS" /\ valued
  <2>1. live' = live \cup {p} /\ stack' = stack \cup {p}
    BY <1>1, <1>3, <1>4, <1>5, <1>9
  <2>2. p \in Blocks /\ p \notin Kept \cup Statics \cup valueless
    BY <1>6, <1>9, FreeIsApart
  <2>3. /\ live' = stack' \cup Kept \cup Statics \cup valueless
        /\ Apart(stack', Kept \cup Statics \cup valueless)
    BY <1>7, <2>1, <2>2 DEF Apart
  <2>4. ExtInv'
    BY <1>7, <1>8, <2>1, <2>2, <2>3, HeapStep
  <2>5. freed = {}
    BY <1>3, <1>4, <1>9
  <2> QED
    BY <1>5, <2>4, <2>5, FreesIsClean DEF ExtInv
<1>10. CASE p = 0 \/ ~(stat = "SUCCESS" /\ valued)
  <2>1. freed \subseteq {p} \ {0} /\ {p} \ {0} \subseteq freed /\ stack' = stack
    BY <1>1, <1>3, <1>4, <1>10
  <2>2. live' = live
    BY <1>5, <1>6, <2>1
  <2>3. ExtInv'
    BY <1>7, <1>8, <2>1, <2>2, HeapStep
  <2>4. freed \subseteq live \cup ({p} \ {0})
    BY <2>1
  <2> QED
    BY <1>5, <2>3, <2>4, FreesIsClean DEF ExtInv
<1> QED
  BY <1>9, <1>10

(* Who misfrees is one of these.                                           *)
Misfreed == misfreed \in {"GATT_RELIABLE_WRITES", "L2CAP_DATA"}

LEMMA MisfreesIs ==
  ASSUME misfreed = "none", NEW what \in {"GATT_RELIABLE_WRITES", "L2CAP_DATA"},
         Misfrees(what)
  PROVE  Misfreed'
BY DEF Misfrees, Misfreed

(* Data of L2CAP: the block is the stack's, or misfreed.                   *)
LEMMA L2capDataStep ==
  ASSUME ExtInv, misfreed = "none", L2CAP_DATA
  PROVE  (ExtInv' /\ misfreed' = misfreed) \/ Misfreed'
<1>1. UNCHANGED <<writes, services, tokens>>
  BY DEF L2CAP_DATA
<1>2. CASE UNCHANGED heap
  BY <1>1, <1>2, SimpleStep
<1>3. CASE \E p \in New \ {0} :
             live' = live \cup {p} /\ stack' = stack \cup {p} /\ misfreed' = misfreed
  <2>1. PICK p \in New \ {0} : live' = live \cup {p} /\ stack' = stack \cup {p}
    BY <1>3
  <2>2. p \in Blocks /\ p \notin live
    BY NewIsFree DEF New
  <2>3. p \notin Kept \cup Statics \cup valueless
    BY <2>2, FreeIsApart
  <2>4. /\ live \in SUBSET Blocks /\ stack \in SUBSET Blocks
        /\ live = stack \cup Kept \cup Statics \cup valueless
        /\ Apart(stack, Kept \cup Statics \cup valueless)
    BY DEF ExtInv, ExtTypeInv, HeapOK, Owners, OneOwner
  <2>5. /\ live' = stack' \cup Kept \cup Statics \cup valueless
        /\ Apart(stack', Kept \cup Statics \cup valueless)
    BY <2>1, <2>3, <2>4 DEF Apart
  <2>6. ExtInv'
    BY <1>1, <2>1, <2>2, <2>4, <2>5, HeapStep
  <2> QED
    BY <1>3, <2>6
<1>4. CASE Misfrees("L2CAP_DATA")
  BY <1>4, MisfreesIs
<1> QED
  BY <1>2, <1>3, <1>4 DEF L2CAP_DATA

(* Several writes: the blocks are the stack's, if the last is not freed as *)
(* well because there is none; or nothing has changed.                     *)
LEMMA ReliableWritesStep ==
  ASSUME ExtInv, misfreed = "none", GATT_RELIABLE_WRITES
  PROVE  (ExtInv' /\ misfreed' = misfreed) \/ Misfreed'
<1>1. UNCHANGED <<writes, services, tokens>>
  BY DEF GATT_RELIABLE_WRITES
<1>2. CASE UNCHANGED heap
  BY <1>1, <1>2, SimpleStep
<1>3. CASE \E a \in New \ {0}, n \in 0..GATT_MAX_NUM_RELIABLE_WRITES :
           \E ps \in Payloads(live \cup {a}, n) : \E last \in SUBSET ps :
             /\ stack' = stack \cup ps \cup {a}
             /\ Frees("GATT_RELIABLE_WRITES", live \cup ps \cup {a}, last)
  <2>1. PICK a \in New \ {0}, n \in 0..GATT_MAX_NUM_RELIABLE_WRITES :
             \E ps \in Payloads(live \cup {a}, n) : \E last \in SUBSET ps :
             /\ stack' = stack \cup ps \cup {a}
             /\ Frees("GATT_RELIABLE_WRITES", live \cup ps \cup {a}, last)
    BY <1>3
  <2>2. PICK ps \in Payloads(live \cup {a}, n) : \E last \in SUBSET ps :
             /\ stack' = stack \cup ps \cup {a}
             /\ Frees("GATT_RELIABLE_WRITES", live \cup ps \cup {a}, last)
    BY <2>1
  <2>3. PICK last \in SUBSET ps :
             /\ stack' = stack \cup ps \cup {a}
             /\ Frees("GATT_RELIABLE_WRITES", live \cup ps \cup {a}, last)
    BY <2>2
  <2>4. a \in Blocks /\ a \notin live
    BY NewIsFree DEF New
  <2>5. ps \subseteq Blocks /\ ps \cap live = {}
    BY DEF Payloads
  <2>6. live' = (live \cup ps \cup {a}) \ last
    BY <2>3 DEF Frees
  <2>7. CASE last = {}
    <3>1. a \notin Kept \cup Statics \cup valueless
          /\ \A b \in ps : b \notin Kept \cup Statics \cup valueless
      BY <2>4, <2>5, FreeIsApart
    <3>2. /\ live \in SUBSET Blocks /\ stack \in SUBSET Blocks
          /\ live = stack \cup Kept \cup Statics \cup valueless
          /\ Apart(stack, Kept \cup Statics \cup valueless)
      BY DEF ExtInv, ExtTypeInv, HeapOK, Owners, OneOwner
    <3>3. live' = live \cup ps \cup {a}
      BY <2>6, <2>7
    <3>4. /\ live' = stack' \cup Kept \cup Statics \cup valueless
          /\ Apart(stack', Kept \cup Statics \cup valueless)
          /\ live' \in SUBSET Blocks /\ stack' \in SUBSET Blocks
      BY <2>3, <2>4, <2>5, <3>1, <3>2, <3>3 DEF Apart
    <3>5. ExtInv'
      BY <1>1, <3>4, HeapStep
    <3> QED
      BY <2>3, <2>7, <3>5, FreesIsClean DEF ExtInv
  <2>8. CASE last # {}
    <3>1. last \cap stack' # {}
      BY <2>3, <2>8
    <3>2. ~(last \cap (stack \cup Kept \cup Statics)' = {})
      BY <3>1
    <3>3. Misfrees("GATT_RELIABLE_WRITES")
      BY <2>3, <3>2 DEF Frees
    <3> QED
      BY <3>3, MisfreesIs
  <2> QED
    BY <2>7, <2>8
<1>4. CASE UNCHANGED <<live, stack>> /\ (UNCHANGED misfreed \/ Misfrees("GATT_RELIABLE_WRITES"))
  BY <1>1, <1>4, SimpleStep, MisfreesIs DEF heap
<1>5. UNCHANGED heap \/
      \E a \in New \ {0}, n \in 0..GATT_MAX_NUM_RELIABLE_WRITES :
      \E ps \in Payloads(live \cup {a}, n) :
        LET last == { b \in ps : Cardinality(ps) = n /\ \A c \in ps : c <= b }
        IN \/ /\ stack' = stack \cup (ps \cup {a})
              /\ Frees("GATT_RELIABLE_WRITES", live \cup (ps \cup {a}), last)
           \/ /\ UNCHANGED <<live, stack>>
              /\ IF last = {} THEN UNCHANGED misfreed ELSE Misfrees("GATT_RELIABLE_WRITES")
  BY DEF GATT_RELIABLE_WRITES
<1> QED
  <2>1. CASE UNCHANGED heap
    BY <1>2, <2>1
  <2>2. CASE ~ UNCHANGED heap
    <3>1. PICK a \in New \ {0}, n \in 0..GATT_MAX_NUM_RELIABLE_WRITES :
          \E ps \in Payloads(live \cup {a}, n) : \E last \in SUBSET ps :
          \/ /\ stack' = stack \cup (ps \cup {a})
             /\ Frees("GATT_RELIABLE_WRITES", live \cup (ps \cup {a}), last)
          \/ /\ UNCHANGED <<live, stack>>
             /\ IF last = {} THEN UNCHANGED misfreed ELSE Misfrees("GATT_RELIABLE_WRITES")
      BY <1>5, <2>2
    <3>2. PICK ps \in Payloads(live \cup {a}, n) : \E last \in SUBSET ps :
          \/ /\ stack' = stack \cup (ps \cup {a})
             /\ Frees("GATT_RELIABLE_WRITES", live \cup (ps \cup {a}), last)
          \/ /\ UNCHANGED <<live, stack>>
             /\ IF last = {} THEN UNCHANGED misfreed ELSE Misfrees("GATT_RELIABLE_WRITES")
      BY <3>1
    <3>3. PICK last \in SUBSET ps :
          \/ /\ stack' = stack \cup (ps \cup {a})
             /\ Frees("GATT_RELIABLE_WRITES", live \cup (ps \cup {a}), last)
          \/ /\ UNCHANGED <<live, stack>>
             /\ IF last = {} THEN UNCHANGED misfreed ELSE Misfrees("GATT_RELIABLE_WRITES")
      BY <3>2
    <3>4. CASE /\ stack' = stack \cup (ps \cup {a})
               /\ Frees("GATT_RELIABLE_WRITES", live \cup (ps \cup {a}), last)
      <4>1. stack \cup (ps \cup {a}) = stack \cup ps \cup {a}
            /\ live \cup (ps \cup {a}) = live \cup ps \cup {a}
        OBVIOUS
      <4> QED
        BY <1>3, <3>4, <4>1
    <3>5. CASE UNCHANGED <<live, stack>> /\ (UNCHANGED misfreed \/ Misfrees("GATT_RELIABLE_WRITES"))
      BY <1>4, <3>5
    <3> QED
      BY <3>3, <3>4, <3>5
  <2> QED
    BY <2>1, <2>2

(* The stack frees what is its own.                                        *)
LEMMA StackFreesStep ==
  ASSUME ExtInv, StackFrees
  PROVE  ExtInv' /\ misfreed' = misfreed
<1>1. UNCHANGED <<writes, services, tokens>>
  BY DEF StackFrees
<1>2. PICK b \in stack : stack' = stack \ {b} /\ Frees("stack", live, {b})
  BY DEF StackFrees
<1>3. live' = live \ {b}
  BY <1>2 DEF Frees
<1>4. /\ live \in SUBSET Blocks /\ stack \in SUBSET Blocks
      /\ live = stack \cup Kept \cup Statics \cup valueless
      /\ Apart(stack, Kept \cup Statics \cup valueless)
  BY DEF ExtInv, ExtTypeInv, HeapOK, Owners, OneOwner
<1>5. /\ live' = stack' \cup Kept \cup Statics \cup valueless
      /\ Apart(stack', Kept \cup Statics \cup valueless)
  BY <1>2, <1>3, <1>4 DEF Apart
<1>6. ExtInv'
  BY <1>1, <1>2, <1>3, <1>4, <1>5, HeapStep
<1>7. {b} \subseteq live
  BY <1>2, <1>4
<1> QED
  BY <1>2, <1>6, <1>7, FreesIsClean DEF ExtInv

----------------------------------------------------------------------------
(* Prepared writes.                                                        *)
LEMMA PrepareStep ==
  ASSUME ExtInv, ATT_PREPARE_WRITE_REQ
  PROVE  ExtInv' /\ misfreed' = misfreed
<1>1. UNCHANGED <<services, tokens>>
  BY DEF ATT_PREPARE_WRITE_REQ
<1>2. UNCHANGED <<service, registered, agreed, tokens>>
  BY <1>1 DEF services
<1>3. CASE NotPrepared
  BY <1>1, <1>3, SimpleStep DEF NotPrepared
<1>4. CASE ~NotPrepared
  <2>1. PICK p \in New \ {0}, valued \in BOOLEAN :
          \E a \in IF pPrepareWrites # 0 THEN {pPrepareWrites}
                   ELSE Allocated(live \cup {p}) :
            /\ pPrepareWrites' = a
            /\ IF a = 0
               THEN Answers("bleMemAllocError") /\ live' = live
               ELSE IF Len(prepared) < GATT_MAX_NUM_RELIABLE_WRITES
               THEN Answers("SUCCESS") /\ live' = live \cup {p} \cup ({a} \ Array)
               ELSE Answers("INVALIDPARAMETER") /\ live' = live \cup ({a} \ Array)
            /\ IF answer'.stat = "SUCCESS"
               THEN /\ prepared' = Append(prepared, [payload |-> p, valued |-> valued])
                    /\ promised' = Append(promised, p)
                    /\ valueless' = valueless \cup { b \in {p} : ~valued }
               ELSE UNCHANGED <<prepared, promised, valueless>>
            /\ UNCHANGED <<stack, misfreed>>
    BY <1>4 DEF ATT_PREPARE_WRITE_REQ
  <2>2. PICK a \in IF pPrepareWrites # 0 THEN {pPrepareWrites}
                   ELSE Allocated(live \cup {p}) :
            /\ pPrepareWrites' = a
            /\ IF a = 0
               THEN Answers("bleMemAllocError") /\ live' = live
               ELSE IF Len(prepared) < GATT_MAX_NUM_RELIABLE_WRITES
               THEN Answers("SUCCESS") /\ live' = live \cup {p} \cup ({a} \ Array)
               ELSE Answers("INVALIDPARAMETER") /\ live' = live \cup ({a} \ Array)
            /\ IF answer'.stat = "SUCCESS"
               THEN /\ prepared' = Append(prepared, [payload |-> p, valued |-> valued])
                    /\ promised' = Append(promised, p)
                    /\ valueless' = valueless \cup { b \in {p} : ~valued }
               ELSE UNCHANGED <<prepared, promised, valueless>>
            /\ UNCHANGED <<stack, misfreed>>
    BY <2>1
  <2>3. p \in Blocks /\ p \notin live
    BY NewIsFree DEF New
  <2>4. pPrepareWrites \in Blocks \cup {0} /\ prepared \in Seq(Record) /\ promised \in Seq(Blocks)
        /\ live \in SUBSET Blocks /\ stack \in SUBSET Blocks /\ valueless \in SUBSET Blocks
        /\ (pPrepareWrites = 0 => prepared = <<>> /\ promised = <<>>)
    BY DEF ExtInv, ExtTypeInv, HeapOK, WritesOK
  <2>5. \/ a = pPrepareWrites /\ a # 0
        \/ pPrepareWrites = 0 /\ (a = 0 \/ (a \in Blocks /\ a # p /\ a \notin live))
    <3>1. CASE pPrepareWrites # 0
      BY <3>1
    <3>2. CASE pPrepareWrites = 0
      <4>1. a \in Allocated(live \cup {p})
        BY <3>2
      <4> QED
        BY <3>2, <4>1, NewIsFree
    <3> QED
      BY <3>1, <3>2
  <2>6. p # 0 /\ 0 \notin live /\ 0 \notin stack
    BY <2>3, <2>4, BlocksArePositive
  <2>7. Array = {pPrepareWrites} \ {0} /\ Array' = {a} \ {0}
    BY <2>2 DEF Array
  <2>8. Kept' = Kept /\ BlocksOf(service') = BlocksOf(service)
    BY <1>2 DEF Kept
  <2>9. /\ live = stack \cup Kept \cup Statics \cup valueless
        /\ Apart(stack, Kept \cup Statics \cup valueless)
        /\ Apart(Kept, Statics) /\ Apart(Kept \cup Statics, valueless)
        /\ Apart(Values(prepared) \cup Array, BlocksOf(service))
        /\ Statics = Values(prepared) \cup Array \cup BlocksOf(service)
    BY DEF ExtInv, Owners, OneOwner, Statics
  <2>10. /\ ServicesOK' /\ ServicesApart' /\ BuiltInv'
    BY <1>2 DEF ExtInv, ExtTypeInv, ServicesOK, Owners, ServicesApart,
                AnsweredInv, BuiltInv
  <2>11. tokens' \in SUBSET Blocks
    BY <1>2 DEF ExtInv, ExtTypeInv, HeapOK
  <2>12. CASE a = 0
    <3>1. answer'.stat # "SUCCESS"
      BY <2>2, <2>12 DEF Answers
    <3>2. UNCHANGED <<live, stack, misfreed, prepared, promised, valueless, pPrepareWrites>>
      BY <2>2, <2>5, <2>12, <3>1
    <3> QED
      BY <1>1, <3>2, SimpleStep DEF heap, writes
  <2>13. CASE a # 0 /\ ~(Len(prepared) < GATT_MAX_NUM_RELIABLE_WRITES)
    <3>1. answer'.stat # "SUCCESS" /\ live' = live \cup {a} /\ stack' = stack
      BY <2>2, <2>9, <2>13 DEF Answers
    <3>2. UNCHANGED <<prepared, promised, valueless, misfreed>> /\ pPrepareWrites' = a
      BY <2>2, <3>1
    <3>3. a \in Blocks
      BY <2>4, <2>5, <2>13
    <3>4. ExtTypeInv'
      BY <2>4, <2>10, <2>11, <2>13, <3>1, <3>2, <3>3 DEF ExtTypeInv, HeapOK, WritesOK
    <3>5. CASE a = pPrepareWrites
      <4>1. live' = live
        BY <2>9, <2>13, <3>1, <3>5, <2>7
      <4> QED
        BY <1>1, <3>1, <3>2, <3>5, <4>1, SimpleStep DEF heap, writes
    <3>6. CASE a # pPrepareWrites
      <4>1. /\ Array = {} /\ Array' = {a} /\ a \notin live /\ a \notin stack
            /\ a \notin Kept \cup Statics \cup valueless /\ prepared = <<>>
        BY <2>4, <2>5, <2>7, <2>13, <3>6, FreeIsApart
      <4>2. Values(prepared') = Values(prepared)
        BY <3>2
      <4>3. Statics' = Statics \cup {a}
        BY <2>8, <2>9, <4>1, <4>2 DEF Statics
      <4>4. OneOwner'
        BY <2>8, <2>9, <3>1, <3>2, <4>1, <4>2, <4>3 DEF OneOwner, Apart
      <4>5. PreparedApart'
        BY <2>9, <3>2, <4>1, <4>2 DEF PreparedApart, ExtInv, Owners, Apart
      <4>6. PreparedAsAnswered' /\ LostInv'
        BY <3>2 DEF PreparedAsAnswered, ExtInv, AnsweredInv, LostInv
      <4> QED
        BY <2>10, <3>2, <3>4, <4>4, <4>5, <4>6 DEF ExtInv, Owners, AnsweredInv
    <3> QED
      BY <3>5, <3>6
  <2>14. CASE a # 0 /\ Len(prepared) < GATT_MAX_NUM_RELIABLE_WRITES
    <3>1. answer'.stat = "SUCCESS" /\ live' = live \cup {a, p} /\ stack' = stack
      BY <2>2, <2>9, <2>14 DEF Answers
    <3>2. /\ prepared' = Append(prepared, [payload |-> p, valued |-> valued])
          /\ promised' = Append(promised, p)
          /\ valueless' = valueless \cup { b \in {p} : ~valued } /\ pPrepareWrites' = a
      BY <2>2, <3>1
    <3> DEFINE w == [payload |-> p, valued |-> valued]
               V == IF valued THEN {p} ELSE {}
    <3>3. a \in Blocks
      BY <2>4, <2>5, <2>14
    <3>4. w \in Record /\ w.payload = p /\ w.valued = valued
      BY <2>3 DEF Record
    <3> HIDE DEF w
    <3>5. /\ prepared' \in Seq(Record) /\ Len(prepared') = Len(prepared) + 1
          /\ \A i \in 1..Len(prepared) : prepared'[i] = prepared[i]
          /\ prepared'[Len(prepared) + 1] = w
          /\ DOMAIN prepared = 1..Len(prepared) /\ DOMAIN prepared' = 1..Len(prepared')
          /\ Len(prepared) \in Nat
      BY <2>4, <3>2, <3>4 DEF w
    <3>6. promised' \in Seq(Blocks)
      BY <2>3, <2>4, <3>2
    <3>7. valueless' \in SUBSET Blocks /\ valueless' = valueless \cup ({p} \ V)
      BY <2>3, <2>4, <3>2
    <3>8. ExtTypeInv'
      BY <2>3, <2>4, <2>10, <2>11, <2>14, <3>1, <3>2, <3>3, <3>5, <3>6, <3>7
         DEF ExtTypeInv, HeapOK, WritesOK
    <3>9. DOMAIN prepared' = DOMAIN prepared \cup {Len(prepared) + 1}
      BY <3>5
    <3>10. Values(prepared') = Values(prepared) \cup V
      <4>1. /\ \A i \in DOMAIN prepared : prepared'[i] = prepared[i]
            /\ prepared'[Len(prepared) + 1].payload = p
            /\ prepared'[Len(prepared) + 1].valued = valued
        BY <3>4, <3>5
      <4> QED
        BY <3>9, <4>1 DEF Values
    <3> HIDE DEF V
    <3>11. V \subseteq {p}
      BY DEF V
    <3>12. Array' = {a} /\ (a # pPrepareWrites => a \notin live /\ a # p /\ Array = {})
           /\ (a = pPrepareWrites => Array = {a})
      BY <2>5, <2>7, <2>14
    <3>13. /\ p \notin Kept \cup Statics \cup valueless /\ p \notin stack
           /\ (a # pPrepareWrites => a \notin Kept \cup Statics \cup valueless /\ a \notin stack)
      BY <2>3, <3>12, FreeIsApart
    <3>14. a # p
      BY <2>9, <3>12, <3>13
    <3>15. Statics' = Statics \cup V \cup {a}
      BY <2>8, <2>9, <3>10, <3>12 DEF Statics
    <3>16. OneOwner'
      <4>1. live' = stack' \cup Kept' \cup Statics' \cup valueless'
        BY <2>8, <2>9, <3>1, <3>7, <3>11, <3>15
      <4>2. Apart(stack', Kept' \cup Statics' \cup valueless')
        <5>1. a \notin stack
          BY <2>9, <3>12, <3>13 DEF Apart
        <5> QED
          BY <2>8, <2>9, <3>1, <3>7, <3>11, <3>13, <3>15, <5>1 DEF Apart
      <4>3. a \notin Kept /\ a \notin valueless /\ a \notin BlocksOf(service)
        BY <2>9, <3>12, <3>13 DEF Apart
      <4>4. Apart(Kept', Statics') /\ Apart(Kept' \cup Statics', valueless')
        BY <2>8, <2>9, <3>7, <3>11, <3>13, <3>14, <3>15, <4>3 DEF Apart
      <4>5. Apart(Values(prepared') \cup Array', BlocksOf(service'))
        BY <2>8, <2>9, <3>10, <3>11, <3>12, <3>13, <4>3 DEF Apart
      <4> QED
        BY <4>1, <4>2, <4>4, <4>5 DEF OneOwner
    <3>17. PreparedApart'
      <4>1. a \notin Values(prepared)
        <5>1. Apart(Values(prepared), Array)
          BY DEF ExtInv, Owners, PreparedApart
        <5> QED
          BY <2>9, <3>12, <3>13, <5>1 DEF Apart
      <4>2. Apart(Values(prepared'), Array')
        BY <3>10, <3>11, <3>12, <3>14, <4>1 DEF Apart
      <4>3. \A i \in DOMAIN prepared : prepared[i].payload \in live
        <5>1. \A i \in DOMAIN prepared :
                prepared[i].payload \in Values(prepared) \cup valueless
          BY DEF ExtInv, LostInv, Values
        <5> QED
          BY <2>9, <5>1
      <4>4. /\ \A i \in DOMAIN prepared : prepared'[i].payload = prepared[i].payload
            /\ prepared'[Len(prepared) + 1].payload = p
        BY <3>4, <3>5
      <4>5. \A i \in DOMAIN prepared : prepared'[i].payload # p
        BY <2>3, <4>3, <4>4
      <4>6. \A i, j \in DOMAIN prepared : i # j => prepared'[i].payload # prepared'[j].payload
        BY <4>4 DEF PreparedApart, ExtInv, Owners
      <4>7. \A i, j \in DOMAIN prepared' : i # j => prepared'[i].payload # prepared'[j].payload
        BY <3>9, <4>4, <4>5, <4>6
      <4> QED
        BY <4>2, <4>7 DEF PreparedApart
    <3>18. PreparedAsAnswered'
      <4>1. promised = [i \in DOMAIN prepared |-> prepared[i].payload]
        BY DEF ExtInv, AnsweredInv, PreparedAsAnswered
      <4>2. Len(promised) = Len(prepared) /\ \A i \in 1..Len(prepared) : promised[i] = prepared[i].payload
        BY <2>4, <3>5, <4>1
      <4>3. /\ Len(promised') = Len(promised) + 1 /\ promised'[Len(promised) + 1] = p
            /\ \A i \in 1..Len(promised) : promised'[i] = promised[i]
        BY <2>3, <2>4, <3>2
      <4>4. DOMAIN promised' = DOMAIN prepared'
        BY <3>5, <3>6, <4>2, <4>3
      <4>5. \A i \in DOMAIN prepared' : promised'[i] = prepared'[i].payload
        BY <3>4, <3>5, <3>9, <4>2, <4>3
      <4>6. promised' = [i \in DOMAIN promised' |-> promised'[i]]
        BY <3>6
      <4> QED
        BY <4>4, <4>5, <4>6 DEF PreparedAsAnswered
    <3>19. LostInv'
      <4>1. \A i \in DOMAIN prepared : prepared[i].valued \/ prepared[i].payload \in valueless
        BY DEF ExtInv, LostInv
      <4> QED
        BY <3>2, <3>4, <3>5, <3>9, <4>1 DEF LostInv
    <3> QED
      BY <2>2, <2>10, <3>8, <3>16, <3>17, <3>18, <3>19 DEF ExtInv, Owners, AnsweredInv
  <2> QED
    BY <2>12, <2>13, <2>14
<1> QED
  BY <1>3, <1>4

(* Executing the writes gives them all away, or frees them all.            *)
LEMMA ExecuteStep ==
  ASSUME ExtInv, ATT_EXECUTE_WRITE_REQ
  PROVE  ExtInv' /\ misfreed' = misfreed
<1>1. UNCHANGED <<services, tokens>>
  BY DEF ATT_EXECUTE_WRITE_REQ
<1>2. UNCHANGED <<service, registered, agreed, tokens>>
  BY <1>1 DEF services
<1>3. CASE UNCHANGED <<heap, writes>>
  BY <1>1, <1>3, SimpleStep
<1>4. CASE ~ UNCHANGED <<heap, writes>>
  <2> DEFINE given == Values(prepared) \cup {pPrepareWrites}
  <2>1. /\ pPrepareWrites # 0
        /\ \/ stack' = stack \cup given /\ live' = live /\ misfreed' = misfreed
           \/ stack' = stack /\ Frees("ATT_EXECUTE_WRITE_REQ", live, given)
        /\ pPrepareWrites' = 0 /\ prepared' = <<>> /\ promised' = <<>> /\ valueless' = valueless
    BY <1>4 DEF ATT_EXECUTE_WRITE_REQ
  <2> HIDE DEF given
  <2>2. DOMAIN prepared' = {} /\ <<>> \in Seq(Record) /\ <<>> \in Seq(Blocks)
    BY <2>1
  <2>3. Values(prepared') = {} /\ Array' = {}
    BY <2>1, <2>2 DEF Values, Array
  <2>4. /\ live = stack \cup Kept \cup Statics \cup valueless
        /\ Apart(stack, Kept \cup Statics \cup valueless)
        /\ Apart(Kept, Statics) /\ Apart(Kept \cup Statics, valueless)
        /\ Apart(Values(prepared) \cup Array, BlocksOf(service))
        /\ Statics = Values(prepared) \cup Array \cup BlocksOf(service)
        /\ Array = {pPrepareWrites}
    BY <2>1 DEF ExtInv, Owners, OneOwner, Statics, Array
  <2>5. Statics = given \cup BlocksOf(service) /\ Apart(given, BlocksOf(service))
    BY <2>4 DEF given
  <2>6. Statics' = BlocksOf(service) /\ Kept' = Kept /\ BlocksOf(service') = BlocksOf(service)
    BY <1>2, <2>3 DEF Statics, Kept
  <2>7. /\ live \in SUBSET Blocks /\ stack \in SUBSET Blocks /\ valueless \in SUBSET Blocks
        /\ tokens' \in SUBSET Blocks
    BY <1>2 DEF ExtInv, ExtTypeInv, HeapOK, WritesOK
  <2>8. given \subseteq live
    BY <2>4, <2>5
  <2>9. \/ stack' = stack \cup given /\ live' = live
        \/ stack' = stack /\ live' = live \ given
    BY <2>1 DEF Frees
  <2>10. Apart(given, stack) /\ Apart(given, Kept \cup BlocksOf(service) \cup valueless)
    BY <2>4, <2>5 DEF Apart
  <2>11. live' = stack' \cup Kept \cup BlocksOf(service) \cup valueless
         /\ Apart(stack', Kept \cup BlocksOf(service) \cup valueless)
    BY <2>4, <2>5, <2>9, <2>10 DEF Apart
  <2>12. OneOwner'
    BY <2>1, <2>3, <2>4, <2>5, <2>6, <2>11 DEF OneOwner, Apart
  <2>13. ServicesOK' /\ ServicesApart' /\ BuiltInv'
    BY <1>2 DEF ExtInv, ExtTypeInv, ServicesOK, Owners, ServicesApart,
                AnsweredInv, BuiltInv
  <2>14. HeapOK' /\ WritesOK'
    BY <2>1, <2>2, <2>7, <2>8, <2>9 DEF HeapOK, WritesOK
  <2>15. PreparedApart' /\ LostInv'
    BY <2>2, <2>3 DEF PreparedApart, LostInv, Apart
  <2>16. PreparedAsAnswered'
    <3>1. [i \in DOMAIN <<>> |-> <<>>[i].payload] = <<>>
      OBVIOUS
    <3> QED
      BY <2>1, <3>1 DEF PreparedAsAnswered
  <2>17. ExtInv'
    BY <2>12, <2>13, <2>14, <2>15, <2>16 DEF ExtInv, ExtTypeInv, Owners, AnsweredInv
  <2> QED
    BY <2>1, <2>8, <2>17, FreesIsClean DEF ExtInv
<1> QED
  BY <1>3, <1>4

----------------------------------------------------------------------------
(* Services.                                                               *)

(* The blocks of services are those of one of them.                        *)
LEMMA BlocksOfAllDef ==
  ASSUME NEW R, NEW b
  PROVE  b \in BlocksOfAll(R) <=> \E t \in R : b \in BlocksOf(t)
BY DEF BlocksOfAll

(* The blocks of the services and one more.                                *)
LEMMA OneServiceMore ==
  ASSUME NEW R, NEW m
  PROVE  BlocksOfAll(R \cup {m}) = BlocksOfAll(R) \cup BlocksOf(m)
<1>1. \A b : b \in BlocksOfAll(R \cup {m}) <=> \E t \in R \cup {m} : b \in BlocksOf(t)
  BY BlocksOfAllDef
<1>2. \A b : b \in BlocksOfAll(R) <=> \E t \in R : b \in BlocksOf(t)
  BY BlocksOfAllDef
<1>3. \A b : (\E t \in R \cup {m} : b \in BlocksOf(t))
             <=> ((\E t \in R : b \in BlocksOf(t)) \/ b \in BlocksOf(m))
  BY Zenon
<1>4. \A b : b \in BlocksOfAll(R \cup {m}) <=> b \in BlocksOfAll(R) \cup BlocksOf(m)
  BY <1>1, <1>2, <1>3, Zenon
<1> QED
  BY <1>4

(* The blocks of a service the stack has are the stack's to give back.     *)
LEMMA RegisteredIsKept ==
  ASSUME NEW s \in registered
  PROVE  BlocksOf(s) \subseteq Kept
BY BlocksOfAllDef DEF Kept

(* What Adds does, when the service it adds to is s: s is the one being    *)
(* built, or has only blocks nobody had.                                   *)
LEMMA AddsStep ==
  ASSUME ExtInv, NEW cmd, NEW s \in Service, NEW known \in BOOLEAN, NEW used,
         Adds(cmd, s, known, used), used = live \cup BlocksOf(s),
         s.attrs # 0, BlocksOf(service) \subseteq BlocksOf(s),
         Apart(BlocksOf(s) \ BlocksOf(service), live),
         UNCHANGED <<stack, writes, tokens>>, agreed' \in [got : Nat, total : Nat], BuiltInv'
  PROVE  ExtInv' /\ misfreed' = misfreed
<1> DEFINE B == BlocksOf(service)
           T == BlocksOf(s)
<1>1. PICK o \in addAttrRec(s, known, used) :
        LET done == o.made # {} /\ o.stat = "SUCCESS"
        IN /\ service' = o.serv
           /\ registered' = registered \cup (IF done THEN o.made ELSE {})
           /\ Frees(cmd, used \cup o.uuid,
                    IF done THEN {} ELSE UNION { freeAttrRecs(m) : m \in o.made })
  BY DEF Adds
<1>2. PICK u \in Blocks \cup {0} :
        /\ u = 0 \/ u \notin live \cup T
        /\ o.uuid = {u} \ {0}
        /\ \/ o.stat = "INVALIDPARAMETER" /\ o.serv = s /\ o.made = {} /\ u = 0
           \/ o.stat \in Results /\ o.serv = NoService /\ o.made = {More(s, u)}
           \/ o.stat = "SUCCESS" /\ o.serv = More(s, u) /\ o.made = {}
  BY <1>1, AddWays
<1>3. PICK U \in SUBSET Blocks : U = {u} \ {0}
  OBVIOUS
<1>4. PICK more \in Service : more = More(s, u)
  BY MoreFacts
<1>5. more.attrs # 0 /\ BlocksOf(more) = T \cup U
  BY <1>3, <1>4, MoreFacts
<1>6. Apart(U, live \cup T)
  BY <1>2, <1>3 DEF Apart
<1>7. /\ live \in SUBSET Blocks /\ stack \in SUBSET Blocks /\ tokens \in SUBSET Blocks
      /\ T \subseteq Blocks
  BY BlocksOfType DEF ExtInv, ExtTypeInv, HeapOK
<1>8. freeAttrRecs(more) = T \cup U
  BY <1>5 DEF freeAttrRecs
<1>9. BlocksOf(NoService) = {} /\ NoService \in Service
  BY NoServiceBlocks
<1>10. /\ UNCHANGED <<stack, tokens, pPrepareWrites, prepared, promised, valueless>>
  BY DEF writes
<1>11. WritesOK' /\ PreparedAsAnswered' /\ LostInv'
  BY <1>10 DEF ExtInv, ExtTypeInv, WritesOK, AnsweredInv, PreparedAsAnswered, LostInv
<1>12. PreparedApart' /\ Array' = Array /\ Values(prepared') = Values(prepared)
  BY <1>10 DEF ExtInv, Owners, PreparedApart, Array
<1>13. /\ live = stack \cup Kept \cup Statics \cup valueless
       /\ Apart(stack, Kept \cup Statics \cup valueless)
       /\ Apart(Kept, Statics) /\ Apart(Kept \cup Statics, valueless)
       /\ Apart(Values(prepared) \cup Array, B)
       /\ Statics = Values(prepared) \cup Array \cup B
       /\ Statics' = Values(prepared) \cup Array \cup BlocksOf(service')
       /\ B \subseteq live
  BY <1>12 DEF ExtInv, Owners, OneOwner, Statics
<1>14. PICK W : W = Values(prepared) \cup Array
  OBVIOUS
<1>15. B \subseteq T /\ Apart(T \ B, live)
  OBVIOUS
<1>16. /\ registered \in SUBSET Service /\ \A t \in registered : t.attrs # 0
       /\ ServicesApart
  BY DEF ExtInv, ExtTypeInv, ServicesOK, Owners
<1> HIDE DEF B, T
(* The three ways it ends: nobody's blocks become the kept service's, the  *)
(* stack's, or free again.                                                 *)
<1>17. ASSUME \E x \in {s, more} : /\ service' = x /\ registered' = registered
                                   /\ live' = live \cup BlocksOf(x)
       PROVE  ExtInv'
  <2>1. PICK x \in {s, more} : /\ service' = x /\ registered' = registered
                               /\ live' = live \cup BlocksOf(x)
    BY <1>17
  <2>2. PICK X : X = BlocksOf(x)
    OBVIOUS
  <2>3. T \subseteq X /\ X \subseteq T \cup U /\ x \in Service /\ x.attrs # 0
    BY <1>5, <2>1, <2>2 DEF T
  <2>4. Apart(X \ B, live) /\ B \subseteq X /\ X \subseteq Blocks
    BY <1>6, <1>7, <1>15, <2>3 DEF Apart
  <2>5. Kept' = Kept
    BY <1>10, <2>1 DEF Kept
  <2>6. Statics' = W \cup X
    BY <1>13, <1>14, <2>1, <2>2
  <2>7. OneOwner'
    BY <1>10, <1>12, <1>13, <1>14, <2>1, <2>2, <2>4, <2>5, <2>6 DEF OneOwner, Apart
  <2>8. ServicesApart'
    BY <1>10, <1>16, <2>1 DEF ServicesApart
  <2>9. ServicesOK'
    BY <1>16, <2>1, <2>3 DEF ServicesOK
  <2>10. HeapOK'
    BY <1>7, <1>10, <2>1, <2>2, <2>4 DEF HeapOK
  <2> QED
    BY <1>11, <1>12, <2>7, <2>8, <2>9, <2>10
       DEF ExtInv, ExtTypeInv, Owners, AnsweredInv
<1>18. ASSUME service' = NoService, registered' = registered \cup {more},
              live' = live \cup BlocksOf(more)
       PROVE  ExtInv'
  <2>1. Kept' = Kept \cup T \cup U
    <3>1. BlocksOfAll(registered \cup {more}) = BlocksOfAll(registered) \cup BlocksOf(more)
      BY OneServiceMore
    <3> QED
      BY <1>5, <1>10, <1>18, <3>1 DEF Kept
  <2>2. Statics' = W
    BY <1>9, <1>13, <1>14, <1>18
  <2>3. OneOwner'
    <3>1. BlocksOf(service') = {}
      BY <1>9, <1>18
    <3>2. live' = stack' \cup Kept' \cup Statics' \cup valueless'
      BY <1>5, <1>6, <1>10, <1>13, <1>14, <1>15, <1>18, <2>1, <2>2 DEF Apart
    <3>3. Apart(stack', Kept' \cup Statics' \cup valueless')
      BY <1>6, <1>10, <1>13, <1>14, <1>15, <2>1, <2>2 DEF Apart
    <3>4. Apart(Kept', Statics') /\ Apart(Kept' \cup Statics', valueless')
      BY <1>6, <1>10, <1>13, <1>14, <1>15, <2>1, <2>2 DEF Apart
    <3> QED
      BY <3>1, <3>2, <3>3, <3>4 DEF OneOwner, Apart
  <2>4. ServicesApart'
    <3>1. Apart(T \cup U, Kept)
      BY <1>6, <1>13, <1>15 DEF Apart
    <3>2. tokens \subseteq Kept /\ \A t \in registered : BlocksOf(t) \subseteq Kept
      BY RegisteredIsKept DEF Kept
    <3>3. Apart(tokens, BlocksOf(more)) /\ \A t \in registered : Apart(BlocksOf(more), BlocksOf(t))
      BY <1>5, <3>1, <3>2 DEF Apart
    <3>4. \A t \in registered : Apart(BlocksOf(t), BlocksOf(more))
      BY <3>3 DEF Apart
    <3> QED
      BY <1>10, <1>16, <1>18, <3>3, <3>4 DEF ServicesApart
  <2>5. ServicesOK'
    BY <1>5, <1>9, <1>16, <1>18 DEF ServicesOK
  <2>6. HeapOK'
    BY <1>5, <1>7, <1>10, <1>18 DEF HeapOK
  <2> QED
    BY <1>11, <1>12, <2>3, <2>4, <2>5, <2>6
       DEF ExtInv, ExtTypeInv, Owners, AnsweredInv
<1>19. ASSUME service' = NoService, registered' = registered,
              live' = (live \cup BlocksOf(more)) \ freeAttrRecs(more)
       PROVE  ExtInv'
  <2>1. Kept' = Kept
    BY <1>10, <1>19 DEF Kept
  <2>2. Statics' = W /\ BlocksOf(service') = {}
    BY <1>9, <1>13, <1>14, <1>19
  <2>3. live' = live \ B
    BY <1>5, <1>6, <1>8, <1>15, <1>19 DEF Apart
  <2>4. OneOwner'
    BY <1>10, <1>12, <1>13, <1>14, <2>1, <2>2, <2>3 DEF OneOwner, Apart
  <2>5. ServicesApart'
    BY <1>10, <1>16, <1>19 DEF ServicesApart
  <2>6. ServicesOK'
    BY <1>9, <1>16, <1>19 DEF ServicesOK
  <2>7. HeapOK'
    BY <1>7, <1>10, <2>3 DEF HeapOK
  <2> QED
    BY <1>11, <1>12, <2>4, <2>5, <2>6, <2>7
       DEF ExtInv, ExtTypeInv, Owners, AnsweredInv
<1>20. PICK gone : /\ gone = IF o.made # {} /\ o.stat = "SUCCESS" THEN {}
                             ELSE UNION { freeAttrRecs(m) : m \in o.made }
                   /\ Frees(cmd, used \cup o.uuid, gone)
  BY <1>1
<1>21. live' = (live \cup T \cup U) \ gone /\ used \cup o.uuid = live \cup T \cup U
  BY <1>2, <1>3, <1>20 DEF Frees, T
<1>22. service' = o.serv
       /\ registered' = registered \cup (IF o.made # {} /\ o.stat = "SUCCESS" THEN o.made ELSE {})
  BY <1>1
<1>23. CASE o.stat = "INVALIDPARAMETER" /\ o.serv = s /\ o.made = {} /\ u = 0
  <2>1. gone = {} /\ U = {}
    BY <1>3, <1>20, <1>23
  <2>2. service' = s /\ registered' = registered /\ live' = live \cup BlocksOf(s)
    BY <1>21, <1>22, <1>23, <2>1 DEF T
  <2> QED
    BY <1>17, <1>20, <2>1, <2>2, FreesIsClean DEF ExtInv
<1>24. CASE o.stat = "SUCCESS" /\ o.serv = More(s, u) /\ o.made = {}
  <2>1. gone = {}
    BY <1>20, <1>24
  <2>2. service' = more /\ registered' = registered /\ live' = live \cup BlocksOf(more)
    BY <1>4, <1>5, <1>21, <1>22, <1>24, <2>1
  <2> QED
    BY <1>17, <1>20, <2>1, <2>2, FreesIsClean DEF ExtInv
<1>25. CASE o.stat \in Results /\ o.serv = NoService /\ o.made = {More(s, u)}
  <2>1. o.serv = NoService /\ o.made = {more}
    BY <1>4, <1>25
  <2>2. UNION { freeAttrRecs(m) : m \in {more} } = freeAttrRecs(more)
    OBVIOUS
  <2>3. CASE o.stat = "SUCCESS"
    <3>1. gone = {}
      BY <1>20, <2>1, <2>3
    <3>2. /\ service' = NoService /\ registered' = registered \cup {more}
          /\ live' = live \cup BlocksOf(more)
      BY <1>5, <1>21, <1>22, <2>1, <2>3, <3>1
    <3> QED
      BY <1>18, <1>20, <3>1, <3>2, FreesIsClean DEF ExtInv
  <2>4. CASE o.stat # "SUCCESS"
    <3>1. gone = freeAttrRecs(more)
      BY <1>20, <2>1, <2>2, <2>4
    <3>2. /\ service' = NoService /\ registered' = registered
          /\ live' = (live \cup BlocksOf(more)) \ freeAttrRecs(more)
      BY <1>5, <1>21, <1>22, <2>1, <2>4, <3>1
    <3>3. gone \subseteq used \cup o.uuid
      BY <1>8, <1>21, <3>1
    <3> QED
      BY <1>19, <1>20, <3>2, <3>3, FreesIsClean DEF ExtInv
  <2> QED
    BY <2>3, <2>4
<1> QED
  BY <1>2, <1>23, <1>24, <1>25

(* What an attempt to add a record leaves as the service being built.      *)
LEMMA AddsWays ==
  ASSUME NEW cmd, NEW s \in Service, NEW known, NEW used, Adds(cmd, s, known, used)
  PROVE  \/ service' = s /\ answer'.stat = "INVALIDPARAMETER" /\ ~known
         \/ Len(s.recs) + 1 = s.total /\ service' = NoService
         \/ /\ Len(s.recs) + 1 # s.total /\ answer'.stat = "SUCCESS"
            /\ service' \in Service
            /\ service'.attrs = s.attrs /\ service'.total = s.total
            /\ Len(service'.recs) = Len(s.recs) + 1
<1>1. PICK o \in addAttrRec(s, known, used) :
        service' = o.serv /\ answer'.stat = o.stat
  BY DEF Adds, AnswersWith
<1>2. PICK u \in Blocks \cup {0} :
        \/ o.stat = "INVALIDPARAMETER" /\ o.serv = s /\ ~known
        \/ Len(More(s, u).recs) = s.total /\ o.serv = NoService
        \/ Len(More(s, u).recs) # s.total /\ o.stat = "SUCCESS" /\ o.serv = More(s, u)
  BY AddWays
<1>3. /\ More(s, u) \in Service
      /\ More(s, u).attrs = s.attrs /\ More(s, u).total = s.total
      /\ Len(More(s, u).recs) = Len(s.recs) + 1
  BY MoreFacts
<1> QED
  BY <1>1, <1>2, <1>3

(* A new service, with its first record.                                   *)
LEMMA AddServiceStep ==
  ASSUME ExtInv, GATT_ADD_SERVICE
  PROVE  ExtInv' /\ misfreed' = misfreed
<1>1. UNCHANGED <<writes, tokens>>
  BY DEF GATT_ADD_SERVICE
<1>2. CASE UNCHANGED <<heap, services>>
  BY <1>1, <1>2, SimpleStep
<1>3. CASE ~ UNCHANGED <<heap, services>>
  <2>1. /\ service.attrs = 0 /\ UNCHANGED stack
        /\ \E a \in New \ {0}, n \in 1..MaxAttrs :
             /\ Adds("GATT_ADD_SERVICE", [attrs |-> a, recs |-> <<>>, total |-> n],
                     TRUE, live \cup {a})
             /\ agreed' = IF answer'.stat = "SUCCESS" /\ n > 1
                          THEN [got |-> 1, total |-> n] ELSE NotAgreed
    BY <1>3 DEF GATT_ADD_SERVICE
  <2>2. PICK a \in New \ {0}, n \in 1..MaxAttrs :
          /\ Adds("GATT_ADD_SERVICE", [attrs |-> a, recs |-> <<>>, total |-> n],
                     TRUE, live \cup {a})
          /\ agreed' = IF answer'.stat = "SUCCESS" /\ n > 1
                       THEN [got |-> 1, total |-> n] ELSE NotAgreed
    BY <2>1
  <2>3. a \in Blocks /\ a # 0 /\ a \notin live /\ n \in Nat
    BY NewIsFree, ExtMsgAssumption DEF New
  <2>4. PICK s : s = [attrs |-> a, recs |-> <<>>, total |-> n]
    OBVIOUS
  <2>5. s \in Service /\ BlocksOf(s) = {a} /\ s.attrs = a /\ s.total = n /\ Len(s.recs) = 0
    BY <2>3, <2>4, EmptyServiceBlocks
  <2>6. service = NoService /\ BlocksOf(service) = {}
    BY <2>1, NoServiceBlocks DEF ExtInv, ExtTypeInv, ServicesOK
  <2>7. agreed' \in [got : Nat, total : Nat]
    BY <2>2, <2>3 DEF NotAgreed
  <2>8. Adds("GATT_ADD_SERVICE", s, TRUE, live \cup BlocksOf(s))
    BY <2>2, <2>4, <2>5
  <2>9. BuiltInv'
    <3>1. CASE Len(s.recs) + 1 = s.total /\ service' = NoService
      <4>1. agreed' = NotAgreed
        BY <2>2, <2>5, <3>1
      <4> QED
        BY <4>1 DEF BuiltInv
    <3>2. CASE /\ Len(s.recs) + 1 # s.total /\ answer'.stat = "SUCCESS"
               /\ service'.attrs = s.attrs /\ service'.total = s.total
               /\ Len(service'.recs) = Len(s.recs) + 1
      <4>1. agreed' = [got |-> 1, total |-> n] /\ n > 1
        BY <2>2, <2>3, <2>5, <3>2
      <4>2. Len(service'.recs) = 1 /\ service'.attrs # 0 /\ service'.total = n
        BY <2>3, <2>5, <3>2
      <4> QED
        BY <4>1, <4>2 DEF BuiltInv
    <3> QED
      BY <2>5, <2>8, <3>1, <3>2, AddsWays
  <2>10. Apart(BlocksOf(s) \ BlocksOf(service), live)
    BY <2>3, <2>5 DEF Apart
  <2> QED
    BY <1>1, <2>1, <2>3, <2>5, <2>6, <2>7, <2>8, <2>9, <2>10, AddsStep
<1> QED
  BY <1>2, <1>3

(* One record more for the service being built.                            *)
LEMMA AddAttributeStep ==
  ASSUME ExtInv, GATT_ADD_ATTRIBUTE
  PROVE  ExtInv' /\ misfreed' = misfreed
<1>1. UNCHANGED <<writes, tokens>>
  BY DEF GATT_ADD_ATTRIBUTE
<1>2. CASE UNCHANGED <<heap, services>>
  BY <1>1, <1>2, SimpleStep
<1>3. CASE ~ UNCHANGED <<heap, services>>
  <2>1. /\ service.attrs # 0 /\ UNCHANGED stack
        /\ \E known \in BOOLEAN : Adds("GATT_ADD_ATTRIBUTE", service, known, live)
        /\ agreed' = IF agreed = NotAgreed \/ agreed.got + 1 = agreed.total THEN NotAgreed
                     ELSE IF answer'.stat = "SUCCESS" THEN [agreed EXCEPT !.got = @ + 1]
                     ELSE agreed
    BY <1>3 DEF GATT_ADD_ATTRIBUTE
  <2>2. PICK known \in BOOLEAN : Adds("GATT_ADD_ATTRIBUTE", service, known, live)
    BY <2>1
  <2>3. service \in Service /\ agreed \in [got : Nat, total : Nat]
    BY DEF ExtInv, ExtTypeInv, ServicesOK
  <2>4. agreed' \in [got : Nat, total : Nat]
    BY <2>1, <2>3 DEF NotAgreed
  <2>5. BuiltInv'
    <3>1. CASE agreed = NotAgreed \/ agreed.got + 1 = agreed.total
      BY <2>1, <3>1 DEF BuiltInv
    <3>2. CASE agreed # NotAgreed /\ agreed.got + 1 # agreed.total
      <4>1. /\ Len(service.recs) = agreed.got /\ service.total = agreed.total
            /\ agreed.got < agreed.total
        BY <3>2 DEF ExtInv, AnsweredInv, BuiltInv
      <4>2. CASE service' = service /\ answer'.stat = "INVALIDPARAMETER"
        <5>1. agreed' = agreed
          BY <2>1, <3>2, <4>2
        <5> QED
          BY <2>1, <4>1, <4>2, <5>1 DEF BuiltInv
      <4>3. CASE /\ answer'.stat = "SUCCESS"
                 /\ service'.attrs = service.attrs /\ service'.total = service.total
                 /\ Len(service'.recs) = Len(service.recs) + 1
        <5>1. agreed' = [agreed EXCEPT !.got = @ + 1]
          BY <2>1, <3>2, <4>3
        <5>2. agreed'.got = agreed.got + 1 /\ agreed'.total = agreed.total
          BY <2>3, <5>1
        <5>3. agreed.got + 1 < agreed.total
          BY <2>3, <3>2, <4>1
        <5> QED
          BY <2>1, <4>1, <4>3, <5>2, <5>3 DEF BuiltInv
      <4> QED
        BY <2>2, <2>3, <3>2, <4>1, <4>2, <4>3, AddsWays
    <3> QED
      BY <3>1, <3>2
  <2>6. Apart(BlocksOf(service) \ BlocksOf(service), live) /\ live = live \cup BlocksOf(service)
    BY DEF Apart, ExtInv, Owners, OneOwner, Statics
  <2> QED
    BY <1>1, <2>1, <2>2, <2>3, <2>4, <2>5, <2>6, AddsStep
<1> QED
  BY <1>2, <1>3

(* Commands that leave the prepared writes alone.                          *)
LEMMA ServicesStep ==
  ASSUME ExtInv, UNCHANGED writes, HeapOK', ServicesOK', BuiltInv', OneOwner', ServicesApart'
  PROVE  ExtInv'
<1>1. UNCHANGED <<pPrepareWrites, prepared, promised, valueless>>
  BY DEF writes
<1>2. WritesOK' /\ PreparedAsAnswered' /\ LostInv'
  BY <1>1 DEF ExtInv, ExtTypeInv, WritesOK, AnsweredInv, PreparedAsAnswered, LostInv
<1>3. PreparedApart'
  BY <1>1 DEF ExtInv, Owners, PreparedApart, Array
<1> QED
  BY <1>2, <1>3 DEF ExtInv, ExtTypeInv, Owners, AnsweredInv

(* What the invariant says of the blocks, in one place.                    *)
LEMMA OwnersAre ==
  ASSUME ExtInv
  PROVE  /\ live \in SUBSET Blocks /\ stack \in SUBSET Blocks /\ tokens \in SUBSET Blocks
         /\ live = stack \cup Kept \cup Statics \cup valueless
         /\ Apart(stack, Kept \cup Statics \cup valueless)
         /\ Apart(Kept, Statics) /\ Apart(Kept \cup Statics, valueless)
         /\ Apart(Values(prepared) \cup Array, BlocksOf(service))
         /\ Statics = Values(prepared) \cup Array \cup BlocksOf(service)
BY DEF ExtInv, ExtTypeInv, HeapOK, Owners, OneOwner, Statics

(* A service is freed, the one being built or one the stack gives back.    *)
LEMMA DelServiceStep ==
  ASSUME ExtInv, GATT_DEL_SERVICE
  PROVE  ExtInv' /\ misfreed' = misfreed
<1>1. UNCHANGED <<stack, writes, tokens>>
  BY DEF GATT_DEL_SERVICE
<1>2. /\ tokens' = tokens /\ stack' = stack
      /\ Array' = Array /\ Values(prepared') = Values(prepared) /\ valueless' = valueless
  BY <1>1 DEF writes, Array
<1>3. ServicesOK /\ ServicesApart /\ BuiltInv
  BY DEF ExtInv, ExtTypeInv, Owners, AnsweredInv
<1>4. CASE /\ Frees("GATT_DEL_SERVICE", live, freeAttrRecs(service))
           /\ service' = NoService /\ agreed' = NotAgreed /\ registered' = registered
  <2>1. /\ freeAttrRecs(service) = BlocksOf(service) /\ BlocksOf(service) \subseteq live
        /\ live' = live \ BlocksOf(service)
    <3>1. freeAttrRecs(service) = BlocksOf(service)
      BY <1>3, NoServiceBlocks DEF ServicesOK, freeAttrRecs
    <3> QED
      BY <1>4, <3>1, OwnersAre DEF Frees
  <2>2. BlocksOf(service') = {} /\ NoService \in Service
    BY <1>4, NoServiceBlocks
  <2>3. Kept' = Kept /\ Statics' = Values(prepared) \cup Array
    BY <1>2, <1>4, <2>2 DEF Kept, Statics
  <2>4. OneOwner'
    BY <1>2, <1>4, <2>1, <2>2, <2>3, OwnersAre DEF OneOwner, Apart
  <2>5. HeapOK'
    BY <1>2, <2>1, OwnersAre DEF HeapOK
  <2>6. ServicesOK' /\ ServicesApart' /\ BuiltInv'
    BY <1>2, <1>3, <1>4, <2>2 DEF ServicesOK, ServicesApart, BuiltInv, NotAgreed
  <2>7. ExtInv'
    BY <1>1, <2>4, <2>5, <2>6, ServicesStep
  <2> QED
    BY <1>4, <2>1, <2>7, FreesIsClean DEF ExtInv
<1>5. CASE \E s \in SUBSET registered :
             /\ registered' = registered \ s
             /\ Frees("GATT_DEL_SERVICE", live, UNION { freeAttrRecs(r) : r \in s })
             /\ UNCHANGED <<service, agreed>>
  <2>1. PICK s \in SUBSET registered :
             /\ registered' = registered \ s
             /\ Frees("GATT_DEL_SERVICE", live, UNION { freeAttrRecs(r) : r \in s })
             /\ UNCHANGED <<service, agreed>>
    BY <1>5
  <2>2. \A r \in s : freeAttrRecs(r) = BlocksOf(r)
    BY <1>3 DEF ServicesOK, freeAttrRecs
  <2>3. UNION { freeAttrRecs(r) : r \in s } = BlocksOfAll(s)
    <3>1. \A b : b \in UNION { freeAttrRecs(r) : r \in s } <=> \E r \in s : b \in freeAttrRecs(r)
      OBVIOUS
    <3>2. \A b : b \in BlocksOfAll(s) <=> \E r \in s : b \in BlocksOf(r)
      BY BlocksOfAllDef
    <3> QED
      BY <2>2, <3>1, <3>2
  <2>4. PICK G : G = BlocksOfAll(s)
    OBVIOUS
  <2>5. BlocksOfAll(registered \ s) = BlocksOfAll(registered) \ G
    <3>1. \A b : b \in BlocksOfAll(registered \ s) <=> \E r \in registered \ s : b \in BlocksOf(r)
      BY BlocksOfAllDef
    <3>2. \A b : b \in BlocksOfAll(registered) <=> \E r \in registered : b \in BlocksOf(r)
      BY BlocksOfAllDef
    <3>3. \A b : b \in G <=> \E r \in s : b \in BlocksOf(r)
      BY <2>4, BlocksOfAllDef
    <3>4. \A b : \A r, t \in registered :
            b \in BlocksOf(r) /\ b \in BlocksOf(t) => r = t
      BY <1>3 DEF ServicesApart, Apart
    <3>5. \A b : b \in BlocksOfAll(registered \ s) => b \in BlocksOfAll(registered) \ G
      <4> SUFFICES ASSUME NEW b, b \in BlocksOfAll(registered \ s)
                   PROVE  b \in BlocksOfAll(registered) /\ b \notin G
        OBVIOUS
      <4>1. PICK r \in registered \ s : b \in BlocksOf(r)
        BY <3>1
      <4>2. b \in BlocksOfAll(registered)
        BY <3>2, <4>1
      <4>3. \A t \in s : b \notin BlocksOf(t)
        BY <3>4, <4>1
      <4> QED
        BY <3>3, <4>2, <4>3
    <3>6. \A b : b \in BlocksOfAll(registered) \ G => b \in BlocksOfAll(registered \ s)
      BY <3>1, <3>2, <3>3
    <3> QED
      BY <3>5, <3>6
  <2>6. Apart(tokens, G) /\ G \subseteq BlocksOfAll(registered)
    <3>1. \A b : b \in G <=> \E r \in s : b \in BlocksOf(r)
      BY <2>4, BlocksOfAllDef
    <3>2. \A b : b \in BlocksOfAll(registered) <=> \E r \in registered : b \in BlocksOf(r)
      BY BlocksOfAllDef
    <3>3. \A b : \A r \in registered : b \in BlocksOf(r) => b \notin tokens
      BY <1>3 DEF ServicesApart, Apart
    <3> QED
      BY <3>1, <3>2, <3>3 DEF Apart
  <2>7. Kept' = Kept \ G /\ G \subseteq Kept /\ Statics' = Statics
    BY <1>2, <2>1, <2>5, <2>6 DEF Kept, Statics, Apart
  <2>8. Frees("GATT_DEL_SERVICE", live, G) /\ live' = live \ G
    BY <2>1, <2>3, <2>4 DEF Frees
  <2>9. OneOwner'
    <3>1. live' = stack' \cup Kept' \cup Statics' \cup valueless'
      BY <1>2, <2>7, <2>8, OwnersAre DEF Apart
    <3>2. Apart(stack', Kept' \cup Statics' \cup valueless')
      BY <1>2, <2>7, OwnersAre DEF Apart
    <3>3. Apart(Kept', Statics') /\ Apart(Kept' \cup Statics', valueless')
      BY <1>2, <2>7, OwnersAre DEF Apart
    <3>4. Apart(Values(prepared') \cup Array', BlocksOf(service'))
      BY <1>2, <2>1, OwnersAre DEF Apart
    <3> QED
      BY <3>1, <3>2, <3>3, <3>4 DEF OneOwner
  <2>10. HeapOK'
    BY <1>2, <2>8, OwnersAre DEF HeapOK
  <2>11. ServicesOK' /\ ServicesApart' /\ BuiltInv'
    BY <1>2, <1>3, <2>1 DEF ServicesOK, ServicesApart, BuiltInv
  <2>12. ExtInv'
    BY <1>1, <2>9, <2>10, <2>11, ServicesStep
  <2>13. G \subseteq live
    BY <2>7, OwnersAre
  <2> QED
    BY <2>8, <2>12, <2>13, FreesIsClean DEF ExtInv
<1> QED
  BY <1>4, <1>5 DEF GATT_DEL_SERVICE

----------------------------------------------------------------------------
(* Tokens.                                                                 *)
LEMMA SetTokenStep ==
  ASSUME ExtInv, GAP_SET_ADV_TOKEN
  PROVE  ExtInv' /\ misfreed' = misfreed
<1>1. UNCHANGED <<stack, misfreed, writes, services>>
  BY DEF GAP_SET_ADV_TOKEN
<1>2. UNCHANGED <<service, registered, agreed>>
  BY <1>1 DEF services
<1>3. PICK p \in New, result \in Results :
        LET stat == IF p = 0 THEN "bleMemAllocError" ELSE result
            kept == IF stat = "SUCCESS" THEN {p} ELSE {}
        IN  live' = live \cup kept /\ tokens' = tokens \cup kept
  BY DEF GAP_SET_ADV_TOKEN
<1>4. CASE live' = live /\ tokens' = tokens
  BY <1>1, <1>4, SimpleStep DEF heap
<1>5. CASE p # 0 /\ live' = live \cup {p} /\ tokens' = tokens \cup {p}
  <2>1. p \in Blocks /\ p \notin live
    BY <1>5, NewIsFree DEF New
  <2>2. p \notin stack /\ p \notin Kept /\ p \notin Statics /\ p \notin valueless
    BY <2>1, FreeIsApart
  <2>3. Kept' = Kept \cup {p} /\ Statics' = Statics
    BY <1>1, <1>2, <1>5 DEF Kept, Statics, Array, writes
  <2>4. valueless' = valueless /\ Array' = Array /\ Values(prepared') = Values(prepared)
    BY <1>1 DEF writes, Array
  <2>5. OneOwner'
    BY <1>1, <1>2, <1>5, <2>2, <2>3, <2>4, OwnersAre DEF OneOwner, Apart
  <2>6. HeapOK'
    BY <1>1, <1>5, <2>1, OwnersAre DEF HeapOK
  <2>7. ServicesApart'
    <3>1. \A s \in registered : p \notin BlocksOf(s)
      BY <2>2, RegisteredIsKept
    <3> QED
      BY <1>2, <1>5, <3>1 DEF ExtInv, Owners, ServicesApart, Apart
  <2>8. ServicesOK' /\ BuiltInv'
    BY <1>2 DEF ExtInv, ExtTypeInv, ServicesOK, AnsweredInv, BuiltInv
  <2> QED
    BY <1>1, <2>5, <2>6, <2>7, <2>8, ServicesStep
<1> QED
  <2>1. CASE p # 0 /\ result = "SUCCESS"
    BY <1>3, <1>5, <2>1
  <2>2. CASE ~(p # 0 /\ result = "SUCCESS")
    BY <1>3, <1>4, <2>2
  <2> QED
    BY <2>1, <2>2

(* The token that is removed is freed.                                     *)
LEMMA RemoveTokenStep ==
  ASSUME ExtInv, GAP_REMOVE_ADV_TOKEN
  PROVE  ExtInv' /\ misfreed' = misfreed
<1>1. UNCHANGED <<stack, writes, services>>
  BY DEF GAP_REMOVE_ADV_TOKEN
<1>2. UNCHANGED <<service, registered, agreed>>
  BY <1>1 DEF services
<1>3. CASE UNCHANGED <<heap, tokens>>
  BY <1>1, <1>3, SimpleStep
<1>4. CASE \E p \in tokens : tokens' = tokens \ {p} /\ Frees("GAP_REMOVE_ADV_TOKEN", live, {p})
  <2>1. PICK p \in tokens : /\ tokens' = tokens \ {p} /\ live' = live \ {p}
                            /\ Frees("GAP_REMOVE_ADV_TOKEN", live, {p})
    BY <1>4 DEF Frees
  <2>2. \A s \in registered : Apart(tokens, BlocksOf(s))
    BY DEF ExtInv, Owners, ServicesApart
  <2>3. p \notin BlocksOfAll(registered)
    BY <2>2, BlocksOfAllDef DEF Apart
  <2>4. Kept' = Kept \ {p} /\ p \in Kept /\ Statics' = Statics
    BY <1>1, <1>2, <2>1, <2>3 DEF Kept, Statics, Array, writes
  <2>5. valueless' = valueless /\ Array' = Array /\ Values(prepared') = Values(prepared)
    BY <1>1 DEF writes, Array
  <2>6. OneOwner'
    BY <1>1, <1>2, <2>1, <2>4, <2>5, OwnersAre DEF OneOwner, Apart
  <2>7. HeapOK'
    BY <1>1, <2>1, OwnersAre DEF HeapOK
  <2>8. ServicesApart'
    BY <1>2, <2>1 DEF ExtInv, Owners, ServicesApart, Apart
  <2>9. ServicesOK' /\ BuiltInv'
    BY <1>2 DEF ExtInv, ExtTypeInv, ServicesOK, AnsweredInv, BuiltInv
  <2>10. ExtInv'
    BY <1>1, <2>6, <2>7, <2>8, <2>9, ServicesStep
  <2>11. {p} \subseteq live
    BY <2>4, OwnersAre
  <2> QED
    BY <2>1, <2>10, <2>11, FreesIsClean DEF ExtInv
<1> QED
  BY <1>3, <1>4 DEF GAP_REMOVE_ADV_TOKEN

(* The same of a state to come.                                            *)
LEMMA ExtInvBoot == ExtInit' => ExtInv'
BY ExtInvInit, PTL

(* Until somebody misfrees, every block has its owner; who does, is one of *)
(* the two, and that stays so until the device starts again.               *)
HeapInv == (ExtInv /\ misfreed = "none") \/ Misfreed

(* A device that starts again has nothing allocated.                       *)
LEMMA ForceBootStep ==
  ASSUME UTIL_FORCE_BOOT
  PROVE  (ExtInv' /\ misfreed' = "none") \/ UNCHANGED <<heap, writes, services, tokens>>
<1>1. CASE ~ UNCHANGED <<heap, writes, services, tokens>>
  <2>1. ExtInit'
    BY <1>1 DEF UTIL_FORCE_BOOT, ExtInit
  <2> QED
    BY <2>1, ExtInvBoot DEF ExtInit
<1> QED
  BY <1>1

----------------------------------------------------------------------------
(* A step as long as nobody has misfreed.                                  *)
LEMMA CleanStep ==
  ASSUME ExtInv, misfreed = "none", [ExtNext]_extVars
  PROVE  HeapInv'
<1>1. ASSUME ExtInv' /\ misfreed' = misfreed PROVE HeapInv'
  BY <1>1 DEF HeapInv
<1>2. ASSUME Misfreed' PROVE HeapInv'
  BY <1>2 DEF HeapInv
<1>3. ASSUME UNCHANGED <<heap, writes, services, tokens>> PROVE HeapInv'
  BY <1>1, <1>3, SimpleStep
<1>4. ASSUME NEW kind, NEW wrong, NEW results, Simple(kind, wrong, results) PROVE HeapInv'
  <2>1. UNCHANGED <<heap, writes, services, tokens>>
    BY <1>4 DEF Simple
  <2> QED
    BY <1>3, <2>1
<1>5. ASSUME NEW kind, Sends(kind) PROVE HeapInv'
  BY <1>1, <1>5, SendsStep
<1>6. CASE UTIL_FORCE_BOOT
  BY <1>1, <1>3, <1>6, ForceBootStep
<1>7. CASE processExtMsgUTIL
  BY <1>4, <1>6, <1>7 DEF processExtMsgUTIL
<1>8. CASE processExtMsgL2CAP
  BY <1>1, <1>2, <1>4, <1>8, L2capDataStep DEF processExtMsgL2CAP
<1>9. CASE processExtMsgATT
  BY <1>1, <1>4, <1>5, <1>9, PrepareStep, ExecuteStep DEF processExtMsgATT
<1>10. CASE processExtMsgGATT
  BY <1>1, <1>2, <1>4, <1>5, <1>10, ReliableWritesStep, AddServiceStep, AddAttributeStep,
     DelServiceStep DEF processExtMsgGATT
<1>11. CASE processExtMsgGAP
  BY <1>1, <1>4, <1>11, SetTokenStep, RemoveTokenStep DEF processExtMsgGAP
<1>12. CASE NoSuchCommand
  BY <1>3, <1>12 DEF NoSuchCommand
<1>13. CASE StackFrees
  BY <1>1, <1>13, StackFreesStep
<1>14. CASE UNCHANGED extVars
  <2>1. UNCHANGED <<heap, writes, services, tokens>>
    BY <1>14 DEF extVars
  <2> QED
    BY <1>3, <2>1
<1> QED
  BY <1>7, <1>8, <1>9, <1>10, <1>11, <1>12, <1>13, <1>14 DEF ExtNext

(* Who has misfreed is not forgotten.                                      *)
LEMMA FreesKeeps ==
  ASSUME Misfreed, NEW what, NEW had, NEW freed, Frees(what, had, freed)
  PROVE  Misfreed'
BY DEF Frees, Misfrees, Misfreed

(* A step after somebody has.                                              *)
LEMMA MisfreedStep ==
  ASSUME Misfreed, [ExtNext]_extVars
  PROVE  HeapInv'
<1>1. ASSUME Misfreed' PROVE HeapInv'
  BY <1>1 DEF HeapInv
<1>2. ASSUME UNCHANGED misfreed PROVE HeapInv'
  BY <1>1, <1>2 DEF Misfreed
<1>3. ASSUME UNCHANGED heap PROVE HeapInv'
  BY <1>2, <1>3 DEF heap
<1>4. ASSUME NEW what, NEW had, NEW freed, Frees(what, had, freed) PROVE HeapInv'
  BY <1>1, <1>4, FreesKeeps
<1>5. ASSUME NEW what, Misfrees(what) PROVE HeapInv'
  BY <1>1, <1>5 DEF Misfrees, Misfreed
<1>6. ASSUME NEW kind, NEW wrong, NEW results, Simple(kind, wrong, results) PROVE HeapInv'
  <2>1. UNCHANGED heap
    BY <1>6 DEF Simple
  <2> QED
    BY <1>3, <2>1
<1>7. ASSUME NEW kind, Sends(kind) PROVE HeapInv'
  <2>1. \E what, had, freed : Frees(what, had, freed)
    BY <1>7 DEF Sends
  <2> QED
    BY <1>4, <2>1
<1>8. ASSUME NEW cmd, NEW s, NEW known, NEW used, Adds(cmd, s, known, used) PROVE HeapInv'
  <2>1. \E what, had, freed : Frees(what, had, freed)
    BY <1>8 DEF Adds
  <2> QED
    BY <1>4, <2>1
<1>9. CASE processExtMsgUTIL
  <2>1. CASE UTIL_FORCE_BOOT
    BY <1>3, <2>1, ForceBootStep DEF HeapInv
  <2> QED
    BY <1>6, <1>9, <2>1 DEF processExtMsgUTIL
<1>10. CASE processExtMsgL2CAP
  <2>1. CASE L2CAP_DATA
    BY <1>2, <1>3, <1>5, <2>1 DEF L2CAP_DATA
  <2> QED
    BY <1>6, <1>10, <2>1 DEF processExtMsgL2CAP
<1>11. CASE processExtMsgATT
  <2>1. CASE ATT_PREPARE_WRITE_REQ
    <3>1. UNCHANGED heap \/ UNCHANGED misfreed
      BY <2>1 DEF ATT_PREPARE_WRITE_REQ, NotPrepared
    <3> QED
      BY <1>2, <1>3, <3>1
  <2>2. CASE ATT_EXECUTE_WRITE_REQ
    <3>1. \/ UNCHANGED heap \/ UNCHANGED misfreed
          \/ \E what, had, freed : Frees(what, had, freed)
      BY <2>2 DEF ATT_EXECUTE_WRITE_REQ
    <3> QED
      BY <1>2, <1>3, <1>4, <3>1
  <2> QED
    BY <1>6, <1>7, <1>11, <2>1, <2>2 DEF processExtMsgATT
<1>12. CASE processExtMsgGATT
  <2>1. CASE GATT_RELIABLE_WRITES
    <3>1. \/ UNCHANGED heap \/ UNCHANGED misfreed
          \/ \E what : Misfrees(what)
          \/ \E what, had, freed : Frees(what, had, freed)
      BY <2>1 DEF GATT_RELIABLE_WRITES
    <3> QED
      BY <1>2, <1>3, <1>4, <1>5, <3>1
  <2>2. CASE GATT_ADD_SERVICE
    BY <1>3, <1>8, <2>2 DEF GATT_ADD_SERVICE
  <2>3. CASE GATT_ADD_ATTRIBUTE
    BY <1>3, <1>8, <2>3 DEF GATT_ADD_ATTRIBUTE
  <2>4. CASE GATT_DEL_SERVICE
    <3>1. \E what, had, freed : Frees(what, had, freed)
      BY <2>4 DEF GATT_DEL_SERVICE
    <3> QED
      BY <1>4, <3>1
  <2> QED
    BY <1>6, <1>7, <1>12, <2>1, <2>2, <2>3, <2>4 DEF processExtMsgGATT
<1>13. CASE processExtMsgGAP
  <2>1. CASE GAP_SET_ADV_TOKEN
    BY <1>2, <2>1 DEF GAP_SET_ADV_TOKEN
  <2>2. CASE GAP_REMOVE_ADV_TOKEN
    BY <1>3, <1>4, <2>2 DEF GAP_REMOVE_ADV_TOKEN
  <2> QED
    BY <1>6, <1>13, <2>1, <2>2 DEF processExtMsgGAP
<1>14. CASE NoSuchCommand
  BY <1>3, <1>14 DEF NoSuchCommand
<1>15. CASE StackFrees
  BY <1>4, <1>15 DEF StackFrees
<1>16. CASE UNCHANGED extVars
  BY <1>3, <1>16 DEF extVars
<1> QED
  BY <1>9, <1>10, <1>11, <1>12, <1>13, <1>14, <1>15, <1>16 DEF ExtNext

(* The inductive invariant of the network processor.                       *)
THEOREM ExtInvariant == ExtSpec => []HeapInv
<1>1. ExtInit => HeapInv
  BY ExtInvInit DEF HeapInv, ExtInit
<1>2. HeapInv /\ [ExtNext]_extVars => HeapInv'
  BY CleanStep, MisfreedStep DEF HeapInv
<1> QED
  BY <1>1, <1>2, PTL DEF ExtSpec

(* However the commands of the host come, and whichever allocations fail:  *)
(* until one of the two commands that do so frees what is not its own, a   *)
(* block that is allocated between two commands is the stack's, a prepared *)
(* write's, the service's that is being built, or one of those lost with a *)
(* write without a value, and it is so in one place only.                  *)
THEOREM BlocksHaveOneOwnerInvariant == ExtSpec => []BlocksHaveOneOwner
<1>1. HeapInv => BlocksHaveOneOwner
  BY DEF HeapInv, Misfreed, ExtInv, Owners, BlocksHaveOneOwner
<1> QED
  BY <1>1, ExtInvariant, PTL

(* No other command, and never the stack, is first to free what is not     *)
(* allocated or has an owner still.                                        *)
THEOREM OnlyTheseMisfreeInvariant == ExtSpec => []OnlyTheseMisfree
<1>1. HeapInv => OnlyTheseMisfree
  BY DEF HeapInv, Misfreed, OnlyTheseMisfree
<1> QED
  BY <1>1, ExtInvariant, PTL

(* The writes that wait, and the service being built, are what the host    *)
(* was told they are, whatever failed in between, until somebody misfrees. *)
THEOREM KeptAsAnsweredInvariant == ExtSpec => []KeptAsAnswered
<1>1. HeapInv => KeptAsAnswered
  BY DEF HeapInv, Misfreed, ExtInv, AnsweredInv, BuiltInv, KeptAsAnswered, BuiltAsAnswered
<1> QED
  BY <1>1, ExtInvariant, PTL

----------------------------------------------------------------------------
(* What is said of the answer needs nothing of the state before.           *)
LEMMA AnswerOf ==
  ASSUME NEW stat, Answers(stat)
  PROVE  answer'.stale = "none"
BY DEF Answers

(* The actions that answer with a status alone.                            *)
LEMMA OwnAnswers ==
  ASSUME \/ ATT_PREPARE_WRITE_REQ \/ ATT_EXECUTE_WRITE_REQ
         \/ GATT_DEL_SERVICE \/ GAP_SET_ADV_TOKEN \/ GAP_REMOVE_ADV_TOKEN
         \/ UTIL_FORCE_BOOT \/ NoSuchCommand \/ L2CAP_DATA \/ GATT_RELIABLE_WRITES
         \/ \E kind : Sends(kind)
  PROVE  answer'.stale = "none"
<1>1. ASSUME \E stat : Answers(stat)
      PROVE  answer'.stale = "none"
  BY <1>1, AnswerOf
<1>2. CASE ATT_PREPARE_WRITE_REQ
  <2>1. \E stat : Answers(stat)
    BY <1>2 DEF ATT_PREPARE_WRITE_REQ, NotPrepared
  <2> QED
    BY <1>1, <2>1
<1>3. CASE ATT_EXECUTE_WRITE_REQ
  <2>1. \E stat : Answers(stat)
    BY <1>3 DEF ATT_EXECUTE_WRITE_REQ
  <2> QED
    BY <1>1, <2>1
<1>4. CASE GATT_DEL_SERVICE
  BY <1>4, AnswerOf DEF GATT_DEL_SERVICE
<1>5. CASE GAP_SET_ADV_TOKEN
  <2>1. \E stat : Answers(stat)
    BY <1>5 DEF GAP_SET_ADV_TOKEN
  <2> QED
    BY <1>1, <2>1
<1>6. CASE GAP_REMOVE_ADV_TOKEN
  BY <1>1, <1>6 DEF GAP_REMOVE_ADV_TOKEN
<1>7. CASE UTIL_FORCE_BOOT
  BY <1>7, AnswerOf DEF UTIL_FORCE_BOOT, NoAnswer
<1>8. CASE NoSuchCommand
  BY <1>8, AnswerOf DEF NoSuchCommand
<1>9. CASE L2CAP_DATA
  BY <1>9, AnswerOf DEF L2CAP_DATA
<1>10. CASE GATT_RELIABLE_WRITES
  <2>1. \E stat : Answers(stat)
    BY <1>10 DEF GATT_RELIABLE_WRITES
  <2> QED
    BY <1>1, <2>1
<1>11. CASE \E kind : Sends(kind)
  <2>1. \E stat : Answers(stat)
    BY <1>11 DEF Sends
  <2> QED
    BY <1>1, <2>1
<1> QED
  BY <1>2, <1>3, <1>4, <1>5, <1>6, <1>7, <1>8, <1>9, <1>10, <1>11

(* A record that is added is answered with its handles, or nothing.        *)
LEMMA AddsAnswers ==
  ASSUME NEW cmd, NEW s, NEW known, NEW used, Adds(cmd, s, known, used)
  PROVE  answer'.stale = "none"
<1>1. PICK o \in addAttrRec(s, known, used) :
        LET done == o.made # {} /\ o.stat = "SUCCESS"
        IN  AnswersWith(cmd, [stat |-> o.stat, len |-> IF done THEN 4 ELSE 0, written |-> done])
  BY DEF Adds
<1>2. PICK done \in BOOLEAN :
        AnswersWith(cmd, [stat |-> o.stat, len |-> IF done THEN 4 ELSE 0, written |-> done])
  BY <1>1
<1> QED
  BY <1>2 DEF AnswersWith

(* Commands that build services answer with what they wrote.               *)
LEMMA ServiceAnswers ==
  ASSUME GATT_ADD_SERVICE \/ GATT_ADD_ATTRIBUTE
  PROVE  answer'.stale = "none"
<1>1. CASE GATT_ADD_SERVICE
  BY <1>1, AnswerOf, AddsAnswers DEF GATT_ADD_SERVICE
<1>2. CASE GATT_ADD_ATTRIBUTE
  BY <1>2, AnswerOf, AddsAnswers DEF GATT_ADD_ATTRIBUTE
<1> QED
  BY <1>1, <1>2

(* Every command but a parameter of the bond manager writes what it sends. *)
LEMMA SimpleIsFresh ==
  ASSUME NEW kind, NEW wrong, NEW results, Simple(kind, wrong, results)
  PROVE  answer'.stale \in {"none", "bond"}
<1>1. PICK o \in CommandOutcomes(wrong, results)[kind] :
        AnswersWith(kind, [o EXCEPT !.stat = mapATT2BLEStatus(@)])
  BY DEF Simple
<1>2. kind \in {"call", "exact", "parsed", "ranged", "param", "get", "bytes", "list",
                "info", "bond"}
  BY DEF Simple, CommandOutcomes
<1>3. ASSUME NEW stats, NEW n \in Nat, o \in Status(stats) \/ o \in WithBytes(stats, n)
      PROVE  answer'.stale = "none"
  <2>1. PICK s, len, written : /\ o = [stat |-> s, len |-> len, written |-> written]
                               /\ len = 0 \/ written = TRUE
    <3>1. CASE o \in Status(stats)
      <4>1. PICK s \in stats : o = [stat |-> s, len |-> 0, written |-> FALSE]
        BY <3>1 DEF Status
      <4> QED
        BY <4>1
    <3>2. CASE o \in WithBytes(stats, n)
      <4>1. PICK s \in stats : o = [stat |-> s, len |-> n, written |-> TRUE]
        BY <3>2 DEF WithBytes
      <4> QED
        BY <4>1
    <3> QED
      BY <1>3, <3>1, <3>2
  <2>2. [o EXCEPT !.stat = mapATT2BLEStatus(@)]
          = [stat |-> mapATT2BLEStatus(s), len |-> len, written |-> written]
    BY <2>1
  <2> QED
    BY <1>1, <2>1, <2>2 DEF AnswersWith
<1>4. CASE kind = "bond"
  BY <1>1, <1>4 DEF AnswersWith
<1>5. CASE kind # "bond"
  <2>1. CommandOutcomes(wrong, results)[kind]
          \in {Status(results), Status(results \cup {wrong}), Ranged(wrong, results),
               SetParam(results), GetParam, PsmInfo(wrong, results),
               PsmChannels(wrong, results), BuildRev}
    BY <1>2, <1>5 DEF CommandOutcomes
  <2>2. \E stats : \E n \in Nat : o \in Status(stats) \/ o \in WithBytes(stats, n)
    <3>1. ASSUME NEW stats, o \in Status(stats)
          PROVE  \E st : \E n \in Nat : o \in Status(st) \/ o \in WithBytes(st, n)
      BY <3>1
    <3>2. ASSUME NEW stats, NEW n \in Nat, o \in WithBytes(stats, n)
          PROVE  \E st : \E m \in Nat : o \in Status(st) \/ o \in WithBytes(st, m)
      BY <3>2
    <3>3. /\ o \in PsmInfo(wrong, results)
               => o \in Status((results \ {"SUCCESS"}) \cup {wrong}) \/ o \in WithBytes({"SUCCESS"}, 10)
          /\ o \in PsmChannels(wrong, results)
               => o \in Status(results \cup {wrong, "bleMemAllocError"}) \/ o \in WithBytes({"SUCCESS"}, 2)
          /\ o \in GetParam => o \in WithBytes({"SUCCESS", "INVALIDPARAMETER"}, 2)
          /\ o \in BuildRev => o \in WithBytes({"SUCCESS"}, 10)
          /\ o \in Ranged(wrong, results) => o \in Status(results \cup {wrong, "INVALIDPARAMETER"})
          /\ o \in SetParam(results) => o \in Status(results \cup {"INVALIDPARAMETER"})
      BY DEF Ranged, SetParam, GetParam, PsmInfo, PsmChannels, BuildRev
    <3> QED
      BY <1>1, <2>1, <3>1, <3>2, <3>3
  <2> QED
    BY <1>3, <2>2
<1> QED
  BY <1>4, <1>5

(* At first nothing has been answered.                                     *)
LEMMA AnswersInit == ExtInit => AnswersAreFresh
BY DEF ExtInit, NoAnswer, AnswersAreFresh

(* Every step answers as claimed.                                          *)
LEMMA AnswersStep == AnswersAreFresh /\ [ExtNext]_extVars => AnswersAreFresh'
<1> SUFFICES ASSUME AnswersAreFresh, [ExtNext]_extVars PROVE AnswersAreFresh'
  OBVIOUS
<1>1. ASSUME answer'.stale \in {"none", "bond"} PROVE AnswersAreFresh'
  BY <1>1 DEF AnswersAreFresh
<1>2. ASSUME NEW kind, NEW wrong, NEW results, Simple(kind, wrong, results)
      PROVE  AnswersAreFresh'
  BY <1>1, <1>2, SimpleIsFresh
<1>3. ASSUME answer' = answer PROVE AnswersAreFresh'
  BY <1>3 DEF AnswersAreFresh
<1>4. CASE processExtMsgUTIL
  BY <1>1, <1>2, <1>4, OwnAnswers DEF processExtMsgUTIL
<1>5. CASE processExtMsgL2CAP
  BY <1>1, <1>2, <1>5, OwnAnswers DEF processExtMsgL2CAP
<1>6. CASE processExtMsgATT
  BY <1>1, <1>2, <1>6, OwnAnswers DEF processExtMsgATT
<1>7. CASE processExtMsgGATT
  BY <1>1, <1>2, <1>7, OwnAnswers, ServiceAnswers DEF processExtMsgGATT
<1>8. CASE processExtMsgGAP
  BY <1>1, <1>2, <1>8, OwnAnswers DEF processExtMsgGAP
<1>9. CASE NoSuchCommand
  BY <1>1, <1>9, OwnAnswers
<1>10. CASE StackFrees \/ UNCHANGED extVars
  BY <1>3, <1>10 DEF StackFrees, extVars
<1> QED
  BY <1>4, <1>5, <1>6, <1>7, <1>8, <1>9, <1>10 DEF ExtNext

(* Of all commands, only the one that asks for a parameter of the bond     *)
(* manager sends bytes that it did not write.                              *)
THEOREM AnswersAreFreshInvariant == ExtSpec => []AnswersAreFresh
BY AnswersInit, AnswersStep, PTL DEF ExtSpec
=============================================================================

------------------------------ MODULE HostView ------------------------------
(***************************************************************************)
(* What the host on the UART comes to know: the answers of the command     *)
(* task to its lines (cmd.c), and what the application task tells it       *)
(* unasked, the state of the BLE connection and parameters changed over    *)
(* BLE (MB2640A.c, Cmd_onValueChanged).  Both write through cmdTxSem,      *)
(* which serves waiting tasks in order; the receive task holds it while    *)
(* the port sleeps.  What goes through cmd_write waits for ever, what goes *)
(* through Log_printf and Log_writeStr gives up after 50 ms.               *)
(*                                                                         *)
(* Both tasks have the same priority: between reading a parameter and      *)
(* taking a place in the queue for cmdTxSem the other does not run.  A     *)
(* save is one step, which fails if a parameter is not legal, or if flash  *)
(* does; CustNV has its steps.  A BLE write that falls into one is taken   *)
(* to come after it.  That the tasks wake up for their messages is in      *)
(* AttRsp and CmdChannel, what the receive task does in CmdLink.           *)
(***************************************************************************)
EXTENDS AtCommand, SequencesExt

CONSTANTS
  Param,       \* parameters in use
  HostLines,   \* the lines the host may send
  BlePins,     \* PINs written over BLE
  BleParas,    \* values written to the parameter characteristic
  MaxAsked,    \* bound on the lines sent
  MaxMsgs,     \* bound on the application task's own queue
  MaxMishaps   \* bound on allocations and flash writes that fail

ASSUME ParamAssumption == Param \subseteq AllParam /\ "pin" \in Param
ASSUME LinesAssumption ==
  /\ HostLines \subseteq Line
  /\ \A l \in HostLines :
       LET plan == PlanFor(l)
       IN  /\ plan.do \in {"get", "set"} => plan.p \in Param
           /\ plan.do = "set" => plan.raw \in IF plan.p = "pin" THEN Pin ELSE Int
ASSUME BleAssumption ==
  /\ BlePins \subseteq DigitPin
  /\ \A b \in BleParas : \A p \in Param \ {"pin"} : b[p] \in Legal(p)
ASSUME BoundsAssumption == {MaxAsked, MaxMsgs, MaxMishaps} \subseteq Nat

VARIABLES
  gap,          \* state of the GAP peripheral role
  advert,       \* GAPROLE_ADVERT_ENABLED
  appMsgQueue,  \* the application task's own messages
  custParas,    \* the working copy of the parameters
  reports,      \* parameters Cmd_onValueChanged has yet to write
  lines,        \* numbered lines not yet handled
  asked,        \* number of lines the host has sent
  tx,           \* cmdTxSem: "free", "busy" (a text is sent), "shut" (port asleep)
  sending,      \* that text
  waits,        \* who pends on it, in order
  conn, told,   \* host: the last "+CONN" or -1, and per parameter what it was told
  answers,      \* host: the lines whose answers came, in order
  dropped,      \* history: lines whose answer was given up
  missed,       \* history: parameters whose news the host missed
  connMissed,   \* history: the last news of the connection was lost
  mishaps       \* history: number of failures so far

port == <<tx, sending, waits>>
host == <<conn, told, answers>>
history == <<dropped, missed, connMissed, mishaps>>
vars == <<gap, advert, appMsgQueue, custParas, reports, lines, asked, port, host, history>>

States == {"INIT", "STARTED", "ADVERTISING", "WAITING", "WAITING_AFTER_TIMEOUT", "CONNECTED"}

Text(kind, p, v, n) == [kind |-> kind, p |-> p, v |-> v, n |-> n]
Silence == Text("none", "none", 0, 0)
Unasked == 0

Defaults == [p \in Param |-> Default(p)]

(* What the getter of p answers.                                           *)
CustNV_get(p) == Shown(p, custParas[p])

Init ==
  /\ gap = "INIT" /\ advert = FALSE /\ appMsgQueue = <<>>
  /\ custParas = Defaults /\ reports = {}
  /\ lines = <<>> /\ asked = 0
  /\ tx = "free" /\ sending = Silence /\ waits = <<>>
  /\ conn = -1 /\ told = Defaults /\ answers = <<>>
  /\ dropped = {} /\ missed = Param /\ connMissed = FALSE /\ mishaps = 0

----------------------------------------------------------------------------
(* The port.                                                               *)

(* A task comes to pend on cmdTxSem; with the semaphore it goes on and     *)
(* starts its write, or holds it: the receive task.                        *)
Taken(by) == IF by = "rx" THEN "shut" ELSE "busy"

(* Slip: the task that came last is served first.                          *)
PendsFirst(by, text, log) ==
  IF tx = "free"
  THEN tx' = Taken(by) /\ sending' = text /\ waits' = waits
  ELSE /\ waits' = <<[by |-> by, text |-> text, log |-> log]>> \o waits
       /\ UNCHANGED <<tx, sending>>

(* Slip: Log_writeStr waits for ever.                                      *)
PendsForEver(by, text, log) ==
  IF tx = "free"
  THEN tx' = Taken(by) /\ sending' = text /\ waits' = waits
  ELSE /\ waits' = Append(waits, [by |-> by, text |-> text, log |-> FALSE])
       /\ UNCHANGED <<tx, sending>>

Pends(by, text, log) ==
  IF tx = "free"
  THEN tx' = Taken(by) /\ sending' = text /\ waits' = waits
  ELSE /\ waits' = Append(waits, [by |-> by, text |-> text, log |-> log])
       /\ UNCHANGED <<tx, sending>>

(* The semaphore is posted: the first in the queue has it.                 *)
Post ==
  IF waits = <<>>
  THEN tx' = "free" /\ sending' = Silence /\ waits' = waits
  ELSE LET w == Head(waits)
       IN  tx' = Taken(w.by) /\ sending' = w.text /\ waits' = Tail(waits)

Waiting(by) == \E i \in DOMAIN waits : waits[i].by = by

(* The text has gone out, the host reads it.                               *)
uart_writeCallBack ==
  /\ tx = "busy" /\ Post
  /\ conn' = IF sending.kind = "conn" THEN sending.v ELSE conn
  /\ told' = CASE sending.kind = "restored" -> [p \in Param |-> Shown(p, Default(p))]
               [] sending.kind \in {"value", "set"} -> [told EXCEPT ![sending.p] = sending.v]
               [] OTHER -> told
  /\ answers' = IF sending.n = Unasked THEN answers ELSE Append(answers, sending.n)
  /\ UNCHANGED <<gap, advert, appMsgQueue, custParas, reports, lines, asked, history>>

RxSuspends ==
  /\ tx # "shut" /\ ~Waiting("rx") /\ Pends("rx", Silence, FALSE)
  /\ UNCHANGED <<gap, advert, appMsgQueue, custParas, reports, lines, asked, host, history>>

RxResumes ==
  /\ tx = "shut" /\ Post
  /\ UNCHANGED <<gap, advert, appMsgQueue, custParas, reports, lines, asked, host, history>>

(* A wait of LOG_WRITE_WAIT is over.                                       *)
Log_printf_GivesUp ==
  \E i \in DOMAIN waits :
    LET w == waits[i]
    IN  /\ w.log /\ waits' = RemoveAt(waits, i)
        /\ dropped' = dropped \cup ({w.text.n} \ {Unasked})
        /\ missed' = IF w.text.kind = "value" THEN missed \cup {w.text.p} ELSE missed
        /\ connMissed' = (connMissed \/ w.text.kind = "conn")
        /\ UNCHANGED <<tx, sending, mishaps>>
        /\ UNCHANGED <<gap, advert, appMsgQueue, custParas, reports, lines, asked, host>>

----------------------------------------------------------------------------
(* The application task's messages: SimpleBLEPeripheral_stateChangeCB and  *)
(* charValueChangeCB, in the stack's task.                                 *)

Mishap == mishaps < MaxMishaps /\ mishaps' = mishaps + 1

(* A message on a change of the role's state, or of parameters; without    *)
(* memory it is lost.                                                      *)
SimpleBLEPeripheral_enqueueMsg(event, changed) ==
  \/ /\ Len(appMsgQueue) < MaxMsgs /\ appMsgQueue' = Append(appMsgQueue, event)
     /\ connMissed' = (connMissed /\ event \notin States)
     /\ UNCHANGED <<dropped, missed, mishaps>>
  \/ /\ Mishap /\ UNCHANGED <<appMsgQueue, dropped>>
     /\ missed' = missed \cup changed
     /\ connMissed' = (connMissed \/ event \in States)

(* The GAP role: a task of the application image, of a higher priority     *)
(* (GAPRole_createTask, main.c:101), which follows the stack's events.     *)
RoleBecomes(state) ==
  /\ gap' = state /\ SimpleBLEPeripheral_enqueueMsg(state, {})
  /\ UNCHANGED <<advert, custParas, reports, lines, asked, port, host>>

RoleStarts == gap = "INIT" /\ RoleBecomes("STARTED")

RoleAdvertises ==
  /\ advert /\ gap \in {"STARTED", "WAITING", "WAITING_AFTER_TIMEOUT"}
  /\ RoleBecomes("ADVERTISING")

RoleChanges ==
  \/ gap = "ADVERTISING" /\ RoleBecomes("WAITING")     \* the time to advertise is over
  \/ gap = "ADVERTISING" /\ RoleBecomes("CONNECTED")
  \/ gap = "CONNECTED" /\ RoleBecomes("WAITING")
  \/ gap = "CONNECTED" /\ RoleBecomes("WAITING_AFTER_TIMEOUT")

BleWrites ==
  /\ gap = "CONNECTED"
  /\ \/ \E pin \in BlePins :
          /\ custParas' = [custParas EXCEPT !["pin"] = pin]
          /\ SimpleBLEPeripheral_enqueueMsg("DOORLOCK_PIN", {"pin"})
     \/ \E b \in BleParas :
          /\ custParas' = [p \in Param |-> IF p = "pin" THEN custParas[p] ELSE b[p]]
          /\ SimpleBLEPeripheral_enqueueMsg("DOORLOCK_PARA", Param \ {"pin"})
  /\ UNCHANGED <<gap, advert, reports, lines, asked, port, host>>

----------------------------------------------------------------------------
(* The application task.                                                   *)

AppTakes(event) ==
  /\ reports = {} /\ ~Waiting("app")
  /\ appMsgQueue # <<>> /\ Head(appMsgQueue) = event
  /\ appMsgQueue' = Tail(appMsgQueue)
  /\ UNCHANGED <<gap, custParas, lines, asked, host>>

(* Slip: the scan response is set, and advertising is not enabled.         *)
AppStartsOnly ==
  /\ AppTakes("STARTED") /\ UNCHANGED <<advert, history>>
  /\ UNCHANGED <<reports, port>>

(* GAPROLE_STARTED: the address and the name are put into the scan         *)
(* response, if there is memory for the name, and advertising is enabled,  *)
(* if there is memory for the address.                                     *)
AppStarts ==
  /\ AppTakes("STARTED")
  /\ \/ advert' = TRUE /\ UNCHANGED history
     \/ Mishap /\ UNCHANGED <<advert, dropped, missed, connMissed>>
  /\ UNCHANGED <<reports, port>>

ConnCode(state) ==
  CASE state = "ADVERTISING" -> 1 [] state = "CONNECTED" -> 2 [] state = "WAITING" -> 0

(* Slip: the end of a connection is not reported.                          *)
AppReportsSomeStates ==
  \E state \in {"ADVERTISING", "CONNECTED", "WAITING"} :
    /\ AppTakes(state)
    /\ IF state = "WAITING" THEN UNCHANGED port
       ELSE Pends("app", Text("conn", "none", ConnCode(state), Unasked), TRUE)
    /\ UNCHANGED <<advert, reports, history>>

AppReportsState ==
  \E state \in {"ADVERTISING", "CONNECTED", "WAITING"} :
    /\ AppTakes(state)
    /\ Pends("app", Text("conn", "none", ConnCode(state), Unasked), TRUE)
    /\ UNCHANGED <<advert, reports, history>>

(* GAPROLE_WAITING_AFTER_TIMEOUT: only the held response is freed.         *)
AppSeesTimeout ==
  /\ AppTakes("WAITING_AFTER_TIMEOUT")
  /\ UNCHANGED <<advert, reports, port, history>>

SaveMayPass == \A p \in Param : custParas'[p] \in Legal(p)

ReportsOf(event) == IF event = "DOORLOCK_PIN" THEN {"pin"} ELSE Param \ {"pin"}

(* The order of the writes in Cmd_onValueChanged.                          *)
ReportOrder == <<"pin", "dataMode", "timeZone", "motorMode", "motorDrvTime", "officeMode",
                 "officeTime", "hbInterval">>

(* CustNV_save, and if it passes Cmd_onValueChanged, which needs memory    *)
(* for a PIN.                                                              *)
SimpleBLEPeripheral_processCharValueChangeEvt(event) ==
  /\ AppTakes(event)
  /\ \/ SaveMayPass /\ reports' = ReportsOf(event) /\ UNCHANGED history
     \/ /\ IF SaveMayPass THEN Mishap ELSE UNCHANGED mishaps
        /\ missed' = missed \cup ReportsOf(event)
        /\ UNCHANGED <<reports, dropped, connMissed>>
  /\ UNCHANGED <<advert, port>>

(* One value after the other is read and written.                          *)
Cmd_onValueChanged ==
  /\ ~Waiting("app")
  /\ \E i \in DOMAIN ReportOrder :
       LET p == ReportOrder[i]
       IN  /\ p \in reports /\ \A j \in 1..(i - 1) : ReportOrder[j] \notin reports
           /\ Pends("app", Text("value", p, CustNV_get(p), Unasked), TRUE)
           /\ missed' = missed \ {p} /\ reports' = reports \ {p}
  /\ UNCHANGED <<dropped, connMissed, mishaps>>
  /\ UNCHANGED <<gap, advert, appMsgQueue, custParas, lines, asked, host>>

App ==
  \/ AppStarts \/ AppReportsState \/ AppSeesTimeout \/ Cmd_onValueChanged
  \/ \E event \in {"DOORLOCK_PIN", "DOORLOCK_PARA"} :
       SimpleBLEPeripheral_processCharValueChangeEvt(event)

----------------------------------------------------------------------------
(* The command task.                                                       *)

HostSends ==
  /\ asked < MaxAsked /\ asked' = asked + 1
  /\ \E l \in HostLines : lines' = Append(lines, [n |-> asked', line |-> l])
  /\ UNCHANGED <<gap, advert, appMsgQueue, custParas, reports, port, host, history>>

(* The line in hand, planned to do something of this kind.                 *)
Handles(do) ==
  /\ ~Waiting("cmd") /\ lines # <<>> /\ PlanFor(Head(lines).line).do \in do
  /\ lines' = Tail(lines)
  /\ UNCHANGED <<gap, advert, appMsgQueue, reports, asked, host>>

Reply(kind, p, v, log) == Pends("cmd", Text(kind, p, v, Head(lines).n), log)
Replies(kind) == Reply(kind, "none", 0, FALSE)

CmdSays ==
  /\ Handles({"say", "format"})
  /\ Reply("text", "none", 0, IsLogged(PlanFor(Head(lines).line)))
  /\ UNCHANGED <<custParas, history>>

(* A get: the PIN needs memory.                                            *)
CmdGets ==
  /\ Handles({"get"})
  /\ LET p == PlanFor(Head(lines).line).p
     IN  \/ /\ Reply("value", p, CustNV_get(p), TRUE)
            /\ missed' = missed \ {p} /\ UNCHANGED <<dropped, connMissed, mishaps>>
         \/ /\ p = "pin" /\ Mishap /\ Replies("text")
            /\ UNCHANGED <<dropped, missed, connMissed>>
  /\ UNCHANGED custParas

(* A set: the setter refuses the number, or keeps it and saves.  An OK     *)
(* means what was asked for, if that is in the format.                     *)
CmdSets ==
  /\ Handles({"set"})
  /\ LET plan == PlanFor(Head(lines).line)
         p == plan.p
     IN  \/ /\ ~Accepts(p, plan.raw) \/ (p = "pin" /\ Mishap)
            /\ Replies("text")
            /\ UNCHANGED <<custParas, dropped, missed, connMissed>>
            /\ ~Accepts(p, plan.raw) => UNCHANGED mishaps
         \/ /\ Accepts(p, plan.raw)
            /\ custParas' = [custParas EXCEPT ![p] = Stored(p, plan.raw)]
            /\ \/ /\ SaveMayPass /\ Reply("set", p, plan.raw, FALSE)
                  /\ missed' = IF plan.raw \in Format(p) THEN missed \ {p} ELSE missed \cup {p}
                  /\ UNCHANGED mishaps
               \/ /\ IF SaveMayPass THEN Mishap ELSE UNCHANGED mishaps
                  /\ Replies("text") /\ missed' = missed \cup {p}
            /\ UNCHANGED <<dropped, connMissed>>

(* Slip: a restore that fails is not answered.                             *)
CmdRestoresSilently ==
  /\ Handles({"restore"}) /\ custParas' = Defaults
  /\ \/ Replies("restored") /\ missed' = {} /\ UNCHANGED mishaps
     \/ Mishap /\ missed' = Param /\ UNCHANGED port
  /\ UNCHANGED <<dropped, connMissed>>

CmdRestores ==
  /\ Handles({"restore"}) /\ custParas' = Defaults
  /\ \/ Replies("restored") /\ missed' = {} /\ UNCHANGED mishaps
     \/ Mishap /\ Replies("text") /\ missed' = Param
  /\ UNCHANGED <<dropped, connMissed>>

CmdTask == CmdSays \/ CmdGets \/ CmdSets \/ CmdRestores

----------------------------------------------------------------------------
Next ==
  \/ uart_writeCallBack \/ RxSuspends \/ RxResumes \/ Log_printf_GivesUp
  \/ RoleStarts \/ RoleAdvertises \/ RoleChanges \/ BleWrites
  \/ App \/ HostSends \/ CmdTask

(* The driver ends its writes, waits end, and the application task runs.   *)
(* The host wakes the port up when it pleases.                             *)
Spec ==
  /\ Init /\ [][Next]_vars
  /\ WF_vars(uart_writeCallBack) /\ WF_vars(Log_printf_GivesUp) /\ WF_vars(App)

----------------------------------------------------------------------------
(* Properties.                                                             *)

(* Every variable has its type.                                            *)
TypeOK ==
  /\ gap \in States /\ advert \in BOOLEAN
  /\ custParas \in [Param -> Pin] /\ told \in [Param -> Int]
  /\ tx \in {"free", "busy", "shut"} /\ conn \in -1..2
  /\ asked \in 0..MaxAsked /\ mishaps \in 0..MaxMishaps
  /\ dropped \subseteq 1..asked /\ missed \subseteq Param

(* Nothing is on its way to the host.                                      *)
Quiet == appMsgQueue = <<>> /\ reports = {} /\ waits = <<>> /\ tx # "busy"

(* When nothing is on its way, the host's last "+CONN" (cmd.c:329) is the  *)
(* state of the connection, unless that news was lost or given up.  The    *)
(* code tells nothing of a connection that timed out.                      *)
ConnIsTold ==
  Quiet /\ ~connMissed /\ gap \in {"ADVERTISING", "CONNECTED", "WAITING"}
    => conn = ConnCode(gap)

(* When nothing is on its way, the host knows each parameter's value, be   *)
(* it from an OK, a get or a report (Cmd_onValueChanged), unless news of   *)
(* it was lost, not saved or given up: two tasks tell it, in the order in  *)
(* which they read and changed the values.                                 *)
ParametersAreTold ==
  Quiet => \A p \in Param \ missed : told[p] = CustNV_get(p)

(* Each line is answered once, and answers come in the order of the lines; *)
(* only an answer that Log_printf gave up is missing.                      *)
OneAnswerEach ==
  /\ \A i, j \in DOMAIN answers : i < j => answers[i] < answers[j]
  /\ ToSet(answers) \cap dropped = {}
  /\ Quiet /\ lines = <<>> => ToSet(answers) \cup dropped = 1..asked

(* Advertising is enabled once the role has started, unless memory failed  *)
(* just then (MB2640A.c:856; nothing tries again).                         *)
VisibleOnceStarted == Quiet /\ gap = "STARTED" => advert \/ mishaps > 0

(* A host that sleeps for ever does not hold up the application task.      *)
AppGoesOn == []<>(reports = {} /\ ~Waiting("app"))
=============================================================================

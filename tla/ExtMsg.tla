------------------------------- MODULE ExtMsg -------------------------------
(***************************************************************************)
(* The stack as a network processor: a host on the serial port gives it    *)
(* commands, each of which is handled to its end and answered with one     *)
(* status (processExtMsg and what it calls, bleDispatch.c).                *)
(*                                                                         *)
(* What can go wrong here is who owns which block of memory.  Payloads     *)
(* become the stack's when a call succeeds, writes are kept over several   *)
(* commands until they are executed, a service is built attribute by       *)
(* attribute, and any allocation may fail.  Addresses, values, keys and    *)
(* the counter of signatures are passed on and left out.                   *)
(***************************************************************************)
EXTENDS ExtTables, Integers, Sequences, FiniteSets

CONSTANTS Blocks,       \* positive numbers: the blocks of memory there are
          GATT_MAX_NUM_RELIABLE_WRITES,
          MaxAttrs      \* bound on the attributes of a service

ASSUME ExtMsgAssumption ==
  /\ Blocks \subseteq Nat \ {0} /\ IsFiniteSet(Blocks)
  /\ GATT_MAX_NUM_RELIABLE_WRITES \in Nat \ {0} /\ MaxAttrs \in Nat

VARIABLES live,       \* the blocks that are allocated, as the heap sees it
          stack,      \* those the stack's data points to
          misfreed,   \* history: who was first to free what was not, or no
                      \* longer, its own to free
          tokens,     \* advertising tokens, which the stack may give back
          registered, \* services, which it may give back
          pPrepareWrites, \* the array for the writes to execute, 0 if none
          prepared,   \* the writes in it
          service,    \* the service being built
          answer,     \* the last status, and what command sent bytes with
                      \* it that it did not write
          promised,   \* history: writes answered with success, not executed
          agreed,     \* history: the service the host knows it is building
          valueless   \* history: payloads of prepared writes without a value

heap == <<live, stack, misfreed>>
writes == <<pPrepareWrites, prepared, promised, valueless>>
services == <<service, registered, agreed>>
extVars == <<heap, writes, services, tokens, answer>>

NoService == [attrs |-> 0, recs |-> <<>>, total |-> 0]
NotAgreed == [got |-> 0, total |-> 0]

NoAnswer == [stat |-> "none", stale |-> "none"]

ExtInit ==
  /\ live = {} /\ stack = {} /\ misfreed = "none"
  /\ pPrepareWrites = 0 /\ prepared = <<>> /\ promised = <<>> /\ valueless = {}
  /\ service = NoService /\ registered = {} /\ agreed = NotAgreed
  /\ tokens = {} /\ answer = NoAnswer

----------------------------------------------------------------------------
(* The blocks of a sequence of pointers, and of a service.                 *)
Pointed(s) == { s[i] : i \in DOMAIN s } \ {0}
BlocksOf(s) == (Pointed(s.recs) \cup {s.attrs}) \ {0}

(* What the stack was given and may give back, and what bleDispatch.c keeps *)
(* from one command to the next.                                           *)
BlocksOfAll(given) == UNION { BlocksOf(s) : s \in given }
Kept == tokens \cup BlocksOfAll(registered)

Values(ws) == { ws[i].payload : i \in { i \in DOMAIN ws : ws[i].valued } }
Array == {pPrepareWrites} \ {0}
Statics == Values(prepared) \cup Array \cup BlocksOf(service)

(* What an allocation may return when some blocks are in use: 0 if it      *)
(* fails.  The heap knows what is allocated, not who points to it.         *)
Allocated(used) ==
  {0} \cup { b \in Blocks \ used : \A c \in Blocks \ used : b <= c }

New == Allocated(live)

(* Of the blocks that are allocated, some are freed.  It is wrong to free  *)
(* one that is not allocated, or that somebody still points to when the    *)
(* command is over: then anything may happen to the heap, and what the     *)
(* model does with it from there on is only one possibility.               *)
Misfrees(what) == misfreed' = IF misfreed = "none" THEN what ELSE misfreed

Frees(what, had, freed) ==
  /\ live' = had \ freed
  /\ IF freed \subseteq had /\ freed \cap (stack \cup Kept \cup Statics)' = {}
     THEN UNCHANGED misfreed ELSE Misfrees(what)

(* Answers of the stack's functions: those of GATT give errors of ATT.     *)
Results == {"SUCCESS", "blePending"}
GattResults == Results \cup {"ATT_ERR_INSUFFICIENT_AUTHEN"}

mapATT2BLEStatus(stat) ==
  IF stat = "ATT_ERR_INSUFFICIENT_AUTHEN" THEN "bleInsufficientAuthen" ELSE stat

(* One status for each command, and the bytes that were put after it, if   *)
(* it has a length: whatever is there is sent.                             *)
AnswersWith(what, o) ==
  answer' = [stat |-> o.stat,
             stale |-> IF o.len > 0 /\ ~o.written THEN what ELSE "none"]

Answers(stat) == answer' = [stat |-> stat, stale |-> "none"]

----------------------------------------------------------------------------
(* Commands without memory: how each may end, by its shape.                *)
Status(stats) == { [stat |-> s, len |-> 0, written |-> FALSE] : s \in stats }
WithBytes(stats, n) == { [stat |-> s, len |-> n, written |-> TRUE] : s \in stats }

Ranged(wrong, results) == Status(results \cup {wrong, "INVALIDPARAMETER"})

SetParam(results) == Status(results \cup {"INVALIDPARAMETER"})

GetParam == WithBytes({"SUCCESS", "INVALIDPARAMETER"}, 2)

(* Slip: the length is set before the outcome is known.                    *)
PsmInfoSetFirst(wrong, results) ==
  { [o EXCEPT !.len = 10] : o \in Status(results \ {"SUCCESS"}) }
    \cup Status({wrong}) \cup WithBytes({"SUCCESS"}, 10)

PsmInfo(wrong, results) ==
  Status((results \ {"SUCCESS"}) \cup {wrong}) \cup WithBytes({"SUCCESS"}, 10)

PsmChannels(wrong, results) ==
  Status(results \cup {wrong, "bleMemAllocError"}) \cup WithBytes({"SUCCESS"}, 2)

BuildRev == WithBytes({"SUCCESS"}, 10)

(* The manager of bonds writes no value if it fails.                       *)
BondGetParam(results) ==
  WithBytes({"SUCCESS"}, 1)
    \cup { [o EXCEPT !.len = 1] : o \in Status(results \ {"SUCCESS"}) }

CommandOutcomes(wrong, results) ==
  [call |-> Status(results),
   exact |-> Status(results \cup {wrong}), parsed |-> Status(results \cup {wrong}),
   ranged |-> Ranged(wrong, results),
   param |-> SetParam(results), get |-> GetParam,
   bytes |-> PsmInfo(wrong, results), list |-> PsmChannels(wrong, results),
   info |-> BuildRev, bond |-> BondGetParam(results)]

Kinds(commands) == { r[2] : r \in commands }

Simple(kind, wrong, results) ==
  /\ kind \in DOMAIN CommandOutcomes(wrong, results)
  /\ \E o \in CommandOutcomes(wrong, results)[kind] :
       AnswersWith(kind, [o EXCEPT !.stat = mapATT2BLEStatus(@)])
  /\ UNCHANGED <<heap, writes, services, tokens>>

----------------------------------------------------------------------------
(* Commands with a payload.                                                *)
PayloadKinds == {"payload", "optional", "value"}

(* Slip: the flag is not cleared where the value may be missing.           *)
SafeToDeallocUncleared(kind, stat, valued) == stat # "SUCCESS" \/ kind = "value"

(* Whether the payload is freed at the end of the command.                 *)
SafeToDealloc(kind, stat, valued) ==
  ~(stat = "SUCCESS" /\ (kind = "value" => valued))

(* createMsgPayload copies the parameters to a new block.  The stack keeps *)
(* it if it succeeds and was given a pointer into it.                      *)
Sends(kind) ==
  /\ kind \in PayloadKinds
  /\ UNCHANGED <<writes, services, tokens>>
  /\ \E p \in New, valued \in {kind # "value", TRUE},
        stat \in GattResults \cup {"bleInvalidPDU"} :
       LET kept == {p} \ {0}
           taken == IF stat = "SUCCESS" /\ valued THEN kept ELSE {}
           freed == IF SafeToDealloc(kind, stat, valued) THEN kept ELSE {}
       IN /\ p = 0 /\ kind # "optional" => stat = "bleInvalidPDU"
          /\ stack' = stack \cup taken
          /\ Frees(kind, live \cup kept, freed)
          /\ Answers(mapATT2BLEStatus(stat))

(* Data for a channel of L2CAP: a block of the buffer manager.  If it is   *)
(* not sent, a pointer into it is given to the heap to free.               *)
L2CAP_DATA ==
  /\ \/ Answers("FAILURE") /\ UNCHANGED heap
     \/ Answers("bleMemAllocError") /\ UNCHANGED heap
     \/ \E p \in New \ {0} : /\ live' = live \cup {p} /\ stack' = stack \cup {p}
                            /\ Answers("SUCCESS") /\ UNCHANGED misfreed
     \/ \E p \in New \ {0}, result \in Results \ {"SUCCESS"} :
          /\ live' \in {live, live \cup {p}} /\ UNCHANGED stack
          /\ Misfrees("L2CAP_DATA") /\ Answers(result)
  /\ UNCHANGED <<writes, services, tokens>>

----------------------------------------------------------------------------
(* Prepared writes: kept until they are executed, on whatever connection.  *)

(* Not parsed, or no memory for the payload: what there was is freed.      *)
NotPrepared ==
  /\ Answers("bleInvalidPDU")
  /\ UNCHANGED <<heap, writes>>

ATT_PREPARE_WRITE_REQ ==
  /\ \/ NotPrepared
     \/ \E p \in New \ {0}, valued \in BOOLEAN :
        \E a \in IF pPrepareWrites # 0 THEN {pPrepareWrites}
                 ELSE Allocated(live \cup {p}) :
          /\ pPrepareWrites' = a
          /\ IF a = 0
             THEN Answers("bleMemAllocError") /\ live' = live
             ELSE IF Len(prepared) < GATT_MAX_NUM_RELIABLE_WRITES
             THEN Answers("SUCCESS") /\ live' = live \cup {p} \cup ({a} \ Array)
             ELSE Answers("INVALIDPARAMETER") /\ live' = live \cup ({a} \ Array)
          /\ IF answer'.stat = "SUCCESS"
             THEN /\ prepared' = Append(prepared, [payload |-> p, valued |-> valued])
                  /\ promised' = Append(promised, p)
                  /\ valueless' = valueless \cup { b \in {p} : ~valued }
             ELSE UNCHANGED <<prepared, promised, valueless>>
          /\ UNCHANGED <<stack, misfreed>>
  /\ UNCHANGED <<services, tokens>>

(* Executing them gives them away, or frees them if it fails.              *)
ATT_EXECUTE_WRITE_REQ ==
  /\ UNCHANGED <<services, tokens>>
  /\ \/ /\ Answers("bleInvalidPDU")
        /\ UNCHANGED <<heap, writes>>
     \/ /\ pPrepareWrites = 0
        /\ Answers("INVALIDPARAMETER")
        /\ UNCHANGED <<heap, writes>>
     \/ /\ pPrepareWrites # 0
        /\ pPrepareWrites' = 0 /\ prepared' = <<>>
        /\ promised' = <<>>
        /\ UNCHANGED valueless
        /\ \E result \in GattResults :
             LET given == Values(prepared) \cup {pPrepareWrites}
             IN /\ IF result = "SUCCESS"
                   THEN stack' = stack \cup given /\ UNCHANGED <<live, misfreed>>
                   ELSE /\ UNCHANGED stack
                        /\ Frees("ATT_EXECUTE_WRITE_REQ", live, given)
                /\ Answers(mapATT2BLEStatus(result))

----------------------------------------------------------------------------
(* Several writes in one command, some with a value.                       *)

(* The blocks of the payloads made before the first that cannot be.        *)
Payloads(used, n) ==
  { S \in SUBSET (Blocks \ used) :
      Cardinality(S) <= n /\ \A b \in S, c \in Blocks \ (used \cup S) : b < c }

(* At the end the last payload is freed as those of other commands are,    *)
(* even though it has been handed over, or freed with the others, by then. *)
(* Only if its own allocation failed there is none.                        *)
GATT_RELIABLE_WRITES ==
  /\ UNCHANGED <<writes, services, tokens>>
  /\ \/ /\ \E stat \in {"bleInvalidPDU", "INVALIDPARAMETER", "bleMemAllocError"} :
             Answers(mapATT2BLEStatus(stat))
        /\ UNCHANGED heap
     \/ \E a \in New \ {0}, n \in 0..GATT_MAX_NUM_RELIABLE_WRITES :
        \E ps \in Payloads(live \cup {a}, n), result \in GattResults :
          LET stat == IF Cardinality(ps) < n THEN "bleMemAllocError" ELSE result
              last == { b \in ps : Cardinality(ps) = n /\ \A c \in ps : c <= b }
              made == ps \cup {a}
          IN /\ Answers(mapATT2BLEStatus(stat))
             /\ IF stat = "SUCCESS"
                THEN /\ stack' = stack \cup made
                     /\ Frees("GATT_RELIABLE_WRITES", live \cup made, last)
                ELSE /\ UNCHANGED <<live, stack>>
                     /\ IF last = {} THEN UNCHANGED misfreed
                        ELSE Misfrees("GATT_RELIABLE_WRITES")

----------------------------------------------------------------------------
(* Services built by the host (GATT_DB_OFF_CHIP).                          *)

(* The identifiers of services are in the stack's table; any other is      *)
(* looked up, and copied if it is not there.                               *)
findUUIDRec(known, used) ==
  IF known THEN {[found |-> TRUE, uuid |-> 0]}
  ELSE { [found |-> b # 0, uuid |-> b] : b \in Allocated(used) }

(* Slip: the record is counted though there is no memory for it.           *)
addAttrRecCounted(s, known, used) ==
  UNION { LET more == [s EXCEPT !.recs = Append(@, u.uuid)]
              way == [stat |-> "SUCCESS", serv |-> more, made |-> {}, uuid |-> {u.uuid} \ {0}]
          IN IF ~u.found
             THEN { [way EXCEPT !.stat = "INVALIDPARAMETER"] }
             ELSE IF Len(more.recs) = s.total
             THEN { [way EXCEPT !.stat = r, !.serv = NoService, !.made = {more}] : r \in Results }
             ELSE { way }
          : u \in findUUIDRec(known, used) }

(* The service with one record more, in which ways that may end: it is     *)
(* registered once all its attributes are there.                           *)
addAttrRec(s, known, used) ==
  UNION { LET more == [s EXCEPT !.recs = Append(@, u.uuid)]
              way == [stat |-> "SUCCESS", serv |-> more, made |-> {}, uuid |-> {u.uuid} \ {0}]
          IN IF ~u.found
             THEN { [way EXCEPT !.stat = "INVALIDPARAMETER", !.serv = s] }
             ELSE IF Len(more.recs) = s.total
             THEN { [way EXCEPT !.stat = r, !.serv = NoService, !.made = {more}] : r \in Results }
             ELSE { way }
          : u \in findUUIDRec(known, used) }

(* The blocks freeAttrRecs frees.                                          *)
freeAttrRecs(s) == IF s.attrs = 0 THEN {} ELSE BlocksOf(s)

(* What an attempt to add a record does to memory, of which some is in use *)
(* by then, and its answer.                                                *)
Adds(cmd, s, known, used) ==
  \E o \in addAttrRec(s, known, used) :
    LET done == o.made # {} /\ o.stat = "SUCCESS"
    IN /\ service' = o.serv
       /\ registered' = registered \cup (IF done THEN o.made ELSE {})
       /\ Frees(cmd, used \cup o.uuid,
                IF done THEN {} ELSE UNION { freeAttrRecs(m) : m \in o.made })
       /\ AnswersWith(cmd, [stat |-> o.stat, len |-> IF done THEN 4 ELSE 0,
                            written |-> done])

GATT_ADD_SERVICE ==
  /\ UNCHANGED <<writes, tokens>>
  /\ \/ /\ service.attrs # 0
        /\ Answers("blePending")
        /\ UNCHANGED <<heap, services>>
     \/ /\ service.attrs = 0
        /\ \E stat \in {"bleInvalidPDU", "INVALIDPARAMETER", "bleInvalidRange",
                        "bleMemAllocError"} : Answers(stat)
        /\ UNCHANGED <<heap, services>>
     \/ /\ service.attrs = 0
        /\ UNCHANGED stack
        /\ \E a \in New \ {0}, n \in 1..MaxAttrs :
             /\ Adds("GATT_ADD_SERVICE", [attrs |-> a, recs |-> <<>>, total |-> n],
                     TRUE, live \cup {a})
             /\ agreed' = IF answer'.stat = "SUCCESS" /\ n > 1
                          THEN [got |-> 1, total |-> n] ELSE NotAgreed

(* The host does not know what has become of its service when the last     *)
(* attribute is refused: for want of memory it is still being built.       *)
GATT_ADD_ATTRIBUTE ==
  /\ UNCHANGED <<writes, tokens>>
  /\ \/ /\ service.attrs = 0
        /\ Answers("INVALIDPARAMETER")
        /\ UNCHANGED <<heap, services>>
     \/ /\ service.attrs # 0
        /\ Answers("bleInvalidPDU")
        /\ UNCHANGED <<heap, services>>
     \/ /\ service.attrs # 0
        /\ UNCHANGED stack
        /\ \E known \in BOOLEAN : Adds("GATT_ADD_ATTRIBUTE", service, known, live)
        /\ agreed' = IF agreed = NotAgreed \/ agreed.got + 1 = agreed.total THEN NotAgreed
                     ELSE IF answer'.stat = "SUCCESS" THEN [agreed EXCEPT !.got = @ + 1]
                     ELSE agreed

(* The service being built, or a registered one; SUCCESS in any case.      *)
GATT_DEL_SERVICE ==
  /\ UNCHANGED <<stack, writes, tokens>>
  /\ \/ /\ service' = NoService /\ agreed' = NotAgreed
        /\ UNCHANGED registered
        /\ Frees("GATT_DEL_SERVICE", live, freeAttrRecs(service))
     \/ \E s \in SUBSET registered :
          /\ Cardinality(s) <= 1
          /\ registered' = registered \ s
          /\ UNCHANGED <<service, agreed>>
          /\ Frees("GATT_DEL_SERVICE", live, UNION { freeAttrRecs(r) : r \in s })
  /\ Answers("SUCCESS")

----------------------------------------------------------------------------
(* Advertising tokens: the stack keeps one it accepts, and gives it back.  *)
GAP_SET_ADV_TOKEN ==
  /\ \E p \in New, result \in Results :
       LET stat == IF p = 0 THEN "bleMemAllocError" ELSE result
           kept == IF stat = "SUCCESS" THEN {p} ELSE {}
       IN /\ live' = live \cup kept /\ tokens' = tokens \cup kept
          /\ Answers(stat)
  /\ UNCHANGED <<stack, misfreed, writes, services>>

(* Slip: the token is not freed.                                           *)
GAP_REMOVE_ADV_TOKEN_Kept ==
  /\ UNCHANGED <<stack, writes, services>>
  /\ \/ Answers("INVALIDPARAMETER") /\ UNCHANGED <<heap, tokens>>
     \/ \E p \in tokens : /\ tokens' = tokens \ {p} /\ UNCHANGED heap
                          /\ Answers("SUCCESS")

GAP_REMOVE_ADV_TOKEN ==
  /\ UNCHANGED <<stack, writes, services>>
  /\ \/ Answers("INVALIDPARAMETER") /\ UNCHANGED <<heap, tokens>>
     \/ \E p \in tokens : /\ tokens' = tokens \ {p}
                          /\ Frees("GAP_REMOVE_ADV_TOKEN", live, {p})
                          /\ Answers("SUCCESS")

----------------------------------------------------------------------------
(* Without a boot loader the device does not start again.                  *)
UTIL_FORCE_BOOT ==
  \/ /\ live' = {} /\ stack' = {} /\ misfreed' = "none"
     /\ pPrepareWrites' = 0 /\ prepared' = <<>> /\ promised' = <<>> /\ valueless' = {}
     /\ service' = NoService /\ registered' = {} /\ agreed' = NotAgreed
     /\ tokens' = {} /\ answer' = NoAnswer
  \/ /\ Answers("INVALIDPARAMETER")
     /\ UNCHANGED <<heap, writes, services, tokens>>

processExtMsgUTIL ==
  \/ \E kind \in Kinds(UtilCommands) : Simple(kind, "INVALIDPARAMETER", Results)
  \/ UTIL_FORCE_BOOT

processExtMsgL2CAP ==
  \/ \E kind \in Kinds(L2capPsmCommands \cup L2capChannelCommands) :
       Simple(kind, "FAILURE", Results)
  \/ L2CAP_DATA

processExtMsgATT ==
  \/ \E kind \in Kinds(AttFinds \cup AttReads \cup AttWrites \cup AttExecutes) :
       Simple(kind, "bleInvalidPDU", GattResults) \/ Sends(kind)
  \/ ATT_PREPARE_WRITE_REQ \/ ATT_EXECUTE_WRITE_REQ

processExtMsgGATT ==
  \/ \E kind \in Kinds(GattFinds \cup GattWrites \cup GattDescriptors) :
       Simple(kind, "bleInvalidPDU", GattResults) \/ Sends(kind)
  \/ GATT_RELIABLE_WRITES
  \/ GATT_ADD_SERVICE \/ GATT_ADD_ATTRIBUTE \/ GATT_DEL_SERVICE

processExtMsgGAP ==
  \/ \E kind \in Kinds(GapDeviceCommands \cup GapSecurityCommands \cup GapParamCommands
               \cup GapBondCommands) : Simple(kind, "INVALIDPARAMETER", Results)
  \/ GAP_SET_ADV_TOKEN \/ GAP_REMOVE_ADV_TOKEN

(* Commands that are not there, or not in this build.                      *)
NoSuchCommand ==
  /\ Answers("FAILURE")
  /\ UNCHANGED <<heap, writes, services, tokens>>

(* The stack has no more use for a block, and frees it.                    *)
StackFrees ==
  /\ UNCHANGED <<writes, services, tokens, answer>>
  /\ \E b \in stack : stack' = stack \ {b} /\ Frees("stack", live, {b})

ExtNext ==
  \/ processExtMsgUTIL \/ processExtMsgL2CAP \/ processExtMsgATT
  \/ processExtMsgGATT \/ processExtMsgGAP \/ NoSuchCommand
  \/ StackFrees

ExtSpec == ExtInit /\ [][ExtNext]_extVars

----------------------------------------------------------------------------
Apart(S, T) == S \cap T = {}

OneOwner ==
  /\ live = stack \cup Kept \cup Statics \cup valueless
  /\ Apart(stack, Kept \cup Statics \cup valueless)
  /\ Apart(Kept, Statics) /\ Apart(Kept \cup Statics, valueless)
  /\ Apart(Values(prepared) \cup Array, BlocksOf(service))

ServicesApart ==
  \A s \in registered :
    /\ Apart(tokens, BlocksOf(s))
    /\ \A t \in registered : s # t => Apart(BlocksOf(s), BlocksOf(t))

PreparedApart ==
  /\ Apart(Values(prepared), Array)
  /\ \A i, j \in DOMAIN prepared : i # j => prepared[i].payload # prepared[j].payload

(* As long as nobody has freed what was not its own to free: between       *)
(* commands, a block that is allocated is the stack's, or of the writes or *)
(* the service kept from command to command, and it is of only one of      *)
(* them, in one place; and what any of them points to is allocated.  Lost  *)
(* for ever are only the payloads of prepared writes that have no value    *)
(* (bleDispatch.c:2952, 3009): the code knows a payload by its value.      *)
BlocksHaveOneOwner ==
  misfreed = "none" => OneOwner /\ ServicesApart /\ PreparedApart

(* The first to free a block that is not allocated, or that has an owner   *)
(* still, is one of two commands (bleDispatch.c:3562, 2374), never a third *)
(* and never the stack.                                                    *)
OnlyTheseMisfree == misfreed \in {"none", "GATT_RELIABLE_WRITES", "L2CAP_DATA"}

(* The writes that wait for their execution are those the host was told    *)
(* are prepared and has not executed yet, in its order.                    *)
PreparedAsAnswered ==
  [i \in DOMAIN prepared |-> prepared[i].payload] = promised

(* A service the host knows it is building is being built, with just the   *)
(* attributes it was told were added.                                      *)
BuiltAsAnswered ==
  agreed # NotAgreed =>
    service.attrs # 0 /\ Len(service.recs) = agreed.got /\ service.total = agreed.total

(* What is kept between commands is what the host was told, also after     *)
(* allocations and calls of the stack that failed (bleDispatch.c:2951,     *)
(* 3020, 5362), as long as nobody has freed what was not its own.          *)
KeptAsAnswered == misfreed = "none" => PreparedAsAnswered /\ BuiltAsAnswered

(* Bytes sent after a status are written by the command they answer, but   *)
(* for a parameter of the bond manager that could not be read: there the   *)
(* bytes of an earlier answer go out (bleDispatch.c:4010, 4034).           *)
AnswersAreFresh == answer.stale \in {"none", "bond"}
=============================================================================

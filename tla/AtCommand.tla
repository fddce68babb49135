----------------------------- MODULE AtCommand ------------------------------
(***************************************************************************)
(* What the command task makes of a line (cmd.c): which entry of cmdTable  *)
(* it names, what type of command it is, and what the entry's handler does *)
(* and answers.  A line is what strstr, strlen and sscanf can tell of it:  *)
(*   at      it begins with "AT"                                           *)
(*   bare    it has the length of "AT\r\n"                                 *)
(*   names   the names of cmdTable that occur in it, anywhere              *)
(*   after   what follows the first of them: "?", "=?", "=", "\r", "other" *)
(*   scans   sscanf reads something with the handler's format, and a PIN's *)
(*           line has the one valid length                                 *)
(*   raw     the number it reads; for a PIN, as in Params                  *)
(***************************************************************************)
EXTENDS Params, Sequences, FiniteSetsExt

cmdTable == <<"+RESTORE", "+PIN", "+DATAMODE", "+TIMEZONE", "+MOTORMODE", "+MOTORTIME",
              "+OFFICEMODE", "+OFFICETIME", "+HBINTERVAL", "+VERSION", "+MODELNO",
              "+MODELDESC">>

Names == {cmdTable[i] : i \in DOMAIN cmdTable}

Line == [at : BOOLEAN, bare : BOOLEAN, names : SUBSET Names,
         after : {"?", "=?", "=", "\r", "other"}, scans : BOOLEAN, raw : Int]

(* The entry whose handler is called: the first that occurs in the line.   *)
Entry(line) ==
  LET hits == {i \in DOMAIN cmdTable : cmdTable[i] \in line.names}
  IN  IF hits = {} THEN 0 ELSE Min(hits)

cmd_getType(line) ==
  CASE line.after = "?" -> "CMD_GET"
    [] line.after = "=?" -> "CMD_FORMAT"
    [] line.after \in {"=", "\r"} -> "CMD_SET"
    [] OTHER -> "CMD_UNKNOWN"

----------------------------------------------------------------------------
(* A handler's plan for a line: what it does, and to which parameter.      *)
(*   "say"      it writes the text p                                       *)
(*   "get"      it writes the parameter's value                            *)
(*   "format"   it writes the parameter's format                           *)
(*   "set"      it calls the parameter's setter with raw                   *)
(*   "restore"  it calls CustNV_restore                                    *)
(* "get" and "set" of a PIN need memory.                                   *)

Plan(do, p, raw) == [do |-> do, p |-> p, raw |-> raw]
Say(text) == Plan("say", text, 0)

OnParameter(p, line) ==
  LET type == cmd_getType(line)
  IN  CASE type = "CMD_GET" -> Plan("get", p, 0)
        [] type = "CMD_FORMAT" -> Plan("format", p, 0)
        [] type = "CMD_SET" /\ line.scans -> Plan("set", p, line.raw)
        [] OTHER -> Say("ERROR")

OnInfo(text, line) == Say(IF cmd_getType(line) = "CMD_GET" THEN text ELSE "ERROR")

cmd_onRestore(line) ==
  IF cmd_getType(line) = "CMD_SET" THEN Plan("restore", "all", 0) ELSE Say("ERROR")

cmd_onPin(line) == OnParameter("pin", line)
cmd_onDataMode(line) == OnParameter("dataMode", line)
cmd_onTimeZone(line) == OnParameter("timeZone", line)
cmd_onMotorMode(line) == OnParameter("motorMode", line)
cmd_onMotorTime(line) == OnParameter("motorDrvTime", line)
cmd_onOfficeMode(line) == OnParameter("officeMode", line)
cmd_onOfficeTime(line) == OnParameter("officeTime", line)
cmd_onHBInterval(line) == OnParameter("hbInterval", line)
cmd_onVersion(line) == OnInfo("VERSION", line)
cmd_onModelNumber(line) == OnInfo("MODELNO", line)
cmd_onModelDesc(line) == OnInfo("MODELDESC", line)

Handler(i, line) ==
  CASE i = 1 -> cmd_onRestore(line)
    [] i = 2 -> cmd_onPin(line)
    [] i = 3 -> cmd_onDataMode(line)
    [] i = 4 -> cmd_onTimeZone(line)
    [] i = 5 -> cmd_onMotorMode(line)
    [] i = 6 -> cmd_onMotorTime(line)
    [] i = 7 -> cmd_onOfficeMode(line)
    [] i = 8 -> cmd_onOfficeTime(line)
    [] i = 9 -> cmd_onHBInterval(line)
    [] i = 10 -> cmd_onVersion(line)
    [] i = 11 -> cmd_onModelNumber(line)
    [] i = 12 -> cmd_onModelDesc(line)

(* cmd_hdlFxn, up to what needs state.                                     *)
PlanFor(line) ==
  CASE ~line.at -> Say("ERROR")
    [] line.at /\ line.bare -> Say("OK")
    [] line.at /\ ~line.bare /\ Entry(line) = 0 -> Say("ERROR")
    [] OTHER -> Handler(Entry(line), line)

(* The texts Log_printf writes, which gives up when the port stays busy;   *)
(* the others go through cmd_write, which waits.                           *)
IsLogged(plan) ==
  plan.do = "get" \/ (plan.do = "say" /\ plan.p \in {"VERSION", "MODELNO", "MODELDESC"})
=============================================================================

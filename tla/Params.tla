------------------------------- MODULE Params -------------------------------
(***************************************************************************)
(* The lock's parameters: where each is kept in the image, its default,    *)
(* the values that may be saved, and what the setters and getters of       *)
(* cust_nv.c make of a number.  The engineer mode, FALSE throughout, is    *)
(* left out.                                                               *)
(***************************************************************************)
EXTENDS Integers

AllParam == {"pin", "dataMode", "timeZone", "motorMode", "motorDrvTime",
             "officeMode", "officeTime", "hbInterval"}

DigitPin == 0..9999
NotDigits == 10000
Pin == DigitPin \cup {NotDigits}

(* Byte of the image that holds a parameter.                               *)
Section(p) ==
  CASE p = "pin" -> 1
    [] p \in {"dataMode", "timeZone"} -> 2
    [] p \in {"motorMode", "motorDrvTime"} -> 3
    [] OTHER -> 4

Default(p) ==
  CASE p = "pin" -> 1662
    [] p = "dataMode" -> 0
    [] p = "timeZone" -> 8
    [] p = "motorMode" -> 0
    [] p = "motorDrvTime" -> 4
    [] p = "officeMode" -> 0
    [] p = "officeTime" -> 2
    [] p = "hbInterval" -> 1

(* The values para_write lets through.                                     *)
Legal(p) ==
  CASE p = "pin" -> DigitPin
    [] p = "dataMode" -> 0..2
    [] p = "timeZone" -> (0..12) \cup (241..252)
    [] p = "motorMode" -> 0..1
    [] p = "motorDrvTime" -> 4..127
    [] p = "officeMode" -> 0..1
    [] p = "officeTime" -> 2..7
    [] p = "hbInterval" -> 0..3

----------------------------------------------------------------------------
Int8(n) == ((n + 128) % 256) - 128

(* The handlers cast the number to 8 bits before the setters check it; a   *)
(* PIN is not checked.                                                     *)
Accepts(p, raw) ==
  CASE p = "pin" -> TRUE
    [] p = "dataMode" -> raw % 256 <= 2
    [] p = "timeZone" -> Int8(raw) \in -12..12
    [] p \in {"motorMode", "officeMode"} -> raw % 256 \in {0, 1}
    [] p = "motorDrvTime" -> raw % 256 \in 4..127
    [] p = "officeTime" -> raw % 256 \in 2..7
    [] p = "hbInterval" -> raw % 256 <= 3

Stored(p, raw) ==
  CASE p = "pin" -> raw
    [] p = "timeZone" /\ Int8(raw) < 0 -> 240 + (-Int8(raw))
    [] OTHER -> raw % 256

(* What a getter answers for the byte b: a time zone has its sign in the   *)
(* upper four bits.                                                        *)
Shown(p, b) ==
  IF p = "timeZone" /\ b \div 16 # 0 THEN -(b % 16) ELSE b

(* The answer of each parameter's format query, cmd.c:73-94.               *)
Format(p) ==
  CASE p = "pin" -> DigitPin
    [] p = "dataMode" -> 0..2
    [] p = "timeZone" -> -12..12
    [] p \in {"motorMode", "officeMode"} -> 0..1
    [] p = "motorDrvTime" -> 4..127
    [] p = "officeTime" -> 2..7
    [] p = "hbInterval" -> 0..3
=============================================================================

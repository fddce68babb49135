----------------------------- MODULE MCHostView -----------------------------
(* Model-checking instance of HostView: a PIN and a number with a sign.    *)
EXTENDS HostView

TwoParam == {"pin", "timeZone"}
TwoBle == {[p \in {"timeZone"} |-> 8]}

Query(name) ==
  [at |-> TRUE, bare |-> FALSE, names |-> {name}, after |-> "?", scans |-> FALSE, raw |-> 0]
Order(name, raw) == [Query(name) EXCEPT !.after = "=", !.scans = TRUE, !.raw = raw]

SomeLines ==
  {Query("+TIMEZONE"), Order("+TIMEZONE", -3), Order("+PIN", NotDigits),
   [Query("+TIMEZONE") EXCEPT !.after = "=?"], [Query("+RESTORE") EXCEPT !.after = "\r"]}
=============================================================================

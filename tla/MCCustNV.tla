------------------------------ MODULE MCCustNV ------------------------------
(* Model-checking instances of CustNV.                                     *)
EXTENDS CustNV

\* First and last digit of the PIN, and a parameter of the third byte.
ThreeCells == {"pin1", "pin4", "motorDrvTime"}
OneBle == {[c \in {"motorDrvTime"} |-> 127]}

\* 260 is 4 in eight bits; a PIN with other characters is refused by the save.
SomeSets == {<<"pin", 5555>>, <<"pin", NotDigits>>, <<"motorDrvTime", 260>>}

\* Only what the formats allow.
GoodSets == {<<"pin", 5555>>, <<"motorDrvTime", 5>>}
BadPinSets == GoodSets \cup {<<"pin", NotDigits>>}
=============================================================================

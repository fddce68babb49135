------------------------------ MODULE MCKeypad ------------------------------
(* Model-checking instance of Keypad: a digit, the digit kp_KeyMap does    *)
(* not know, star and hash, and room for five keys.                        *)
EXTENDS Keypad
=============================================================================

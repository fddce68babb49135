----------------------------- MODULE MCGpioOut ------------------------------
(* Model-checking instance of GpioOut: one pin, blinks of 4 milliseconds,  *)
(* time that starts again after 10.                                        *)
EXTENDS GpioOut

BlinkCalls == {<<0, 50, 4>>, <<2, 50, 4>>}
=============================================================================

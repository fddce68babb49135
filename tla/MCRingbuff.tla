----------------------------- MODULE MCRingbuff -----------------------------
(* Model-checking instance of Ringbuff.                                    *)
EXTENDS Ringbuff
=============================================================================

------------------------------ MODULE MCAttRsp ------------------------------
(* Model-checking instance of AttRsp: responses of two connections overlap.*)
EXTENDS AttRsp
=============================================================================

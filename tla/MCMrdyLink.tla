----------------------------- MODULE MCMrdyLink -----------------------------
(* Model-checking instance of MrdyLink: one writing task, one byte.        *)
EXTENDS MrdyLink
=============================================================================

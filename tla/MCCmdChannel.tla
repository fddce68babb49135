---------------------------- MODULE MCCmdChannel ----------------------------
(* Model-checking instance of CmdChannel.                                  *)
EXTENDS CmdChannel
=============================================================================

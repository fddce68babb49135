------------------------------ MODULE MCExtMsg ------------------------------
(* Enough memory for the array, two prepared writes and a service of two   *)
(* attributes, one of them with an identifier of its own.                  *)
EXTENDS ExtMsg

FourBlocks == 1..4

(* Nothing is claimed of memory once it was misfreed, until the next boot, *)
(* which leads back to ExtInit: the first such state is still checked, and *)
(* what follows is not looked at.                                          *)
NotMisfreed == misfreed = "none"
=============================================================================

-------------------------------- MODULE MCPxi --------------------------------
(* A command with two argument words and the launch command; a FIFO that    *)
(* does not hold a whole command.                                          *)
EXTENDS Pxi

MCArgs == [c \in Cmds |-> IF c = Launch THEN 0 ELSE 2]
=============================================================================

------------------------------- MODULE MCCmd -------------------------------
(* A small instance of Cmd: an unknown opcode, a command with both          *)
(* handlers, one with only the deferred and one with only the immediate.    *)
EXTENDS Cmd
=============================================================================

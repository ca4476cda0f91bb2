----------------------------- MODULE MCCanopen -----------------------------
(* A small instance of Canopen: a slot that is not configured and a node,   *)
(* and a bus warning, a communication error and a heartbeat error as the    *)
(* status bits of the stack.                                                *)
EXTENDS Canopen

CONSTANTS hb

MCSection == <<Canbus, hb>>
MCHbError == [n \in {2} |-> hb]
=============================================================================

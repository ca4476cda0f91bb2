---------------------------- MODULE MCMsgLogging ----------------------------
(* A small instance of MsgLogging: two channels that share a buffer of two  *)
(* packets, and two operators.                                              *)
EXTENDS MsgLogging
=============================================================================

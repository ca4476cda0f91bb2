------------------------------ MODULE MCSystem ------------------------------
(* A small instance of System: two threads end the run, one application     *)
(* callback and two file systems, two threads make the same directories.    *)
EXTENDS System, TLC

CONSTANTS app, SD, USB, logs, data

MCHandlers == <<app, SD, USB>>
MCPaths == {<<SD, logs, data>>}
=============================================================================

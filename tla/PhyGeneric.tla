----------------------------- MODULE PhyGeneric -----------------------------
(***************************************************************************)
(* The generic physical sensor of the sensing subsystem,                   *)
(* subsys/sensing/sensor/phy_generic/phy_generic.c.                        *)
(*                                                                         *)
(* A read of the sensing subsystem is submitted as a read of a sensor      *)
(* driver with an RTIO context of its own, which has so many entries and   *)
(* blocks; a thread takes the completions, decodes the driver's block into *)
(* one of the subsystem's, and answers the read.                           *)
(***************************************************************************)
EXTENDS Naturals, FiniteSets

CONSTANTS
    Reads,     \* reads that can be outstanding at a time
    Entries,   \* submission and completion entries of phy_generic_sensor_rtio
    Blocks,    \* blocks of its pool
    OutBlocks  \* blocks of the pool of the sensing subsystem

ASSUME PhyGenericAssumption ==
    IsFiniteSet(Reads) /\ Entries \in Nat /\ Blocks \in Nat /\ OutBlocks \in Nat

VARIABLES
    stage,     \* of each read: "free", "reading", "completed", "ok" (answered), or
               \* "dropped": no completion entry was left
    outcome,   \* whether the driver succeeded
    taken,     \* blocks of the driver's pool that are taken
    outTaken,  \* blocks of the subsystem's pool that are taken
    \* Bookkeeping for the property.
    gaveUp,    \* drivers that failed after taking a block
    overrun    \* whether more reads were under way at a time than entries

phyVars == <<stage, outcome, taken, outTaken, gaveUp, overrun>>

At(s) == {r \in Reads : stage[r] = s}
Underway == {r \in Reads : stage[r] \in {"reading", "completed"}}

(* phy_generic_submit(): an error is answered at once, which frees the read. *)
PhySubmit(r) ==
    /\ stage[r] = "free"
    /\ Cardinality(At("reading")) < Entries
    /\ stage' = [stage EXCEPT ![r] = "reading"]
    /\ overrun' = (overrun \/ Cardinality(Underway) >= Entries)
    /\ UNCHANGED <<outcome, taken, outTaken, gaveUp>>

(* The driver: it takes a block, and may fail before or after.  RTIO drops  *)
(* a completion that finds no entry.                                        *)
DriverDone(r) ==
    /\ stage[r] = "reading"
    /\ stage' = [stage EXCEPT ![r] =
         IF Cardinality(At("completed")) < Entries THEN "completed" ELSE "dropped"]
    /\ \/ outcome' = [outcome EXCEPT ![r] = FALSE] /\ UNCHANGED <<taken, gaveUp>>
       \/ /\ taken < Blocks /\ taken' = taken + 1
          /\ \/ outcome' = [outcome EXCEPT ![r] = TRUE] /\ UNCHANGED gaveUp
             \/ outcome' = [outcome EXCEPT ![r] = FALSE] /\ gaveUp' = gaveUp + 1
    /\ UNCHANGED <<outTaken, overrun>>

(* phy_generic_decode() of a completion with an error: the block that the   *)
(* driver may have taken is not looked for.                                 *)
DecodeError(r) ==
    /\ stage[r] = "completed" /\ ~outcome[r]
    /\ stage' = [stage EXCEPT ![r] = "free"]
    /\ UNCHANGED <<outcome, taken, outTaken, gaveUp, overrun>>

(* No decoder, no frames, or no block of the subsystem. *)
DecodeFails(r) ==
    /\ stage[r] = "completed" /\ outcome[r]
    /\ stage' = [stage EXCEPT ![r] = "free"]
    /\ taken' = taken - 1
    /\ UNCHANGED <<outcome, outTaken, gaveUp, overrun>>

(* Faulty: the subsystem's block is kept when the decoder fails. *)
DecodeKeepsBlock(r) ==
    /\ stage[r] = "completed" /\ outcome[r] /\ outTaken < OutBlocks
    /\ \/ stage' = [stage EXCEPT ![r] = "ok"]
       \/ stage' = [stage EXCEPT ![r] = "free"]
    /\ outTaken' = outTaken + 1
    /\ taken' = taken - 1
    /\ UNCHANGED <<outcome, gaveUp, overrun>>

(* A block of the subsystem is taken, and released if decode() fails. *)
Decode(r) ==
    /\ stage[r] = "completed" /\ outcome[r] /\ outTaken < OutBlocks
    /\ \/ stage' = [stage EXCEPT ![r] = "ok"] /\ outTaken' = outTaken + 1
       \/ stage' = [stage EXCEPT ![r] = "free"] /\ UNCHANGED outTaken
    /\ taken' = taken - 1
    /\ UNCHANGED <<outcome, gaveUp, overrun>>

(* The sensing subsystem processes the answer and releases its block. *)
Consume(r) ==
    /\ stage[r] = "ok"
    /\ stage' = [stage EXCEPT ![r] = "free"]
    /\ outTaken' = outTaken - 1
    /\ UNCHANGED <<outcome, taken, gaveUp, overrun>>

PhyInit ==
    /\ stage = [r \in Reads |-> "free"] /\ outcome = [r \in Reads |-> FALSE]
    /\ taken = 0 /\ outTaken = 0 /\ gaveUp = 0 /\ overrun = FALSE

PhyNext ==
    \E r \in Reads :
      \/ PhySubmit(r) \/ DriverDone(r)
      \/ DecodeError(r) \/ DecodeFails(r) \/ Decode(r) \/ Consume(r)

-----------------------------------------------------------------------------
(* Properties. *)

ToDecode == {r \in At("completed") : outcome[r]}

(* Whatever fails on the way, the subsystem's blocks that are taken are     *)
(* those of the answers it has still to consume.  Those of the driver's     *)
(* pool are of the reads still to be decoded, which give them up, and of    *)
(* the drivers that failed after taking one, which nobody releases; and     *)
(* every read is answered: but all this only as long as there were never    *)
(* more reads under way than entries, for then a completion is dropped with *)
(* its block.                                                               *)
BlocksAccounted ==
    /\ outTaken = Cardinality(At("ok"))
    /\ ~overrun => taken = Cardinality(ToDecode) + gaveUp /\ At("dropped") = {}
=============================================================================

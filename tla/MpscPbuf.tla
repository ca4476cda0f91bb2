------------------------------ MODULE MpscPbuf ------------------------------
(***************************************************************************)
(* Zephyr's multiple-producer single-consumer packet buffer, as the        *)
(* sources use it (subsys/cmd/cmd.c, subsys/msg/logging.c): a queue of     *)
(* packets in the order of their allocation, each of them                  *)
(*   "alloc"  reserved by a producer that has not committed it yet,        *)
(*   "ready"  committed, to be claimed,                                    *)
(*   "busy"   claimed by the consumer.                                     *)
(* A packet takes one slot; the library's sizes in words, and the padding  *)
(* it skips where the ring wraps, are abstracted.                          *)
(***************************************************************************)
EXTENDS Sequences, Naturals

Packet(id) == [id |-> id, state |-> "alloc"]

(* The position of the packet that is next to be claimed, 0 if there is no  *)
(* packet after the claimed ones.                                           *)
NextToClaim(b) ==
    IF b = <<>> THEN 0
    ELSE IF b[1].state # "busy" THEN 1
    ELSE IF Len(b) > 1 THEN 2 ELSE 0

Mark(b, id, state) ==
    [i \in 1..Len(b) |-> IF b[i].id = id THEN [b[i] EXCEPT !.state = state] ELSE b[i]]

(* mpsc_pbuf_alloc(K_NO_WAIT) without overwriting *)
HasRoom(b, capacity) == Len(b) < capacity
Alloc(b, id) == Append(b, Packet(id))

(* mpsc_pbuf_commit() *)
Commit(b, id) == Mark(b, id, "ready")

(* mpsc_pbuf_claim(): NULL unless the packet next in order is committed. *)
CanClaim(b) == NextToClaim(b) # 0 /\ b[NextToClaim(b)].state = "ready"
ClaimedId(b) == b[NextToClaim(b)].id
Claim(b) == Mark(b, ClaimedId(b), "busy")

(* mpsc_pbuf_free() of the packet claimed first *)
Free(b) == Tail(b)

(* mpsc_pbuf_alloc(K_NO_WAIT) in MPSC_PBUF_MODE_OVERWRITE: a full buffer    *)
(* drops the packet that is next to be claimed, unless it is not committed. *)
CanOverwrite(b, capacity) == HasRoom(b, capacity) \/ CanClaim(b)
Without(b, n) == [i \in 1..Len(b) - 1 |-> IF i < n THEN b[i] ELSE b[i + 1]]
Overwritten(b, capacity) == IF HasRoom(b, capacity) THEN {} ELSE {ClaimedId(b)}
AllocOverwriting(b, id, capacity) ==
    Alloc(IF HasRoom(b, capacity) THEN b ELSE Without(b, NextToClaim(b)), id)

CountIn(b, states) == {i \in 1..Len(b) : b[i].state \in states}
=============================================================================

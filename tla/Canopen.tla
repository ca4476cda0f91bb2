------------------------------ MODULE Canopen ------------------------------
(***************************************************************************)
(* Emergencies and heartbeats of CANopen, subsys/canbus/canopen/emcy.c and *)
(* hb_consumer.c, between CANopenNode and the error library.               *)
(*                                                                         *)
(* Four contexts take part.  The main thread sets the initial heartbeat    *)
(* errors, registers the heartbeat callback and then dispatches the errors *)
(* to the callbacks (err.c).  CANopenNode's thread sets and clears status  *)
(* bits, follows the NMT states of the other nodes and delivers this       *)
(* node's emergencies to emcy_cb(); the CAN driver, in an interrupt,       *)
(* delivers those of other nodes to it.  The work queue runs emcy_work().  *)
(* Every error report comes back as a status bit through err_cb(), and     *)
(* with it as an emergency.                                                *)
(*                                                                         *)
(* err_report() is its locked step and its callback, as in module Err. The *)
(* walk of cb_init() comes upon the errors in any order, and misses none   *)
(* that is still set (NothingMissed of Err).                               *)
(***************************************************************************)
EXTENDS Naturals, Sequences

CONSTANTS
    Section,            \* the err linker section: a sequence of errors
    Canbus,             \* the error with ERR_CODE_CANBUS
    NSlots,             \* CO->HBcons->numberOfMonitoredNodes
    Configured,         \* slots with a heartbeat time and a valid node ID
    HbError,            \* the heartbeat error of the node in each configured slot
    StackBits,          \* status bits CANopenNode itself sets and clears
    RemoteBits,         \* status bits in the emergencies of other nodes
    BusWarning,         \* CO_EM_CAN_BUS_WARNING
    HbConsumer,         \* CO_EM_HEARTBEAT_CONSUMER
    HbRemoteReset,      \* CO_EM_HB_CONSUMER_REMOTE_RESET
    ManufacturerStart,  \* CO_EM_MANUFACTURER_START
    MaxFifo             \* bound: emergencies waiting when a new cause comes

Errors == {Section[i] : i \in 1..Len(Section)}

ASSUME CanopenAssumption ==
    /\ Section \in Seq(Errors)
    /\ \A i, j \in 1..Len(Section) : Section[i] = Section[j] => i = j
    /\ Canbus \in Errors
    /\ NSlots \in Nat /\ Configured \subseteq 1..NSlots
    /\ HbError \in [Configured -> Errors \ {Canbus}]
    /\ \A m, n \in Configured : HbError[m] = HbError[n] => m = n
    /\ ManufacturerStart \in Nat /\ MaxFifo \in Nat
    /\ StackBits \subseteq 0..ManufacturerStart - 1 /\ RemoteBits \subseteq Nat
    /\ {BusWarning, HbConsumer, HbRemoteReset} \subseteq 0..ManufacturerStart - 1

VARIABLES
    bits,         \* CO->em->errorStatusBits
    fifo,         \* status bits whose emergencies wait for delivery
    operational,  \* slots of the nodes in NMT state operational
    registered,   \* the callback of hb_consumer.c is registered
    flags,        \* errors whose ERR_FLAG_SET is on
    dispatched,   \* cb_dispatched of err.c
    ident, bit,   \* ident and errorBit of g_ctx in emcy.c
    queued,       \* g_ctx.work is in the queue
    work,         \* where emcy_work() is
    thread, own,  \* where CANopenNode's thread is, and the bit it holds
    main, slot,   \* where the main thread is; index of its loop
    call,         \* <<error, value>> a context is telling err_cb(), or <<>>
    \* Bookkeeping for the properties.
    left,         \* errors the walk of cb_init() has still to come upon
    overlap,      \* errors that last changed while the walk was telling them
    early,        \* slots operational before the callback was registered
    excused       \* the bus error may lag behind the status bits

coVars == <<bits, fifo>>
errVars == <<flags, left, overlap>>
emcyVars == <<ident, bit, queued>>
hbVars == <<operational, registered, early, slot>>
vars == <<coVars, errVars, dispatched, emcyVars, hbVars, work, thread, own, main,
          call, excused>>

Contexts == {"main", "thread", "work"}

(* Faulty: status_bit is not incremented. *)
FirstStatusBit(e) == ManufacturerStart

(* init() of emcy.c gives each error a manufacturer status bit of its own. *)
StatusBit(e) ==
    ManufacturerStart + (CHOOSE i \in 1..Len(Section) : Section[i] = e) - 1

-----------------------------------------------------------------------------
(* CANopenNode: CO_error() changes a status bit, and if it does change an   *)
(* emergency is queued (doc/develop/notes/canopennode.rst:206-208).         *)

CO_error(b, set) ==
    /\ bits' = IF set THEN bits \cup {b} ELSE bits \ {b}
    /\ fifo' = IF set = (b \in bits) THEN fifo ELSE Append(fifo, b)

(* An error of the stack itself comes or goes. *)
StackError(b) ==
    /\ thread = "idle" /\ Len(fifo) < MaxFifo
    /\ CO_error(b, b \notin bits)
    /\ UNCHANGED <<errVars, dispatched, emcyVars, hbVars, work, thread, own, main,
                   call, excused>>

-----------------------------------------------------------------------------
(* err_report(), up to the unlock: an error that does change is then told   *)
(* to the callbacks.                                                        *)
Changes(e, set) == set # (e \in flags)

ReportFlag(e, set) ==
    /\ flags' = IF set THEN flags \cup {e} ELSE flags \ {e}
    /\ overlap' = IF ~Changes(e, set) THEN overlap
                  ELSE IF call["main"] # <<>> /\ call["main"][1] = e
                    THEN overlap \cup {e} ELSE overlap \ {e}
    /\ UNCHANGED left

Calls(a, e, set) == call' = [call EXCEPT ![a] = <<e, set>>]

(* Its callbacks: err_cb() turns the error into a status bit. *)
Tell(a) ==
    /\ IF dispatched THEN CO_error(StatusBit(call[a][1]), call[a][2])
                     ELSE UNCHANGED coVars
    /\ call' = [call EXCEPT ![a] = <<>>]

-----------------------------------------------------------------------------
(* The main thread: init() of hb_consumer.c, later cb_init() of err.c.      *)

(* Every node has an error of its own. *)
node_id_to_err_code(n) == HbError[n]

(* Faulty: the last node is left out. *)
LoopStopsShort(i) == i >= NSlots

LoopEnds(i) == i > NSlots

(* An iteration of the loop.  No callback is called: main itself is to      *)
(* dispatch them.                                                           *)
InitialError ==
    /\ main = "init" /\ ~LoopEnds(slot)
    /\ slot' = slot + 1
    /\ IF slot \in Configured THEN ReportFlag(node_id_to_err_code(slot), TRUE)
                              ELSE UNCHANGED errVars
    /\ UNCHANGED <<coVars, dispatched, emcyVars, operational, registered, early, work,
                   thread, own, main, call, excused>>

Register ==
    /\ main = "init" /\ LoopEnds(slot)
    /\ registered' = TRUE /\ early' = operational
    /\ main' = "registered"
    /\ UNCHANGED <<coVars, errVars, dispatched, emcyVars, operational, slot, work,
                   thread, own, call, excused>>

CbInit ==
    /\ main = "registered"
    /\ dispatched' = TRUE /\ left' = flags
    /\ main' = "walk"
    /\ UNCHANGED <<coVars, flags, overlap, emcyVars, hbVars, work, thread, own, call,
                   excused>>

(* The walk reads the flag of an error, and calls its callback with it; an  *)
(* error removed from the list meanwhile is met or not.                     *)
WalkRead(e) ==
    /\ main = "walk" /\ e \in left
    /\ left' = left \ {e}
    /\ Calls("main", e, e \in flags)
    /\ main' = "tell"
    /\ UNCHANGED <<coVars, flags, overlap, dispatched, emcyVars, hbVars, work, thread,
                   own, excused>>

WalkTell ==
    /\ main = "tell" /\ Tell("main")
    /\ main' = "walk"
    /\ UNCHANGED <<errVars, dispatched, emcyVars, hbVars, work, thread, own,
                   excused>>

WalkEnd ==
    /\ main = "walk" /\ left \cap flags = {}
    /\ main' = "done"
    /\ UNCHANGED <<coVars, errVars, dispatched, emcyVars, hbVars, work, thread, own,
                   call, excused>>

Main ==
    \/ InitialError \/ Register \/ CbInit \/ WalkTell \/ WalkEnd
    \/ \E e \in Errors : WalkRead(e)

-----------------------------------------------------------------------------
(* CANopenNode's thread. *)

(* A monitored node enters or leaves the operational state, or its          *)
(* heartbeat is lost: mnt_changed_cb(), once it is registered.              *)
NmtChange(n) ==
    LET e == node_id_to_err_code(n) IN
    /\ thread = "idle" /\ Len(fifo) < MaxFifo
    /\ operational' = IF n \in operational THEN operational \ {n} ELSE operational \cup {n}
    /\ early' = early \ {n}
    /\ IF registered
         THEN /\ ReportFlag(e, n \in operational)
              /\ IF Changes(e, n \in operational)
                   THEN thread' = "tell" /\ Calls("thread", e, n \in operational)
                   ELSE UNCHANGED <<thread, call>>
         ELSE UNCHANGED <<errVars, call, thread>>
    /\ UNCHANGED <<coVars, dispatched, emcyVars, registered, slot, work, own, main, excused>>

NmtTell ==
    /\ thread = "tell" /\ Tell("thread")
    /\ thread' = "idle"
    /\ UNCHANGED <<errVars, dispatched, emcyVars, hbVars, work, own, main, excused>>

WorkIsPending == queued \/ work # "idle"

(* Emergencies that emcy_work() does not look at. *)
Filtered(b) ==
    b \in {BusWarning, HbConsumer, HbRemoteReset} \/ b >= ManufacturerStart

(* emcy_cb() for an emergency of this node, up to the test: while another   *)
(* one is pending it is dropped.                                            *)
EmcyEnter ==
    /\ thread = "idle" /\ fifo # <<>>
    /\ fifo' = Tail(fifo)
    /\ IF WorkIsPending THEN UNCHANGED <<thread, own>>
                        ELSE thread' = "ident" /\ own' = Head(fifo)
    /\ excused' = (excused \/ Head(fifo) = BusWarning
                           \/ (WorkIsPending /\ ~Filtered(Head(fifo))))
    /\ UNCHANGED <<bits, errVars, dispatched, emcyVars, hbVars, work, main, call>>

EmcyStore ==
    /\ \/ thread = "ident" /\ ident' = "own" /\ thread' = "bit" /\ UNCHANGED bit
       \/ thread = "bit" /\ bit' = own /\ thread' = "submit" /\ UNCHANGED ident
    /\ UNCHANGED <<coVars, errVars, dispatched, queued, hbVars, work, own, main, call,
                   excused>>

EmcySubmit ==
    /\ thread = "submit"
    /\ queued' = TRUE /\ thread' = "idle" /\ own' = 0
    /\ UNCHANGED <<coVars, errVars, dispatched, ident, bit, hbVars, work, main, call,
                   excused>>

Thread ==
    \/ \E b \in StackBits : StackError(b)
    \/ \E n \in Configured : NmtChange(n)
    \/ NmtTell \/ EmcyEnter \/ EmcyStore \/ EmcySubmit

(* emcy_cb() for an emergency of another node, in an interrupt; while one   *)
(* is pending it is dropped.                                                *)
RemoteEmcy(b) ==
    /\ ~WorkIsPending
    /\ ident' = "node" /\ bit' = b
    /\ queued' = TRUE
    /\ excused' = (excused \/ thread \in {"ident", "bit", "submit"})
    /\ UNCHANGED <<coVars, errVars, dispatched, hbVars, work, thread, own, main, call>>

-----------------------------------------------------------------------------
(* emcy_work(). *)

WorkStart ==
    /\ queued /\ work = "idle"
    /\ queued' = FALSE /\ work' = "filter"
    /\ UNCHANGED <<coVars, errVars, dispatched, ident, bit, hbVars, thread, own, main,
                   call, excused>>

(* Emergencies of other nodes are only logged. *)
WorkFilter ==
    /\ work = "filter"
    /\ work' = IF ident = "own" /\ ~Filtered(bit) THEN "count" ELSE "idle"
    /\ UNCHANGED <<coVars, errVars, dispatched, emcyVars, hbVars, thread, own, main,
                   call, excused>>

(* Faulty: the heartbeat consumer's bits count as well. *)
AnyStatusBit(B) == \E b \in B : b < ManufacturerStart

(* The loop over the status bits. *)
StatusBitSet(B) ==
    \E b \in B : b < ManufacturerStart /\ b \notin {HbConsumer, HbRemoteReset}

WorkCount ==
    /\ work = "count"
    /\ Calls("work", Canbus, StatusBitSet(bits))
    /\ work' = "report"
    /\ excused' = FALSE
    /\ UNCHANGED <<coVars, errVars, dispatched, emcyVars, hbVars, thread, own, main>>

WorkReport ==
    /\ work = "report"
    /\ ReportFlag(Canbus, call["work"][2])
    /\ IF Changes(Canbus, call["work"][2])
         THEN work' = "tell" /\ UNCHANGED call
         ELSE work' = "idle" /\ call' = [call EXCEPT !["work"] = <<>>]
    /\ UNCHANGED <<coVars, dispatched, emcyVars, hbVars, thread, own, main, excused>>

WorkTell ==
    /\ work = "tell" /\ Tell("work")
    /\ work' = "idle"
    /\ UNCHANGED <<errVars, dispatched, emcyVars, hbVars, thread, own, main, excused>>

Work == WorkStart \/ WorkFilter \/ WorkCount \/ WorkReport \/ WorkTell

-----------------------------------------------------------------------------
Init ==
    /\ bits = {} /\ fifo = <<>>
    /\ operational = {} /\ registered = FALSE
    /\ flags = {} /\ dispatched = FALSE
    /\ ident = "own" /\ bit = 0 /\ queued = FALSE
    /\ work = "idle" /\ thread = "idle" /\ own = 0
    /\ main = "init" /\ slot = 1
    /\ call = [a \in Contexts |-> <<>>]
    /\ left = {} /\ overlap = {} /\ early = {} /\ excused = FALSE

Next == Main \/ Thread \/ Work \/ \E b \in RemoteBits : RemoteEmcy(b)

Spec == Init /\ [][Next]_vars

-----------------------------------------------------------------------------
(* Properties. *)

(* Every variable keeps its type, and no cause makes more than a few        *)
(* emergencies: the errors they lead to do not feed on themselves.          *)
TypeOK ==
    /\ bits \subseteq Nat /\ fifo \in Seq(Nat) /\ Len(fifo) <= MaxFifo + 2 * Len(Section)
    /\ operational \subseteq Configured /\ early \subseteq Configured
    /\ registered \in BOOLEAN /\ dispatched \in BOOLEAN
    /\ flags \subseteq Errors /\ left \subseteq Errors /\ overlap \subseteq Errors
    /\ ident \in {"own", "node"} /\ bit \in Nat /\ own \in Nat /\ queued \in BOOLEAN
    /\ work \in {"idle", "filter", "count", "report", "tell"}
    /\ thread \in {"idle", "tell", "ident", "bit", "submit"}
    /\ main \in {"init", "registered", "walk", "tell", "done"}
    /\ slot \in 1..NSlots + 1
    /\ call \in [Contexts -> (Errors \X BOOLEAN) \cup {<<>>}]
    /\ excused \in BOOLEAN

(* When nothing is under way the CAN bus error is set exactly when a status *)
(* bit of the bus is, unless since the bits were last counted an emergency  *)
(* was dropped behind another, was mixed with one of another node, or was a *)
(* warning: the loop counts its bit, and its emergencies are filtered out.  *)
CanbusFollowsStatus ==
    fifo = <<>> /\ thread = "idle" /\ ~WorkIsPending /\ ~excused =>
      (Canbus \in flags
         <=> \E b \in bits : b \in StackBits \ {HbConsumer, HbRemoteReset})

(* From the registration on, a heartbeat error is set exactly while its     *)
(* node is not operational; but one that was operational before the         *)
(* registration stays in error until it changes again.                      *)
HeartbeatFollowsNmt ==
    registered =>
      \A n \in Configured \ early : HbError[n] \in flags <=> n \notin operational

(* Between reports the status bit of an error is its flag: each error is    *)
(* reported by one context, so that err_cb() hears of its changes in order; *)
(* but the walk of cb_init() can tell it an older state.                    *)
StatusFollowsErrors ==
    main = "done" =>
      \A e \in Errors \ overlap :
        \/ StatusBit(e) \in bits <=> e \in flags
        \/ thread = "tell" /\ call["thread"][1] = e
        \/ work = "tell" /\ e = Canbus
=============================================================================

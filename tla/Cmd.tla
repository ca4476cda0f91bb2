-------------------------------- MODULE Cmd --------------------------------
(***************************************************************************)
(* The command system, subsys/cmd/cmd.c.                                   *)
(*                                                                         *)
(* Callers in any context invoke a command: its immediate handler runs at  *)
(* once, then a packet for its deferred handler is allocated, filled,      *)
(* committed and announced with a semaphore.  One thread takes the         *)
(* semaphore, claims a packet, calls the deferred handler and frees the    *)
(* packet.  A caller can be preempted between any two of these calls.      *)
(***************************************************************************)
EXTENDS MpscPbuf, FiniteSets

CONSTANTS
    Callers,        \* contexts that call cmd_invoke()
    Opcodes,        \* opcodes callers use
    Known,          \* those of a command in the cmd section
    HasImmediate,   \* commands with an immediate handler
    HasDeferred,    \* commands with a deferred handler
    Capacity,       \* packets deffered_pbuf holds
    MaxInvokes      \* bound: invocations of each caller

ASSUME CmdAssumption ==
    /\ HasImmediate \subseteq Known /\ HasDeferred \subseteq Known /\ Known \subseteq Opcodes
    /\ Opcodes # {}
    /\ Capacity \in Nat \ {0} /\ MaxInvokes \in Nat

(* An invocation: the n-th of a caller. *)
Ids == Callers \X (1..MaxInvokes)

VARIABLES
    pbuf,      \* deffered_pbuf
    sem,       \* count of cmd_process_sem
    pc,        \* where each caller is in cmd_invoke()
    opcode,    \* the opcode it invoked last
    invokes,   \* invocations each caller has made
    content,   \* the command a committed packet carries
    thread,    \* where cmd_process_thread() is
    executed,  \* invocations whose deferred handler was called, in order
    refused    \* invocations that returned an error

callerVars == <<pc, opcode, invokes, refused>>
threadVars == <<thread, executed>>
vars == <<pbuf, sem, callerVars, content, threadVars>>

Current(p) == <<p, invokes[p]>>

Init ==
    /\ pbuf = <<>>
    /\ sem = 0
    /\ pc = [p \in Callers |-> "idle"]
    /\ opcode = [p \in Callers |-> CHOOSE o \in Opcodes : TRUE]
    /\ invokes = [p \in Callers |-> 0]
    /\ content = [id \in Ids |-> "unset"]
    /\ thread = "take"
    /\ executed = <<>>
    /\ refused = {}

-----------------------------------------------------------------------------
(* cmd_invoke() *)

Return(p) == pc' = [pc EXCEPT ![p] = "idle"]

(* cmd_get(), and whether the immediate handler is called. *)
Invoke(p, o) ==
    /\ pc[p] = "idle" /\ invokes[p] < MaxInvokes
    /\ invokes' = [invokes EXCEPT ![p] = @ + 1]
    /\ opcode' = [opcode EXCEPT ![p] = o]
    /\ IF o \in Known
         THEN /\ pc' = [pc EXCEPT ![p] = IF o \in HasImmediate THEN "immed" ELSE "alloc"]
              /\ UNCHANGED refused
         ELSE UNCHANGED pc /\ refused' = refused \cup {<<p, invokes[p] + 1>>}
    /\ UNCHANGED <<pbuf, sem, content, threadVars>>

(* Faulty: the error of the immediate handler is ignored. *)
AfterImmediateIgnored(p, ok) ==
    /\ pc' = [pc EXCEPT ![p] = "alloc"]
    /\ refused' = IF ok THEN refused ELSE refused \cup {Current(p)}

AfterImmediate(p, ok) ==
    IF ok THEN pc' = [pc EXCEPT ![p] = "alloc"] /\ UNCHANGED refused
    ELSE Return(p) /\ refused' = refused \cup {Current(p)}

(* The immediate handler validates the operand or executes the command. *)
ImmediateReturns(p, ok) ==
    /\ pc[p] = "immed"
    /\ AfterImmediate(p, ok)
    /\ UNCHANGED <<pbuf, sem, opcode, invokes, content, threadVars>>

PacketFits == HasRoom(pbuf, Capacity)

(* The deferred packet, or -ENOMEM although the immediate handler has run.  *)
(* A command without deferred handler gets one too.                         *)
AllocPacket(p) ==
    /\ pc[p] = "alloc"
    /\ IF PacketFits
         THEN /\ pbuf' = Alloc(pbuf, Current(p))
              /\ pc' = [pc EXCEPT ![p] = "fill"]
              /\ UNCHANGED refused
         ELSE /\ Return(p)
              /\ refused' = refused \cup {Current(p)}
              /\ UNCHANGED pbuf
    /\ UNCHANGED <<sem, opcode, invokes, content, threadVars>>

CommitPacket(p) ==
    /\ pc[p] = "fill"
    /\ content' = [content EXCEPT ![Current(p)] = opcode[p]]
    /\ pbuf' = Commit(pbuf, Current(p))
    /\ pc' = [pc EXCEPT ![p] = "give"]
    /\ UNCHANGED <<sem, opcode, invokes, refused, threadVars>>

GiveSem(p) ==
    /\ pc[p] = "give"
    /\ sem' = sem + 1
    /\ Return(p)
    /\ UNCHANGED <<pbuf, opcode, invokes, content, refused, threadVars>>

-----------------------------------------------------------------------------
(* cmd_process_thread().  Nothing checks the pointers: claiming no packet   *)
(* dereferences NULL, a command without deferred handler calls NULL, and    *)
(* the thread goes no further.                                              *)

(* Faulty: the wait for the semaphore has a timeout nobody checks. *)
TakeSemTimeout ==
    /\ thread = "take"
    /\ sem' = IF sem > 0 THEN sem - 1 ELSE 0
    /\ thread' = "claim"
    /\ UNCHANGED <<pbuf, callerVars, content, executed>>

TakeSem ==
    /\ thread = "take" /\ sem > 0
    /\ sem' = sem - 1
    /\ thread' = "claim"
    /\ UNCHANGED <<pbuf, callerVars, content, executed>>

ClaimPacket ==
    /\ thread = "claim"
    /\ IF CanClaim(pbuf)
         THEN pbuf' = Claim(pbuf) /\ thread' = "call"
         ELSE UNCHANGED pbuf /\ thread' = "null packet"
    /\ UNCHANGED <<sem, callerVars, content, executed>>

Claimed == pbuf[1].id

CallDeferred ==
    /\ thread = "call"
    /\ IF content[Claimed] \in HasDeferred
         THEN executed' = Append(executed, Claimed) /\ thread' = "free"
         ELSE UNCHANGED executed /\ thread' = "null handler"
    /\ UNCHANGED <<pbuf, sem, callerVars, content>>

(* Faulty: the packet is not freed. *)
FreePacketNever ==
    /\ thread = "free"
    /\ thread' = "take"
    /\ UNCHANGED <<pbuf, sem, callerVars, content, executed>>

FreePacket ==
    /\ thread = "free"
    /\ pbuf' = Free(pbuf)
    /\ thread' = "take"
    /\ UNCHANGED <<sem, callerVars, content, executed>>

Caller(p) ==
    \/ \E ok \in BOOLEAN : ImmediateReturns(p, ok)
    \/ AllocPacket(p) \/ CommitPacket(p) \/ GiveSem(p)
Thread == TakeSem \/ ClaimPacket \/ CallDeferred \/ FreePacket

Next == Thread \/ \E p \in Callers : Caller(p) \/ \E o \in Opcodes : Invoke(p, o)

Spec == Init /\ [][Next]_vars

(* A caller inside cmd_invoke(), and the thread, are scheduled again. *)
FairSpec == Spec /\ WF_vars(Thread) /\ \A p \in Callers : WF_vars(Caller(p))

-----------------------------------------------------------------------------
(* Properties. *)

Faulted == thread \in {"null packet", "null handler"}

States == {"alloc", "ready", "busy"}
Packets == [id : Ids, state : States]

(* Every variable keeps its type, and the semaphore counts no more packets  *)
(* than there can be.                                                       *)
TypeOK ==
    /\ pbuf \in Seq(Packets)
    /\ Len(pbuf) <= Capacity
    /\ sem \in 0..Capacity
    /\ pc \in [Callers -> {"idle", "immed", "alloc", "fill", "give"}]
    /\ opcode \in [Callers -> Opcodes]
    /\ invokes \in [Callers -> 0..MaxInvokes]
    /\ content \in [Ids -> Opcodes \cup {"unset"}]
    /\ thread \in {"take", "claim", "call", "free", "null packet", "null handler"}
    /\ executed \in Seq(Ids)
    /\ refused \subseteq Ids

(* Commands a caller gave to the deferred thread are executed once each, in *)
(* the order their packets were allocated, and a refused invocation never   *)
(* is: the system implements CmdQueue.                                      *)
WaitingIds ==
    LET executing == IF thread = "free" THEN 1 ELSE 0 IN
    [i \in 1..Len(pbuf) - executing |-> pbuf[i + executing].id]

Queue == INSTANCE CmdQueue WITH waiting <- WaitingIds

ImplementsQueue == Queue!Spec

(* The thread finds no packet only when a caller was overtaken between its  *)
(* allocation and its commit: the packet first in order is still being      *)
(* filled while a later one was announced.                                  *)
NullPacketOnlyWhenOvertaken ==
    [][thread # "null packet" /\ thread' = "null packet" =>
         /\ \E p \in Callers : pc[p] = "fill" /\ pbuf[1].id = Current(p)
         /\ \E i \in 2..Len(pbuf) : pbuf[i].state = "ready"]_vars

(* An invocation that got a packet is executed, unless the thread faults.   *)
EventuallyExecuted ==
    \A p \in Callers, n \in 1..MaxInvokes :
      pc[p] = "give" /\ invokes[p] = n
        ~> Faulted \/ \E i \in 1..Len(executed) : executed[i] = <<p, n>>

(* cmd.h:167, "0 For success": the packet of a successful invocation        *)
(* reaches its deferred handler; the thread never runs without a packet.    *)
NeverNullPacket == thread # "null packet"
=============================================================================

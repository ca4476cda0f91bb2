------------------------------ MODULE WorkBuf -------------------------------
(***************************************************************************)
(* The buffer of work contexts for the bottom halves of interrupts         *)
(* (subsys/util.c, include/nturt/sys/util.h).  A caller takes a context    *)
(* whose work is idle, fills its arguments and submits the work to a work  *)
(* queue.  Nothing marks the context in between: an interrupt or a thread  *)
(* that comes then is given the same one.                                  *)
(***************************************************************************)
EXTENDS Integers, Sequences, FiniteSets, Functions

CONSTANTS
    Callers,     \* interrupts and threads that defer work
    Size,        \* contexts of the buffer
    NoCtx,
    MaxSubmits   \* bound: works that a caller submits

Ctxs == 1..Size
Requests == Callers \X (1..MaxSubmits)

ASSUME WorkBufAssumption ==
    Size \in Nat /\ MaxSubmits \in Nat /\ NoCtx \notin Ctxs

VARIABLES
    queued,     \* contexts whose work is queued
    running,    \* the context whose handler runs
    args,       \* the request that the arguments of each context are of
    given,      \* the context each caller was given
    filled,     \* callers that have filled it
    submits,
    \* Bookkeeping for the property.
    handled,    \* how often a handler has run with the arguments of a request
    shared      \* requests whose context was given away before its submission

workVars == <<queued, running, args, given, filled, submits, handled, shared>>

Current(c) == <<c, submits[c] + 1>>
Holders(i) == {c \in Callers : given[c] = i}

(* k_work_is_pending(): queued or running. *)
Pending(i) == i = running \/ i \in Range(queued)

(* Faulty: a context whose handler has started counts as free. *)
GiveOnceStarted(c, i) ==
    /\ i \notin Range(queued) /\ \A j \in 1..i - 1 : j \in Range(queued)
    /\ given' = [given EXCEPT ![c] = i]

(* work_ctx_buf_alloc(): the first that is not pending. *)
Give(c, i) ==
    /\ ~Pending(i) /\ \A j \in 1..i - 1 : Pending(j)
    /\ given' = [given EXCEPT ![c] = i]

Alloc(c) ==
    /\ given[c] = NoCtx /\ submits[c] < MaxSubmits
    /\ \E i \in Ctxs :
         /\ Give(c, i)
         /\ shared' = shared \cup
              {Current(d) : d \in {e \in Holders(i) \cup {c} : Holders(i) # {}}}
    /\ UNCHANGED <<queued, running, args, filled, submits, handled>>

(* The caller writes the arguments... *)
Fill(c) ==
    /\ given[c] # NoCtx /\ c \notin filled
    /\ args' = [args EXCEPT ![given[c]] = Current(c)]
    /\ filled' = filled \cup {c}
    /\ UNCHANGED <<queued, running, given, submits, handled, shared>>

(* ... and submits the work: one that is queued already stays as it is. *)
Submit(c) ==
    /\ c \in filled
    /\ queued' = IF given[c] \in Range(queued) THEN queued ELSE Append(queued, given[c])
    /\ filled' = filled \ {c} /\ given' = [given EXCEPT ![c] = NoCtx]
    /\ submits' = [submits EXCEPT ![c] = @ + 1]
    /\ UNCHANGED <<running, args, handled, shared>>

(* The work queue runs a handler, which finds its arguments by              *)
(* WORK_CTX_ARGS() and uses them until it returns.                          *)
Begin ==
    /\ running = NoCtx /\ queued # <<>>
    /\ running' = Head(queued) /\ queued' = Tail(queued)
    /\ UNCHANGED <<args, given, filled, submits, handled, shared>>

Return ==
    /\ running # NoCtx
    /\ handled' = [handled EXCEPT ![args[running]] = @ + 1]
    /\ running' = NoCtx
    /\ UNCHANGED <<queued, args, given, filled, submits, shared>>

-----------------------------------------------------------------------------
WorkInit ==
    /\ queued = <<>> /\ running = NoCtx /\ filled = {} /\ shared = {}
    /\ args = [i \in Ctxs |-> <<>>]
    /\ given = [c \in Callers |-> NoCtx]
    /\ submits = [c \in Callers |-> 0]
    /\ handled = [r \in Requests |-> 0]

WorkNext ==
    \/ \E c \in Callers : Alloc(c) \/ Fill(c) \/ Submit(c)
    \/ Begin \/ Return

(* A submitted work runs once with the arguments its caller filled in, even *)
(* if works of the same buffer are running or queued meanwhile; only if the *)
(* context was given to a second caller before the first had submitted it   *)
(* can arguments be lost or used twice.                                     *)
HandledOnce ==
    \A r \in Requests \ shared :
      handled[r] + Cardinality({i \in Ctxs : Pending(i) /\ args[i] = r})
        = IF r[2] <= submits[r[1]] THEN 1 ELSE 0
=============================================================================

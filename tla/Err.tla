-------------------------------- MODULE Err --------------------------------
(***************************************************************************)
(* The error reporting library, subsys/err/err.c.                          *)
(*                                                                         *)
(* Threads and interrupt handlers ("reporters") set and clear errors with  *)
(* err_report(); the errors that are set are kept in an intrusive doubly   *)
(* linked list.  Callbacks are told about a change outside the lock, by    *)
(* the reporter, from a copy of the error.  Callbacks hear of the errors   *)
(* set during system initialization from cb_init(), which walks the list   *)
(* without the lock while reporters may already be changing it.            *)
(*                                                                         *)
(* The part of err_report() between k_spin_lock and k_spin_unlock is one   *)
(* step (interrupts are off); everything else is one step per access to    *)
(* shared state.  err_log() writes a log line and is left out.             *)
(***************************************************************************)
EXTENDS Naturals, FiniteSets

CONSTANTS
    Errors,      \* the struct err objects (error codes are unique)
    NErrors,     \* how many there are
    Section,     \* the err linker section: 1..NErrors -> Errors
    Severities,  \* ERR_SEV_*
    Sev,         \* severity of an error
    Disabled,    \* errors defined with ERR_FLAG_DISABLED
    Preset,      \* errors defined with ERR_FLAG_SET
    NCallbacks,  \* length of the err_callback linker section
    Filters,     \* the set of filters of each callback
    Reporters,   \* contexts that call err_report()
    Main,        \* the main thread, which runs init() and cb_init()
    MaxReports,  \* bound: calls of err_report() that change an error
    Null         \* the NULL pointer

Callbacks == 1..NCallbacks
Actors == Reporters \cup {Main}

(* struct err_filter: a set of error codes or a set of severities. *)
Filter == [type : {"code"}, codes : SUBSET Errors]
            \cup [type : {"sev"}, sevs : SUBSET Severities]

ASSUME ErrorsAssumption ==
    /\ IsFiniteSet(Errors)
    /\ NErrors \in Nat
    /\ Section \in [1..NErrors -> Errors]
    /\ \A i, j \in 1..NErrors : Section[i] = Section[j] => i = j
    /\ \A e \in Errors : \E i \in 1..NErrors : Section[i] = e
    /\ Sev \in [Errors -> Severities]
    /\ Disabled \subseteq Errors
    /\ Preset \subseteq Errors
    /\ Null \notin Errors

ASSUME CallbacksAssumption ==
    /\ NCallbacks \in Nat
    /\ Filters \in [Callbacks -> SUBSET Filter]

ASSUME ReportersAssumption ==
    /\ Main \notin Reporters
    /\ MaxReports \in Nat

VARIABLES
    flagSet,     \* errors whose ERR_FLAG_SET bit is on
    first,       \* g_ctx.errors: tqh_first
    next,        \* next.tqe_next of each error
    prev,        \* next.tqe_prev: the previous error, Null for the list head
    dispatched,  \* g_ctx.cb_dispatched
    pc,          \* where each actor is
    cur,         \* the error an actor is reporting, or the walk is at
    arg,         \* the "set" argument a handler is about to be called with
    at,          \* index of the callback an actor is at
    inits,       \* errors init() has gone through
    \* What the callbacks have been told, and bookkeeping for the properties.
    seen,        \* last value a callback was called with, Null if never
    told,        \* values it was called with since the error last changed
    live,        \* cb_dispatched when the error last changed
    overlap,     \* the last change was made while another was being told
    rank,        \* when the error was last put in the list
    reports      \* calls of err_report() that changed an error

listVars == <<flagSet, first, next, prev>>
actorVars == <<pc, cur, arg, at>>
ghostVars == <<seen, told, live, overlap, rank>>
vars == <<listVars, dispatched, actorVars, inits, ghostVars, reports>>

Listed == flagSet \ Disabled

(* err_notify(): a callback is called if the error passes all its filters,  *)
(* and passes a filter if it has one of the filter's codes or severities.   *)
Matches(c, e) ==
    \A f \in Filters[c] :
        IF f.type = "code" THEN e \in f.codes ELSE Sev[e] \in f.sevs

-----------------------------------------------------------------------------
(* The list macros of sys/queue.h. *)

InsertHead(e) ==
    /\ first' = e
    /\ next' = [next EXCEPT ![e] = first]
    /\ prev' = [x \in Errors |->
                  IF x = e THEN Null ELSE IF x = first THEN e ELSE prev[x]]

(* Faulty: the removed element is reset. *)
RemoveAndReset(e) ==
    /\ first' = IF prev[e] = Null THEN next[e] ELSE first
    /\ next' = [x \in Errors |->
                  IF x = e THEN Null ELSE IF x = prev[e] THEN next[e] ELSE next[x]]
    /\ prev' = [x \in Errors |-> IF x = next[e] THEN prev[e] ELSE prev[x]]

(* Faulty: the back pointer of the element after the removed one is kept. *)
RemoveForward(e) ==
    /\ first' = IF prev[e] = Null THEN next[e] ELSE first
    /\ next' = [x \in Errors |-> IF x = prev[e] THEN next[e] ELSE next[x]]
    /\ UNCHANGED prev

(* TAILQ_REMOVE leaves the pointers of the removed element as they were. *)
Remove(e) ==
    /\ first' = IF prev[e] = Null THEN next[e] ELSE first
    /\ next' = [x \in Errors |-> IF x = prev[e] THEN next[e] ELSE next[x]]
    /\ prev' = [x \in Errors |-> IF x = next[e] THEN prev[e] ELSE prev[x]]

-----------------------------------------------------------------------------
(* The static initial state: the flags of ERR_DEFINE, an empty list. *)
Init ==
    /\ flagSet = Preset
    /\ first = Null
    /\ next = [e \in Errors |-> Null]
    /\ prev = [e \in Errors |-> Null]
    /\ dispatched = FALSE
    /\ pc = [a \in Actors |-> IF a = Main THEN "init" ELSE "idle"]
    /\ cur = [a \in Actors |-> Null]
    /\ arg = [a \in Actors |-> FALSE]
    /\ at = [a \in Actors |-> 1]
    /\ inits = 0
    /\ seen = [c \in Callbacks |-> [e \in Errors |-> Null]]
    /\ told = [c \in Callbacks |-> [e \in Errors |-> {}]]
    /\ live = [e \in Errors |-> FALSE]
    /\ overlap = [e \in Errors |-> FALSE]
    /\ rank = [e \in Errors |-> 0]
    /\ reports = 0

(* init() puts in the list the errors defined as set, not the disabled ones. *)
EntersAtInit(e) == e \in flagSet /\ e \notin Disabled

(* One iteration of the loop of init(): a preset error enters the list. *)
InitErr ==
    /\ pc[Main] = "init" /\ inits < NErrors
    /\ inits' = inits + 1
    /\ LET e == Section[inits + 1] IN
         IF EntersAtInit(e)
           THEN InsertHead(e) /\ rank' = [rank EXCEPT ![e] = inits + 1]
           ELSE UNCHANGED <<first, next, prev, rank>>
    /\ UNCHANGED <<flagSet, dispatched, actorVars, seen, told, live, overlap, reports>>

InitReturn ==
    /\ pc[Main] = "init" /\ inits = NErrors
    /\ pc' = [pc EXCEPT ![Main] = "booted"]
    /\ UNCHANGED <<listVars, dispatched, cur, arg, at, inits, ghostVars, reports>>

(* Faulty: the error is not looked at. *)
ChangesAlways(e, set) == TRUE

(* XOR(set, already_set), read under the lock. *)
Changes(e, set) == set # (e \in flagSet)

(* An actor that still has callbacks to tell about error e. *)
Carries(a, e) == cur[a] = e /\ pc[a] \in {"unlocked", "walk", "call"}

(* err_report(e, set) up to the unlock, for a call that changes the error:  *)
(* a call for a disabled error, or that asks for the state the error is in, *)
(* returns early and changes nothing.  err_get() asserts that init() has    *)
(* put the error in the hash map.                                           *)
Report(r, e, set) ==
    /\ pc[r] = "idle" /\ pc[Main] # "init" /\ reports < MaxReports
    /\ e \notin Disabled
    /\ Changes(e, set)
    /\ IF set THEN InsertHead(e) ELSE Remove(e)
    /\ flagSet' = IF set THEN flagSet \cup {e} ELSE flagSet \ {e}
    /\ pc' = [pc EXCEPT ![r] = "unlocked"]
    /\ cur' = [cur EXCEPT ![r] = e]
    /\ arg' = [arg EXCEPT ![r] = set]
    /\ reports' = reports + 1
    /\ told' = [c \in Callbacks |-> [told[c] EXCEPT ![e] = {}]]
    /\ live' = [live EXCEPT ![e] = dispatched]
    /\ overlap' = [overlap EXCEPT ![e] = \E a \in Actors : Carries(a, e)]
    /\ rank' = IF set THEN [rank EXCEPT ![e] = NErrors + reports + 1] ELSE rank
    /\ UNCHANGED <<dispatched, at, inits, seen>>

(* The unlocked test of cb_dispatched that ends err_report(). *)
StartNotify(r) ==
    /\ pc[r] = "unlocked" /\ dispatched
    /\ pc' = [pc EXCEPT ![r] = "call"]
    /\ at' = [at EXCEPT ![r] = 1]
    /\ UNCHANGED <<listVars, dispatched, cur, arg, inits, ghostVars, reports>>

SkipNotify(r) ==
    /\ pc[r] = "unlocked" /\ ~dispatched
    /\ pc' = [pc EXCEPT ![r] = "idle"]
    /\ UNCHANGED <<listVars, dispatched, cur, arg, at, inits, ghostVars, reports>>

(* One callback of err_notify() and its handler's effect: the handler       *)
(* believes what it was called with.                                        *)
CallHandler(a) ==
    /\ pc[a] = "call" /\ at[a] <= NCallbacks
    /\ LET c == at[a]
           e == cur[a] IN
         IF Matches(c, e)
           THEN /\ seen' = [seen EXCEPT ![c][e] = arg[a]]
                /\ told' = [told EXCEPT ![c][e] = @ \cup {arg[a]}]
           ELSE UNCHANGED <<seen, told>>
    /\ at' = [at EXCEPT ![a] = @ + 1]
    /\ pc' = [pc EXCEPT ![a] = IF a = Main THEN "walk" ELSE "call"]
    /\ UNCHANGED <<listVars, dispatched, cur, arg, inits, live, overlap, rank, reports>>

ReportReturn(r) ==
    /\ pc[r] = "call" /\ at[r] > NCallbacks
    /\ pc' = [pc EXCEPT ![r] = "idle"]
    /\ UNCHANGED <<listVars, dispatched, cur, arg, at, inits, ghostVars, reports>>

(* cb_init(): reporters tell the callbacks themselves from now on. *)
CbInit ==
    /\ pc[Main] = "booted"
    /\ dispatched' = TRUE
    /\ pc' = [pc EXCEPT ![Main] = "head"]
    /\ UNCHANGED <<listVars, cur, arg, at, inits, ghostVars, reports>>

(* ERR_FOREACH_SET moves to an error, or ends. *)
WalkTo(e) ==
    /\ cur' = [cur EXCEPT ![Main] = e]
    /\ at' = [at EXCEPT ![Main] = 1]
    /\ pc' = [pc EXCEPT ![Main] = IF e = Null THEN "done" ELSE "walk"]
    /\ UNCHANGED <<listVars, dispatched, arg, inits, ghostVars, reports>>

WalkFirst == pc[Main] = "head" /\ WalkTo(first)
WalkNext == pc[Main] = "walk" /\ at[Main] > NCallbacks /\ WalkTo(next[cur[Main]])

(* Faulty: whatever the walk meets is taken to be set. *)
FlagReadListed(e) == TRUE

FlagRead(e) == e \in flagSet

(* err_notify() on the error itself, not a copy: the argument of each call  *)
(* is the flag at that moment.                                              *)
WalkRead ==
    /\ pc[Main] = "walk" /\ at[Main] <= NCallbacks
    /\ arg' = [arg EXCEPT ![Main] = FlagRead(cur[Main])]
    /\ pc' = [pc EXCEPT ![Main] = "call"]
    /\ UNCHANGED <<listVars, dispatched, cur, at, inits, ghostVars, reports>>

MainStep == InitErr \/ InitReturn \/ CbInit \/ WalkFirst \/ WalkRead \/ WalkNext
              \/ CallHandler(Main)
ReporterStep(r) == StartNotify(r) \/ SkipNotify(r) \/ CallHandler(r) \/ ReportReturn(r)

Next ==
    \/ MainStep
    \/ \E r \in Reporters :
         \/ \E e \in Errors, set \in BOOLEAN : Report(r, e, set)
         \/ ReporterStep(r)

(* A thread that entered err_report() or cb_init() is scheduled until it    *)
(* leaves; nothing obliges anyone to report.                                *)
Fairness == WF_vars(MainStep) /\ \A r \in Reporters : WF_vars(ReporterStep(r))

Spec == Init /\ [][Next]_vars
FairSpec == Spec /\ Fairness
-----------------------------------------------------------------------------
(* Properties. *)

(* Every variable keeps its type. *)
TypeOK ==
    /\ flagSet \subseteq Errors
    /\ first \in Errors \cup {Null}
    /\ next \in [Errors -> Errors \cup {Null}]
    /\ prev \in [Errors -> Errors \cup {Null}]
    /\ dispatched \in BOOLEAN
    /\ pc \in [Actors -> {"init", "booted", "head", "walk", "idle", "unlocked", "call", "done"}]
    /\ cur \in [Actors -> Errors \cup {Null}]
    /\ arg \in [Actors -> BOOLEAN]
    /\ at \in [Actors -> 1..NCallbacks + 1]
    /\ inits \in 0..NErrors
    /\ seen \in [Callbacks -> [Errors -> BOOLEAN \cup {Null}]]
    /\ told \in [Callbacks -> [Errors -> SUBSET BOOLEAN]]
    /\ live \in [Errors -> BOOLEAN]
    /\ overlap \in [Errors -> BOOLEAN]
    /\ rank \in [Errors -> Nat]
    /\ reports \in 0..MaxReports
    /\ \A a \in Actors : pc[a] \in {"unlocked", "walk", "call"} => cur[a] # Null

(* The errors that belong in the list: set, not disabled, and already gone  *)
(* through by init().                                                       *)
Members == {e \in Listed : \E i \in 1..inits : Section[i] = e}

(* The pointers form one well-linked list of exactly the members, whatever  *)
(* the order in which err_report() inserts and removes them, and following  *)
(* next goes from newer to older errors, so that it never goes round.       *)
ListLinked ==
    /\ first # Null => first \in Members /\ prev[first] = Null
    /\ \A e \in Members :
         /\ prev[e] = Null => first = e
         /\ prev[e] # Null => prev[e] \in Members /\ next[prev[e]] = e
         /\ next[e] # Null => /\ next[e] \in Members
                              /\ prev[next[e]] = e
                              /\ rank[next[e]] < rank[e]

(* Everything that was reported has been told. *)
Quiescent == pc[Main] = "done" /\ \A r \in Reporters : pc[r] = "idle"

(* However the walk of cb_init() and the reporters interleave, once they    *)
(* are through, a callback has been told the state an error is in after it  *)
(* entered it: by the walk if the error was set before cb_init(), by the    *)
(* reporter otherwise.  In particular removing errors under the walk, and   *)
(* putting them back at the head, makes it miss none of the others.         *)
NothingMissed ==
    Quiescent =>
      \A e \in Errors \ Disabled, c \in Callbacks :
        Matches(c, e) /\ (e \in flagSet \/ live[e])
          => (e \in flagSet) \in told[c][e]

(* The last thing a callback heard of an error is the state it is in,       *)
(* unless the error changed while an earlier state of it was being told:    *)
(* only then can the two calls reach the handler in the wrong order, for    *)
(* err_report() calls it after the unlock.                                  *)
FreshUnlessOverlapped ==
    Quiescent =>
      \A e \in Errors \ Disabled, c \in Callbacks :
        ~overlap[e] /\ seen[c][e] # Null => seen[c][e] = (e \in flagSet)

(* cb_init() ends, although reporters change the list it is walking: what   *)
(* they insert goes to the head, behind the walk, but an error met by the   *)
(* walk that is removed and inserted again leads it back to the head. Each  *)
(* such turn costs a report, and the walk ends once they cease.             *)
WalkEnds == pc[Main] = "booted" ~> pc[Main] = "done"
=============================================================================

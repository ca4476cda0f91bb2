------------------------------ MODULE CmdQueue ------------------------------
(***************************************************************************)
(* What the command system promises its callers: an invocation is either   *)
(* refused, or accepted and then executed by one thread, once, after all   *)
(* the invocations accepted before it.                                     *)
(***************************************************************************)
EXTENDS Sequences, Naturals

CONSTANTS Ids, Capacity

VARIABLES
    waiting,   \* accepted invocations, oldest first
    executed,  \* those whose deferred handler has been called, in order
    refused    \* invocations that failed

vars == <<waiting, executed, refused>>

Elements(s) == {s[i] : i \in 1..Len(s)}

Init == waiting = <<>> /\ executed = <<>> /\ refused = {}

Accept(id) ==
    /\ id \notin refused \cup Elements(waiting) \cup Elements(executed)
    /\ Len(waiting) < Capacity
    /\ waiting' = Append(waiting, id)
    /\ UNCHANGED <<executed, refused>>

Refuse(id) ==
    /\ id \notin Elements(waiting) \cup Elements(executed)
    /\ refused' = refused \cup {id}
    /\ UNCHANGED <<waiting, executed>>

Execute ==
    /\ waiting # <<>>
    /\ executed' = Append(executed, Head(waiting))
    /\ waiting' = Tail(waiting)
    /\ UNCHANGED refused

Next == (\E id \in Ids : Accept(id) \/ Refuse(id)) \/ Execute

Spec == Init /\ [][Next]_vars
=============================================================================

--------------------------- MODULE CanopenProofs ---------------------------
(***************************************************************************)
(* Proofs, for any errors, slots and status bits and however the four      *)
(* contexts interleave, that the heartbeat errors follow the NMT states of *)
(* the nodes, the status bits of the errors follow the errors, and the bus *)
(* error follows the status bits of the bus.  Only the main thread before  *)
(* the registration and CANopenNode's thread after it report the heartbeat *)
(* errors, and only the work queue reports the bus error.                  *)
(***************************************************************************)
EXTENDS Canopen, TLAPS

(* The callback is registered at the end of the initial loop, which has set *)
(* the error of every slot it has passed.                                   *)
LoopSetsErrors ==
    /\ registered <=> main # "init"
    /\ slot \in Nat
    /\ main = "init" => \A n \in Configured : n < slot => HbError[n] \in flags

IInv == LoopSetsErrors /\ HeartbeatFollowsNmt

(* Steps that report no heartbeat error keep the invariant. *)
LEMMA HbUntouched ==
    ASSUME IInv, UNCHANGED hbVars, main' = "init" <=> main = "init",
           \A n \in Configured : HbError[n] \in flags' <=> HbError[n] \in flags
    PROVE  IInv'
  BY DEF IInv, LoopSetsErrors, HeartbeatFollowsNmt, hbVars

(* The main thread: the loop, the registration, and the walk. *)
LEMMA MainIInv == IInv /\ Main => IInv'
  <1> SUFFICES ASSUME IInv, Main PROVE IInv'
    OBVIOUS
  <1>1. CASE InitialError
    <2>1. /\ main = "init" /\ main' = main /\ registered' = registered
          /\ slot' = slot + 1 /\ slot \in Nat
      BY <1>1 DEF InitialError, IInv, LoopSetsErrors
    <2>2. flags \subseteq flags' /\ (slot \in Configured => HbError[slot] \in flags')
      BY <1>1 DEF InitialError, ReportFlag, node_id_to_err_code, errVars
    <2>3. ASSUME NEW n \in Configured, n < slot'
          PROVE  HbError[n] \in flags'
      <3>1. n \in Nat
        BY CanopenAssumption
      <3>2. n < slot \/ n = slot
        BY <2>1, <2>3, <3>1
      <3>3. QED
        BY <2>1, <2>2, <3>2 DEF IInv, LoopSetsErrors
    <2>4. QED
      BY <2>1, <2>3 DEF IInv, LoopSetsErrors, HeartbeatFollowsNmt
  <1>2. CASE Register
    <2>1. main = "init" /\ slot > NSlots /\ early' = operational /\ main' = "registered"
      BY <1>2 DEF Register, LoopEnds
    <2>2. \A n \in Configured : HbError[n] \in flags
      BY <2>1, CanopenAssumption DEF IInv, LoopSetsErrors
    <2>3. QED
      BY <1>2, <2>1, <2>2 DEF Register, IInv, LoopSetsErrors, HeartbeatFollowsNmt, errVars
  <1>3. CASE CbInit \/ WalkTell \/ WalkEnd \/ \E e \in Errors : WalkRead(e)
    <2>1. UNCHANGED <<flags, hbVars>> /\ main # "init" /\ main' # "init"
      BY <1>3 DEF CbInit, WalkTell, WalkEnd, WalkRead, errVars
    <2>2. QED
      BY <2>1, HbUntouched
  <1>4. QED
    BY <1>1, <1>2, <1>3 DEF Main

(* A change of a node's state reports its error, and no other's. *)
LEMMA NmtChangeIInv == ASSUME NEW n \in Configured, IInv, NmtChange(n) PROVE IInv'
  <1>1. UNCHANGED <<main, slot, registered>> /\ early' = early \ {n}
    BY DEF NmtChange
  <1>2. \A m \in Configured \ {n} : m \in operational' <=> m \in operational
    BY DEF NmtChange
  <1>3. CASE registered
    <2>1. /\ n \in operational' <=> n \notin operational
          /\ HbError[n] \in flags' <=> n \in operational
      BY <1>3 DEF NmtChange, ReportFlag, node_id_to_err_code
    <2>2. \A m \in Configured \ {n} : HbError[m] \in flags' <=> HbError[m] \in flags
      BY <1>3, CanopenAssumption DEF NmtChange, ReportFlag, node_id_to_err_code
    <2>3. QED
      BY <1>1, <1>2, <1>3, <2>1, <2>2 DEF IInv, LoopSetsErrors, HeartbeatFollowsNmt
  <1>4. CASE ~registered
    <2>1. UNCHANGED flags
      BY <1>4 DEF NmtChange, errVars
    <2>2. QED
      BY <1>1, <1>4, <2>1 DEF IInv, LoopSetsErrors, HeartbeatFollowsNmt
  <1>5. QED
    BY <1>3, <1>4

(* Every step, and stuttering, preserves the invariant. *)
LEMMA NextIInv == IInv /\ [Next]_vars => IInv'
  <1> SUFFICES ASSUME IInv, [Next]_vars PROVE IInv'
    OBVIOUS
  <1>1. CASE Main
    BY <1>1, MainIInv
  <1>2. CASE Thread
    <2>1. CASE \E n \in Configured : NmtChange(n)
      BY <2>1, NmtChangeIInv
    <2>2. CASE \/ \E b \in StackBits : StackError(b)
               \/ NmtTell \/ EmcyEnter \/ EmcyStore \/ EmcySubmit
      <3>1. UNCHANGED <<flags, hbVars, main>>
        BY <2>2 DEF StackError, NmtTell, EmcyEnter, EmcyStore, EmcySubmit, errVars
      <3>2. QED
        BY <3>1, HbUntouched
    <2>3. QED
      BY <1>2, <2>1, <2>2 DEF Thread
  <1>3. CASE Work
    <2>1. UNCHANGED <<hbVars, main>>
      BY <1>3 DEF Work, WorkStart, WorkFilter, WorkCount, WorkReport, WorkTell
    <2>2. \A n \in Configured : HbError[n] \in flags' <=> HbError[n] \in flags
      BY <1>3, CanopenAssumption
         DEF Work, WorkStart, WorkFilter, WorkCount, WorkReport, WorkTell, ReportFlag, errVars
    <2>3. QED
      BY <2>1, <2>2, HbUntouched
  <1>4. CASE \E b \in RemoteBits : RemoteEmcy(b)
    <2>1. UNCHANGED <<flags, hbVars, main>>
      BY <1>4 DEF RemoteEmcy, errVars
    <2>2. QED
      BY <2>1, HbUntouched
  <1>5. CASE UNCHANGED vars
    BY <1>5, HbUntouched DEF vars, errVars
  <1>6. QED
    BY <1>1, <1>2, <1>3, <1>4, <1>5 DEF Next

(* From its registration on, the heartbeat consumer keeps the error of      *)
(* every node set exactly while the node is not operational, but for those  *)
(* that were operational before it and have not changed since.              *)
THEOREM HeartbeatAlwaysFollows == Spec => []HeartbeatFollowsNmt
  <1>1. Init => IInv
    BY CanopenAssumption DEF Init, IInv, LoopSetsErrors, HeartbeatFollowsNmt
  <1>2. IInv => HeartbeatFollowsNmt
    BY DEF IInv
  <1>3. QED
    BY <1>1, <1>2, NextIInv, PTL DEF Spec

-----------------------------------------------------------------------------
(* The status bits of the errors. *)

InStep(e) == StatusBit(e) \in bits <=> e \in flags

(* What the main thread has done so far, and the bits nobody has set yet. *)
Dispatching ==
    /\ registered <=> main # "init"
    /\ dispatched <=> main \in {"walk", "tell", "done"}
    /\ ~dispatched => \A e \in Errors : StatusBit(e) \notin bits

(* What each context is telling: the thread and the work the present state, *)
(* the main thread too unless the error has changed since it looked.        *)
Calling ==
    /\ thread = "tell" =>
         /\ registered
         /\ call["thread"][1] \in {HbError[n] : n \in Configured}
         /\ call["thread"][2] <=> call["thread"][1] \in flags
    /\ work \in {"report", "tell"} => call["work"] # <<>> /\ call["work"][1] = Canbus
    /\ work = "tell" => (call["work"][2] <=> Canbus \in flags)
    /\ main # "tell" => call["main"] = <<>>
    /\ main = "tell" =>
         /\ call["main"] # <<>> /\ call["main"][1] \in Errors
         /\ call["main"][1] \notin overlap => (call["main"][2] <=> call["main"][1] \in flags)

BeingTold(e) ==
    \/ thread = "tell" /\ call["thread"][1] = e
    \/ work = "tell" /\ e = Canbus

(* The walk of cb_init() has still to come upon the error, or tells it. *)
ToBeTold(e) ==
    \/ main \in {"walk", "tell"} /\ e \in left \cap flags
    \/ main = "tell" /\ call["main"][1] = e

Following == dispatched => \A e \in Errors \ overlap : InStep(e) \/ BeingTold(e) \/ ToBeTold(e)

SInv ==
    /\ call \in [Contexts -> (Errors \X BOOLEAN) \cup {<<>>}]
    /\ Dispatching /\ Calling /\ Following

(* Every error has a status bit of its own, none of the stack's. *)
LEMMA OwnBits ==
    ASSUME NEW e \in Errors
    PROVE  /\ StatusBit(e) \in Nat /\ StatusBit(e) >= ManufacturerStart
           /\ \A f \in Errors : StatusBit(f) = StatusBit(e) => f = e
           /\ StatusBit(e) \notin StackBits
<1> DEFINE At(f) == CHOOSE i \in 1..Len(Section) : Section[i] = f
<1>1. \A f \in Errors : At(f) \in 1..Len(Section) /\ Section[At(f)] = f
  BY DEF Errors
<1>2. ManufacturerStart \in Nat /\ StackBits \subseteq 0..ManufacturerStart - 1 /\ Len(Section) \in Nat
  BY CanopenAssumption
<1>3. \A f \in Errors : StatusBit(f) = ManufacturerStart + At(f) - 1
  BY DEF StatusBit
<1> HIDE DEF At
<1>4. \A f \in Errors : At(f) = At(e) => f = e
  BY <1>1
<1>5. QED
  BY <1>1, <1>2, <1>3, <1>4

(* A status bit that is told changes alone. *)
LEMMA ToldAlone ==
    ASSUME NEW e \in Errors, NEW v, CO_error(StatusBit(e), v)
    PROVE  /\ StatusBit(e) \in bits' <=> v
           /\ \A f \in Errors \ {e} : StatusBit(f) \in bits' <=> StatusBit(f) \in bits
BY OwnBits DEF CO_error

(* What err_report() does to the flags. *)
LEMMA FlagReported ==
    ASSUME NEW e, NEW v \in BOOLEAN, ReportFlag(e, v)
    PROVE  /\ e \in flags' <=> v
           /\ \A f : f # e => (f \in flags' <=> f \in flags) /\ (f \in overlap' <=> f \in overlap)
           /\ ~Changes(e, v) => flags' = flags /\ overlap' = overlap
           /\ Changes(e, v) /\ call["main"] # <<>> /\ call["main"][1] = e => e \in overlap'
           /\ left' = left
BY DEF ReportFlag, Changes

(* A report keeps the status bits in step, if a change is about to be told. *)
LEMMA ReportFollows ==
    ASSUME SInv, NEW e, NEW v \in BOOLEAN, ReportFlag(e, v),
           UNCHANGED <<bits, main, dispatched>>, call'["main"] = call["main"],
           Changes(e, v) => BeingTold(e)',
           \A f \in Errors : f # e \/ ~Changes(e, v) => (BeingTold(f) => BeingTold(f)')
    PROVE  /\ Following'
           /\ main = "tell" /\ call["main"][1] \notin overlap' =>
                (call["main"][2] <=> call["main"][1] \in flags')
<1> USE DEF SInv
<1>1. CASE ~Changes(e, v)
  <2>1. UNCHANGED <<flags, overlap, left>>
    BY <1>1, FlagReported
  <2>2. QED
    BY <1>1, <2>1 DEF Following, InStep, ToBeTold, Calling
<1>2. CASE Changes(e, v)
  <2>1. /\ \A f : f # e => (f \in flags' <=> f \in flags) /\ (f \in overlap' <=> f \in overlap)
        /\ call["main"] # <<>> /\ call["main"][1] = e => e \in overlap'
        /\ left' = left
    BY <1>2, FlagReported
  <2>2. Following'
    <3>1. SUFFICES ASSUME dispatched, NEW f \in Errors, f \notin overlap'
                   PROVE  (InStep(f) \/ BeingTold(f) \/ ToBeTold(f))'
      BY DEF Following
    <3>2. CASE f = e
      BY <1>2, <3>2
    <3>3. CASE f # e
      <4>1. InStep(f) \/ BeingTold(f) \/ ToBeTold(f)
        BY <2>1, <3>1, <3>3 DEF Following
      <4>2. f \in flags' <=> f \in flags
        BY <2>1, <3>3
      <4>3. InStep(f) => InStep(f)'
        BY <4>2 DEF InStep
      <4>4. ToBeTold(f) => ToBeTold(f)'
        BY <2>1, <4>2 DEF ToBeTold
      <4>5. QED
        BY <1>2, <3>3, <4>1, <4>3, <4>4
    <3>4. QED
      BY <3>2, <3>3
  <2>3. QED
    BY <2>1, <2>2 DEF Calling
<1>3. QED
  BY <1>1, <1>2

(* Steps that leave the errors and their status bits alone. *)
LEMMA ErrorsUntouched ==
    ASSUME SInv, UNCHANGED <<errVars, dispatched, main, call, registered>>,
           \A e \in Errors : StatusBit(e) \in bits' <=> StatusBit(e) \in bits,
           thread' = "tell" <=> thread = "tell", work' = "tell" <=> work = "tell",
           work' = "report" <=> work = "report"
    PROVE  SInv'
BY DEF SInv, Dispatching, Calling, Following, InStep, BeingTold, ToBeTold, errVars

(* A context that has told an error has put its status bit in step. *)
LEMMA TellSteps ==
    ASSUME SInv, NEW a \in Contexts, Tell(a), call[a][1] \in Errors,
           UNCHANGED <<flags, dispatched>>
    PROVE  /\ call' \in [Contexts -> (Errors \X BOOLEAN) \cup {<<>>}]
           /\ call'[a] = <<>>
           /\ \A c \in Contexts \ {a} : call'[c] = call[c]
           /\ ~dispatched => \A f \in Errors : StatusBit(f) \notin bits'
           /\ dispatched =>
                /\ \A f \in Errors : f # call[a][1] => (InStep(f)' <=> InStep(f))
                /\ (call[a][2] <=> call[a][1] \in flags) => \A f \in Errors : f = call[a][1] => InStep(f)'
<1>1. call' = [call EXCEPT ![a] = <<>>]
  BY DEF Tell
<1>2. ~dispatched => \A f \in Errors : StatusBit(f) \notin bits'
  BY DEF Tell, coVars, SInv, Dispatching
<1>3. dispatched =>
        /\ \A f \in Errors : f # call[a][1] => (InStep(f)' <=> InStep(f))
        /\ (call[a][2] <=> call[a][1] \in flags) => \A f \in Errors : f = call[a][1] => InStep(f)'
  <2> SUFFICES ASSUME dispatched
               PROVE  /\ \A f \in Errors : f # call[a][1] => (InStep(f)' <=> InStep(f))
                      /\ (call[a][2] <=> call[a][1] \in flags) => \A f \in Errors : f = call[a][1] => InStep(f)'
    OBVIOUS
  <2>1. CO_error(StatusBit(call[a][1]), call[a][2])
    BY DEF Tell
  <2>2. /\ StatusBit(call[a][1]) \in bits' <=> call[a][2]
        /\ \A f \in Errors \ {call[a][1]} : StatusBit(f) \in bits' <=> StatusBit(f) \in bits
    BY <2>1, ToldAlone
  <2>3. QED
    BY <2>2 DEF InStep
<1>4. /\ call' \in [Contexts -> (Errors \X BOOLEAN) \cup {<<>>}]
      /\ call'[a] = <<>>
      /\ \A c \in Contexts \ {a} : call'[c] = call[c]
  BY <1>1 DEF SInv
<1>5. QED
  BY <1>2, <1>3, <1>4

(* The main thread: the initial errors are reported before the callbacks    *)
(* are dispatched, and the walk then comes upon every error that is set.    *)
LEMMA MainSInv == SInv /\ Main => SInv'
<1> SUFFICES ASSUME SInv, Main PROVE SInv'
  OBVIOUS
<1>1. CASE InitialError
  <2>1. /\ main = "init" /\ ~registered /\ ~dispatched /\ thread # "tell"
        /\ UNCHANGED <<bits, registered, dispatched, work, thread, main, call>>
    BY <1>1 DEF InitialError, SInv, Dispatching, Calling, coVars
  <2>2. Canbus \in flags' <=> Canbus \in flags
    BY <1>1, CanopenAssumption DEF InitialError, ReportFlag, node_id_to_err_code, errVars
  <2>3. QED
    BY <2>1, <2>2 DEF SInv, Dispatching, Calling, Following
<1>2. CASE Register
  <2>1. /\ main = "init" /\ ~registered /\ ~dispatched /\ thread # "tell"
        /\ registered' /\ main' = "registered"
        /\ UNCHANGED <<bits, flags, dispatched, work, thread, call>>
    BY <1>2 DEF Register, SInv, Dispatching, Calling, coVars, errVars
  <2>2. QED
    BY <2>1 DEF SInv, Dispatching, Calling, Following
<1>3. CASE CbInit
  <2>1. /\ main = "registered" /\ ~dispatched /\ dispatched' /\ left' = flags /\ main' = "walk"
        /\ UNCHANGED <<bits, flags, overlap, registered, work, thread, call>>
    BY <1>3 DEF CbInit, SInv, Dispatching, coVars, hbVars
  <2>2. Following'
    BY <2>1 DEF SInv, Dispatching, Following, InStep, ToBeTold
  <2>3. QED
    BY <2>1, <2>2 DEF SInv, Dispatching, Calling
<1>4. ASSUME NEW e \in Errors, WalkRead(e) PROVE SInv'
  <2>1. /\ main = "walk" /\ left' = left \ {e} /\ main' = "tell"
        /\ call' = [call EXCEPT !["main"] = <<e, e \in flags>>]
        /\ UNCHANGED <<bits, flags, overlap, dispatched, registered, work, thread>>
    BY <1>4 DEF WalkRead, Calls, coVars, hbVars
  <2>0. (e \in flags) \in BOOLEAN
    BY SMT
  <2>2. /\ call' \in [Contexts -> (Errors \X BOOLEAN) \cup {<<>>}]
        /\ call'["main"] # <<>> /\ call'["main"][1] = e /\ (call'["main"][2] <=> e \in flags)
        /\ call'["thread"] = call["thread"] /\ call'["work"] = call["work"]
    BY <2>1, <2>0 DEF SInv, Contexts
  <2>3. Following'
    <3>1. SUFFICES ASSUME dispatched, NEW f \in Errors, f \notin overlap
                   PROVE  (InStep(f) \/ BeingTold(f) \/ ToBeTold(f))'
      BY <2>1 DEF Following
    <3>2. InStep(f) \/ BeingTold(f) \/ ToBeTold(f)
      BY <3>1 DEF SInv, Following
    <3>3. QED
      BY <2>1, <2>2, <3>2 DEF InStep, BeingTold, ToBeTold
  <2>4. QED
    BY <2>1, <2>2, <2>3 DEF SInv, Dispatching, Calling
<1>5. CASE WalkTell
  <2>1. /\ main = "tell" /\ Tell("main") /\ main' = "walk"
        /\ UNCHANGED <<flags, left, overlap, dispatched, registered, work, thread>>
    BY <1>5 DEF WalkTell, errVars, hbVars
  <2> DEFINE e == call["main"][1]
  <2>2. /\ e \in Errors /\ dispatched
        /\ e \notin overlap => (call["main"][2] <=> e \in flags)
    BY <2>1 DEF SInv, Calling, Dispatching
  <2>3. /\ call' \in [Contexts -> (Errors \X BOOLEAN) \cup {<<>>}]
        /\ call'["main"] = <<>>
        /\ call'["thread"] = call["thread"] /\ call'["work"] = call["work"]
        /\ \A f \in Errors : f # e => (InStep(f)' <=> InStep(f))
        /\ e \notin overlap => \A f \in Errors : f = e => InStep(f)'
    BY <2>1, <2>2, TellSteps DEF Contexts
  <2>4. Following'
    <3>1. SUFFICES ASSUME NEW f \in Errors, f \notin overlap
                   PROVE  (InStep(f) \/ BeingTold(f) \/ ToBeTold(f))'
      BY <2>1 DEF Following
    <3>2. InStep(f) \/ BeingTold(f) \/ ToBeTold(f)
      BY <2>2, <3>1 DEF SInv, Following
    <3>3. QED
      BY <2>1, <2>3, <3>1, <3>2 DEF InStep, BeingTold, ToBeTold
  <2>5. QED
    BY <2>1, <2>2, <2>3, <2>4 DEF SInv, Dispatching, Calling
<1>6. CASE WalkEnd
  <2>1. /\ main = "walk" /\ left \cap flags = {} /\ main' = "done"
        /\ UNCHANGED <<bits, flags, left, overlap, dispatched, registered, work, thread, call>>
    BY <1>6 DEF WalkEnd, coVars, errVars, hbVars
  <2>2. Following'
    BY <2>1 DEF SInv, Following, InStep, BeingTold, ToBeTold
  <2>3. QED
    BY <2>1, <2>2 DEF SInv, Dispatching, Calling
<1>7. QED
  BY <1>1, <1>2, <1>3, <1>4, <1>5, <1>6 DEF Main

(* CANopenNode's thread reports the errors of the heartbeats alone, and the *)
(* status bits it changes itself are no error's.                            *)
LEMMA ThreadSInv == SInv /\ Thread => SInv'
<1> SUFFICES ASSUME SInv, Thread PROVE SInv'
  OBVIOUS
<1>1. ASSUME NEW b \in StackBits, StackError(b) PROVE SInv'
  <2>1. UNCHANGED <<errVars, dispatched, registered, main, call, thread, work>>
    BY <1>1 DEF StackError, hbVars
  <2>2. \A e \in Errors : StatusBit(e) \in bits' <=> StatusBit(e) \in bits
    BY <1>1, OwnBits DEF StackError, CO_error
  <2>3. QED
    BY <2>1, <2>2, ErrorsUntouched
<1>2. ASSUME NEW n \in Configured, NmtChange(n) PROVE SInv'
  <2> DEFINE v == n \in operational
  <2>1. /\ thread = "idle" /\ v \in BOOLEAN
        /\ UNCHANGED <<bits, dispatched, registered, work, main>>
    BY <1>2 DEF NmtChange, coVars
  <2>2. HbError[n] \in Errors /\ HbError[n] # Canbus
    BY CanopenAssumption
  <2>3. CASE ~registered
    <3>1. UNCHANGED <<errVars, call, thread>>
      BY <1>2, <2>3 DEF NmtChange
    <3>2. QED
      BY <2>1, <3>1, ErrorsUntouched
  <2>4. CASE registered /\ ~Changes(HbError[n], v)
    <3>1. ReportFlag(HbError[n], v) /\ UNCHANGED <<call, thread>>
      BY <1>2, <2>4 DEF NmtChange, node_id_to_err_code
    <3>2. UNCHANGED errVars
      BY <2>1, <2>4, <3>1, FlagReported DEF errVars
    <3>3. QED
      BY <2>1, <3>1, <3>2, ErrorsUntouched
  <2>5. CASE registered /\ Changes(HbError[n], v)
    <3>1. /\ ReportFlag(HbError[n], v)
          /\ thread' = "tell" /\ call' = [call EXCEPT !["thread"] = <<HbError[n], v>>]
      BY <1>2, <2>5 DEF NmtChange, node_id_to_err_code, Calls
    <3>2. /\ call' \in [Contexts -> (Errors \X BOOLEAN) \cup {<<>>}]
          /\ call'["thread"] = <<HbError[n], v>>
          /\ call'["main"] = call["main"] /\ call'["work"] = call["work"]
      BY <2>1, <2>2, <3>1 DEF SInv, Contexts
    <3>3. /\ HbError[n] \in flags' <=> v
          /\ Canbus \in flags' <=> Canbus \in flags
      BY <2>1, <2>2, <3>1, FlagReported
    <3>4. /\ Following'
          /\ main = "tell" /\ call["main"][1] \notin overlap' =>
               (call["main"][2] <=> call["main"][1] \in flags')
      BY <2>1, <2>5, <3>1, <3>2, ReportFollows DEF BeingTold
    <3>5. QED
      BY <2>1, <2>5, <3>1, <3>2, <3>3, <3>4 DEF SInv, Dispatching, Calling
  <2>6. QED
    BY <2>3, <2>4, <2>5
<1>3. CASE NmtTell
  <2>1. /\ thread = "tell" /\ Tell("thread") /\ thread' = "idle"
        /\ UNCHANGED <<flags, left, overlap, dispatched, registered, work, main>>
    BY <1>3 DEF NmtTell, errVars, hbVars
  <2>2. /\ call["thread"][1] \in Errors
        /\ call["thread"][2] <=> call["thread"][1] \in flags
    BY <2>1, CanopenAssumption DEF SInv, Calling
  <2>3. /\ call' \in [Contexts -> (Errors \X BOOLEAN) \cup {<<>>}]
        /\ call'["main"] = call["main"] /\ call'["work"] = call["work"]
        /\ ~dispatched => \A f \in Errors : StatusBit(f) \notin bits'
        /\ dispatched => \A f \in Errors : InStep(f) \/ f = call["thread"][1] => InStep(f)'
    BY <2>1, <2>2, TellSteps DEF Contexts
  <2>4. Following'
    <3>1. SUFFICES ASSUME dispatched, NEW f \in Errors, f \notin overlap
                   PROVE  (InStep(f) \/ BeingTold(f) \/ ToBeTold(f))'
      BY <2>1 DEF Following
    <3>2. InStep(f) \/ BeingTold(f) \/ ToBeTold(f)
      BY <3>1 DEF SInv, Following
    <3>3. QED
      BY <2>1, <2>3, <3>1, <3>2 DEF InStep, BeingTold, ToBeTold
  <2>5. QED
    BY <2>1, <2>3, <2>4 DEF SInv, Dispatching, Calling
<1>4. CASE EmcyEnter \/ EmcyStore \/ EmcySubmit
  <2>1. /\ UNCHANGED <<bits, errVars, dispatched, registered, main, call, work>>
        /\ thread # "tell" /\ thread' # "tell"
    BY <1>4 DEF EmcyEnter, EmcyStore, EmcySubmit, coVars, hbVars
  <2>2. QED
    BY <2>1, ErrorsUntouched
<1>5. QED
  BY <1>1, <1>2, <1>3, <1>4 DEF Thread

(* The work queue reports the bus error alone. *)
LEMMA WorkSInv == SInv /\ Work => SInv'
<1> SUFFICES ASSUME SInv, Work PROVE SInv'
  OBVIOUS
<1>1. CASE WorkStart \/ WorkFilter
  <2>1. /\ UNCHANGED <<bits, errVars, dispatched, registered, main, call, thread>>
        /\ work \notin {"report", "tell"} /\ work' \notin {"report", "tell"}
    BY <1>1 DEF WorkStart, WorkFilter, coVars, hbVars
  <2>2. QED
    BY <2>1, ErrorsUntouched
<1>2. CASE WorkCount
  <2> DEFINE v == StatusBitSet(bits)
  <2>1. /\ work = "count" /\ work' = "report" /\ v \in BOOLEAN
        /\ call' = [call EXCEPT !["work"] = <<Canbus, v>>]
        /\ UNCHANGED <<bits, flags, left, overlap, dispatched, registered, main, thread>>
    BY <1>2 DEF WorkCount, Calls, coVars, errVars, hbVars, StatusBitSet
  <2> HIDE DEF v
  <2>2. /\ call' \in [Contexts -> (Errors \X BOOLEAN) \cup {<<>>}]
        /\ call'["work"] # <<>> /\ call'["work"][1] = Canbus
        /\ call'["main"] = call["main"] /\ call'["thread"] = call["thread"]
    BY <2>1, CanopenAssumption DEF SInv, Contexts
  <2>3. Following'
    BY <2>1, <2>2 DEF SInv, Following, InStep, BeingTold, ToBeTold
  <2>4. QED
    BY <2>1, <2>2, <2>3 DEF SInv, Dispatching, Calling
<1>3. CASE WorkReport
  <2> DEFINE v == call["work"][2]
  <2>1. /\ work = "report" /\ ReportFlag(Canbus, v)
        /\ UNCHANGED <<bits, dispatched, registered, main, thread>>
    BY <1>3 DEF WorkReport, coVars, hbVars
  <2>2. call["work"][1] = Canbus /\ v \in BOOLEAN
    BY <2>1 DEF SInv, Calling, Contexts
  <2>3. /\ Canbus \in flags' <=> v
        /\ \A f : f # Canbus => (f \in flags' <=> f \in flags)
    BY <2>1, <2>2, FlagReported
  <2>4. /\ Changes(Canbus, v) => work' = "tell" /\ call' = call
        /\ ~Changes(Canbus, v) =>
             /\ work' = "idle" /\ call' = [call EXCEPT !["work"] = <<>>]
             /\ flags' = flags /\ overlap' = overlap
    BY <1>3, <2>1, <2>2, FlagReported DEF WorkReport
  <2>5. /\ call' \in [Contexts -> (Errors \X BOOLEAN) \cup {<<>>}]
        /\ call'["main"] = call["main"] /\ call'["thread"] = call["thread"]
        /\ work' = "tell" => call' = call
    BY <2>4 DEF SInv, Contexts
  <2>6. /\ Following'
        /\ main = "tell" /\ call["main"][1] \notin overlap' =>
             (call["main"][2] <=> call["main"][1] \in flags')
    <3>1. /\ Changes(Canbus, v) => BeingTold(Canbus)'
          /\ \A f \in Errors : BeingTold(f) => BeingTold(f)'
      BY <2>1, <2>4, <2>5 DEF BeingTold
    <3>2. QED
      BY <2>1, <2>2, <2>5, <3>1, ReportFollows
  <2>7. thread = "tell" => (call["thread"][1] \in flags' <=> call["thread"][1] \in flags)
    BY <2>3, CanopenAssumption DEF SInv, Calling
  <2>8. QED
    BY <2>1, <2>2, <2>3, <2>4, <2>5, <2>6, <2>7 DEF SInv, Dispatching, Calling
<1>4. CASE WorkTell
  <2>1. /\ work = "tell" /\ Tell("work") /\ work' = "idle"
        /\ UNCHANGED <<flags, left, overlap, dispatched, registered, thread, main>>
    BY <1>4 DEF WorkTell, errVars, hbVars
  <2>2. /\ call["work"][1] = Canbus /\ Canbus \in Errors
        /\ call["work"][2] <=> Canbus \in flags
    BY <2>1, CanopenAssumption DEF SInv, Calling
  <2>3. /\ call' \in [Contexts -> (Errors \X BOOLEAN) \cup {<<>>}]
        /\ call'["main"] = call["main"] /\ call'["thread"] = call["thread"]
        /\ ~dispatched => \A f \in Errors : StatusBit(f) \notin bits'
        /\ dispatched => \A f \in Errors : InStep(f) \/ f = Canbus => InStep(f)'
    BY <2>1, <2>2, TellSteps DEF Contexts
  <2>4. Following'
    <3>1. SUFFICES ASSUME dispatched, NEW f \in Errors, f \notin overlap
                   PROVE  (InStep(f) \/ BeingTold(f) \/ ToBeTold(f))'
      BY <2>1 DEF Following
    <3>2. InStep(f) \/ BeingTold(f) \/ ToBeTold(f)
      BY <3>1 DEF SInv, Following
    <3>3. QED
      BY <2>1, <2>3, <3>1, <3>2 DEF InStep, BeingTold, ToBeTold
  <2>5. QED
    BY <2>1, <2>3, <2>4 DEF SInv, Dispatching, Calling
<1>5. QED
  BY <1>1, <1>2, <1>3, <1>4 DEF Work

(* Every step, and stuttering, keeps the status bits in step. *)
LEMMA NextSInv == SInv /\ [Next]_vars => SInv'
<1> SUFFICES ASSUME SInv, [Next]_vars PROVE SInv'
  OBVIOUS
<1>1. CASE UNCHANGED vars \/ \E b \in RemoteBits : RemoteEmcy(b)
  <2>1. UNCHANGED <<bits, errVars, dispatched, registered, main, call, thread, work>>
    BY <1>1 DEF RemoteEmcy, vars, coVars, hbVars
  <2>2. QED
    BY <2>1, ErrorsUntouched
<1>2. QED
  BY <1>1, MainSInv, ThreadSInv, WorkSInv DEF Next

(* The initial state keeps them. *)
LEMMA InitSInv == Init => SInv
BY DEF Init, SInv, Dispatching, Calling, Following, Contexts

(* After the walk of cb_init(), the status bit of every error is its flag,  *)
(* but for an error that is just being told, and for those that changed     *)
(* while the walk was telling them and have not changed since.              *)
THEOREM StatusAlwaysFollows == Spec => []StatusFollowsErrors
<1>1. SInv => StatusFollowsErrors
  <2> SUFFICES ASSUME SInv, main = "done", NEW e \in Errors \ overlap
               PROVE  InStep(e) \/ BeingTold(e)
    BY DEF StatusFollowsErrors, InStep, BeingTold
  <2>1. QED
    BY DEF SInv, Dispatching, Following, ToBeTold
<1>2. QED
  BY <1>1, InitSInv, NextSInv, PTL DEF Spec

-----------------------------------------------------------------------------
(* The bus error. *)

(* A status bit that the loop of emcy_work() counts. *)
BusBit(b) == b < ManufacturerStart /\ b \notin {HbConsumer, HbRemoteReset}

BusWaits(s) == \E i \in 1..Len(s) : BusBit(s[i])

Storing == thread \in {"ident", "bit", "submit"}

Counted == queued \/ work = "filter"

EmcyTypes ==
    /\ fifo \in Seq(Nat) /\ own \in Nat
    /\ bits \subseteq StackBits \cup {StatusBit(e) : e \in Errors}

(* What g_ctx holds: emcy_cb() only starts to store while nothing is        *)
(* pending, so that only an emergency of another node can come between.     *)
Stored ==
    /\ work = "count" => ident = "own"
    /\ thread = "submit" /\ ident = "own" => bit = own
    /\ ~excused /\ thread \in {"bit", "submit"} => ident = "own"
    /\ ~excused /\ Storing => ~Counted
    /\ Storing /\ queued => work = "idle"

(* Whenever the bus error is not what the status bits say, something is on  *)
(* its way that will have them counted.                                     *)
UpToDate ==
    \/ work = "report" /\ (call["work"][2] <=> StatusBitSet(bits))
    \/ work # "report" /\ (Canbus \in flags <=> StatusBitSet(bits))

OnItsWay ==
    \/ BusWaits(fifo)
    \/ Storing /\ ~Filtered(own)
    \/ Counted /\ ident = "own" /\ ~Filtered(bit)
    \/ work = "count"

CInv == EmcyTypes /\ Stored /\ (~excused => OnItsWay \/ UpToDate)

(* What an emergency that is appended or taken does to those that wait. *)
LEMMA Appended ==
    ASSUME NEW s \in Seq(Nat), NEW b \in Nat
    PROVE  Append(s, b) \in Seq(Nat) /\ (BusWaits(Append(s, b)) <=> BusWaits(s) \/ BusBit(b))
<1>1. /\ Append(s, b) \in Seq(Nat) /\ Len(Append(s, b)) = Len(s) + 1 /\ Len(s) \in Nat
      /\ \A i \in 1..Len(s) : Append(s, b)[i] = s[i]
      /\ Append(s, b)[Len(s) + 1] = b
  OBVIOUS
<1>2. QED
  BY <1>1 DEF BusWaits

(* What is taken from the front was waiting; nothing else is lost. *)
LEMMA Taken ==
    ASSUME NEW s \in Seq(Nat), s # <<>>
    PROVE  /\ Head(s) \in Nat /\ Tail(s) \in Seq(Nat)
           /\ BusWaits(s) => BusWaits(Tail(s)) \/ BusBit(Head(s))
<1>1. /\ Head(s) \in Nat /\ Tail(s) \in Seq(Nat) /\ Head(s) = s[1]
      /\ Len(Tail(s)) = Len(s) - 1 /\ Len(s) \in Nat
      /\ \A i \in 1..Len(Tail(s)) : Tail(s)[i] = s[i + 1]
  OBVIOUS
<1>2. ASSUME NEW i \in 1..Len(s), BusBit(s[i]), i # 1
      PROVE  BusWaits(Tail(s))
  <2>1. i - 1 \in 1..Len(Tail(s)) /\ Tail(s)[i - 1] = s[i]
    BY <1>1, <1>2
  <2>2. QED
    BY <1>2, <2>1 DEF BusWaits
<1>3. QED
  BY <1>1, <1>2 DEF BusWaits

(* A change of a status bit of the bus queues its emergency. *)
LEMMA StatusChanges ==
    ASSUME EmcyTypes, NEW b \in StackBits \cup {StatusBit(e) : e \in Errors}, NEW v,
           CO_error(b, v)
    PROVE  /\ fifo' \in Seq(Nat)
           /\ bits' \subseteq StackBits \cup {StatusBit(e) : e \in Errors}
           /\ BusWaits(fifo) => BusWaits(fifo')
           /\ BusWaits(fifo') \/ (StatusBitSet(bits') <=> StatusBitSet(bits))
<1>1. b \in Nat
  BY OwnBits, CanopenAssumption
<1>2. CASE v = (b \in bits)
  <2>1. bits' = bits /\ fifo' = fifo
    BY <1>2 DEF CO_error
  <2>2. QED
    BY <2>1 DEF EmcyTypes
<1>3. CASE v # (b \in bits)
  <2>1. fifo' = Append(fifo, b)
    BY <1>3 DEF CO_error
  <2>2. \A c : c # b => (c \in bits' <=> c \in bits)
    BY DEF CO_error
  <2>3. bits' \subseteq StackBits \cup {StatusBit(e) : e \in Errors}
    BY <2>2 DEF EmcyTypes
  <2>4. fifo' \in Seq(Nat) /\ (BusWaits(fifo') <=> BusWaits(fifo) \/ BusBit(b))
    BY <1>1, <2>1, Appended DEF EmcyTypes
  <2>5. BusBit(b) \/ (StatusBitSet(bits') <=> StatusBitSet(bits))
    BY <2>2 DEF StatusBitSet, BusBit
  <2>6. QED
    BY <2>3, <2>4, <2>5
<1>4. QED
  BY <1>2, <1>3

(* Steps that leave emcy.c alone, except that they may queue emergencies. *)
LEMMA EmcyUntouched ==
    ASSUME CInv, UNCHANGED <<emcyVars, own, excused>>,
           fifo' \in Seq(Nat),
           bits' \subseteq StackBits \cup {StatusBit(e) : e \in Errors},
           BusWaits(fifo) => BusWaits(fifo'),
           BusWaits(fifo') \/ (StatusBitSet(bits') <=> StatusBitSet(bits)),
           Storing' <=> Storing, thread' = "bit" <=> thread = "bit",
           thread' = "submit" <=> thread = "submit",
           work' = work \/ (work = "tell" /\ work' = "idle"),
           call'["work"] = call["work"] \/ work' # "report",
           Canbus \in flags' <=> Canbus \in flags
    PROVE  CInv'
<1>1. Stored'
  BY DEF CInv, Stored, Counted, emcyVars
<1>2. EmcyTypes'
  BY DEF CInv, EmcyTypes
<1>3. ASSUME ~excused', ~BusWaits(fifo') PROVE OnItsWay' \/ UpToDate'
  <2>1. OnItsWay \/ UpToDate
    BY <1>3 DEF CInv
  <2>2. Filtered(own') = Filtered(own) /\ Filtered(bit') = Filtered(bit)
    BY DEF emcyVars
  <2>3. OnItsWay => OnItsWay'
    BY <1>3, <2>2 DEF OnItsWay, Counted, Filtered, emcyVars
  <2>4. UpToDate => UpToDate'
    BY <1>3 DEF UpToDate
  <2>5. QED
    BY <2>1, <2>3, <2>4
<1>4. QED
  BY <1>1, <1>2, <1>3 DEF CInv, OnItsWay

(* In particular those that change no status bit of the stack. *)
LEMMA ToldUntouched ==
    ASSUME SInv, CInv, NEW a \in Contexts, Tell(a), call[a][1] \in Errors,
           UNCHANGED <<emcyVars, own, excused, flags>>,
           Storing' <=> Storing, thread' = "bit" <=> thread = "bit",
           thread' = "submit" <=> thread = "submit",
           (work' = work /\ a # "work") \/ (work = "tell" /\ work' = "idle")
    PROVE  CInv'
<1>1. call'["work"] = call["work"] \/ work' # "report"
  BY DEF Tell, SInv, Contexts
<1>2. /\ fifo' \in Seq(Nat)
      /\ bits' \subseteq StackBits \cup {StatusBit(e) : e \in Errors}
      /\ BusWaits(fifo) => BusWaits(fifo')
      /\ BusWaits(fifo') \/ (StatusBitSet(bits') <=> StatusBitSet(bits))
  <2>1. CASE dispatched
    BY <2>1, StatusChanges DEF Tell, CInv
  <2>2. CASE ~dispatched
    BY <2>2 DEF Tell, CInv, EmcyTypes, coVars
  <2>3. QED
    BY <2>1, <2>2
<1>3. QED
  BY <1>1, <1>2, EmcyUntouched

(* The main thread does not touch emcy.c. *)
LEMMA MainCInv == SInv /\ CInv /\ Main => CInv'
<1> SUFFICES ASSUME SInv, CInv, Main PROVE CInv'
  OBVIOUS
<1>1. CASE WalkTell
  BY <1>1, ToldUntouched DEF WalkTell, errVars, Contexts, SInv, Calling, Storing
<1>2. CASE InitialError \/ Register \/ CbInit \/ WalkEnd \/ \E e \in Errors : WalkRead(e)
  <2>1. /\ UNCHANGED <<bits, fifo, emcyVars, own, excused, thread, work>>
        /\ call'["work"] = call["work"]
        /\ Canbus \in flags' <=> Canbus \in flags
    <3>1. CASE InitialError
      BY <3>1, CanopenAssumption
         DEF InitialError, ReportFlag, node_id_to_err_code, errVars, coVars
    <3>2. CASE Register \/ CbInit \/ WalkEnd
      BY <3>2 DEF Register, CbInit, WalkEnd, errVars, coVars
    <3>3. CASE \E e \in Errors : WalkRead(e)
      BY <3>3 DEF WalkRead, Calls, coVars, SInv, Contexts
    <3>4. QED
      BY <1>2, <3>1, <3>2, <3>3
  <2>2. QED
    BY <2>1, EmcyUntouched DEF CInv, EmcyTypes, Storing
<1>3. QED
  BY <1>1, <1>2 DEF Main

(* An emergency is taken over for the work queue, or it did not matter, or  *)
(* the bus error is excused.                                                *)
LEMMA EmcyCInv ==
    ASSUME CInv, EmcyEnter \/ EmcyStore \/ EmcySubmit
    PROVE  CInv'
<1>1. CASE EmcyEnter
  <2>1. /\ thread = "idle" /\ fifo # <<>> /\ fifo' = Tail(fifo)
        /\ UNCHANGED <<bits, flags, emcyVars, work, call>>
        /\ WorkIsPending => thread' = thread /\ own' = own
        /\ ~WorkIsPending => thread' = "ident" /\ own' = Head(fifo)
        /\ excused' = (excused \/ Head(fifo) = BusWarning
                               \/ (WorkIsPending /\ ~Filtered(Head(fifo))))
    BY <1>1 DEF EmcyEnter, errVars
  <2>2. /\ Head(fifo) \in Nat /\ fifo' \in Seq(Nat)
        /\ BusWaits(fifo) => BusWaits(fifo') \/ BusBit(Head(fifo))
    BY <2>1, Taken DEF CInv, EmcyTypes
  <2>3. BusBit(Head(fifo)) /\ Head(fifo) # BusWarning => ~Filtered(Head(fifo))
    BY <2>2, CanopenAssumption DEF BusBit, Filtered
  <2>4. EmcyTypes'
    BY <2>1, <2>2 DEF CInv, EmcyTypes
  <2>5. Stored'
    BY <2>1 DEF CInv, Stored, Storing, Counted, WorkIsPending, emcyVars
  <2>6. ASSUME ~excused' PROVE (OnItsWay \/ UpToDate)'
    <3>1. /\ ~excused /\ (OnItsWay \/ UpToDate)
          /\ BusBit(Head(fifo)) => ~WorkIsPending /\ ~Filtered(Head(fifo))
      BY <2>1, <2>3, <2>6 DEF CInv
    <3>2. UpToDate => UpToDate'
      BY <2>1 DEF UpToDate
    <3>3. CASE OnItsWay /\ BusBit(Head(fifo))
      <4>1. Storing' /\ ~Filtered(own')
        BY <2>1, <3>1, <3>3 DEF Storing
      <4>2. QED
        BY <4>1 DEF OnItsWay, Filtered
    <3>4. CASE OnItsWay /\ ~BusBit(Head(fifo))
      BY <2>1, <2>2, <3>4 DEF OnItsWay, Storing, Counted, Filtered, emcyVars
    <3>5. QED
      BY <3>1, <3>2, <3>3, <3>4
  <2>7. QED
    BY <2>4, <2>5, <2>6 DEF CInv
<1>2. CASE EmcyStore
  <2>1. /\ UNCHANGED <<bits, fifo, flags, queued, work, call, own, excused>>
        /\ \/ thread = "ident" /\ ident' = "own" /\ thread' = "bit" /\ bit' = bit
           \/ thread = "bit" /\ bit' = own /\ thread' = "submit" /\ ident' = ident
    BY <1>2 DEF EmcyStore, coVars, errVars
  <2>2. EmcyTypes'
    BY <2>1 DEF CInv, EmcyTypes
  <2>3. Stored'
    BY <2>1 DEF CInv, Stored, Storing, Counted
  <2>4. ASSUME ~excused' PROVE (OnItsWay \/ UpToDate)'
    <3>1. (OnItsWay \/ UpToDate) /\ ~Counted
      BY <2>1, <2>4 DEF CInv, Stored, Storing
    <3>2. UpToDate => UpToDate'
      BY <2>1 DEF UpToDate
    <3>3. OnItsWay => OnItsWay'
      BY <2>1, <3>1 DEF OnItsWay, Storing, Filtered, BusWaits
    <3>4. QED
      BY <3>1, <3>2, <3>3
  <2>5. QED
    BY <2>2, <2>3, <2>4 DEF CInv
<1>3. CASE EmcySubmit
  <2>1. /\ thread = "submit" /\ queued' = TRUE /\ thread' = "idle" /\ own' = 0
        /\ UNCHANGED <<bits, fifo, flags, ident, bit, work, call, excused>>
    BY <1>3 DEF EmcySubmit, coVars, errVars
  <2>2. EmcyTypes'
    BY <2>1 DEF CInv, EmcyTypes
  <2>3. Stored'
    BY <2>1 DEF CInv, Stored, Storing, Counted
  <2>4. ASSUME ~excused' PROVE (OnItsWay \/ UpToDate)'
    <3>1. (OnItsWay \/ UpToDate) /\ ident = "own" /\ bit = own
      BY <2>1, <2>4 DEF CInv, Stored
    <3>2. UpToDate => UpToDate'
      BY <2>1 DEF UpToDate
    <3>3. OnItsWay => OnItsWay'
      BY <2>1, <3>1 DEF OnItsWay, Counted, Filtered, BusWaits
    <3>4. QED
      BY <3>1, <3>2, <3>3
  <2>5. QED
    BY <2>2, <2>3, <2>4 DEF CInv
<1>4. QED
  BY <1>1, <1>2, <1>3

(* CANopenNode's thread. *)
LEMMA ThreadCInv == SInv /\ CInv /\ Thread => CInv'
<1> SUFFICES ASSUME SInv, CInv, Thread PROVE CInv'
  OBVIOUS
<1>1. ASSUME NEW b \in StackBits, StackError(b) PROVE CInv'
  <2>1. /\ CO_error(b, b \notin bits)
        /\ UNCHANGED <<emcyVars, own, excused, thread, work, call, flags>>
    BY <1>1 DEF StackError, errVars
  <2>2. /\ fifo' \in Seq(Nat)
        /\ bits' \subseteq StackBits \cup {StatusBit(e) : e \in Errors}
        /\ BusWaits(fifo) => BusWaits(fifo')
        /\ BusWaits(fifo') \/ (StatusBitSet(bits') <=> StatusBitSet(bits))
    BY <2>1, StatusChanges DEF CInv
  <2>3. QED
    BY <2>1, <2>2, EmcyUntouched DEF Storing
<1>2. ASSUME NEW n \in Configured, NmtChange(n) PROVE CInv'
  <2>1. /\ thread = "idle" /\ thread' \in {"idle", "tell"}
        /\ UNCHANGED <<bits, fifo, emcyVars, own, excused, work>>
    BY <1>2 DEF NmtChange, coVars
  <2>2. call'["work"] = call["work"] /\ (Canbus \in flags' <=> Canbus \in flags)
    BY <1>2, CanopenAssumption
       DEF NmtChange, ReportFlag, Calls, node_id_to_err_code, errVars, SInv, Contexts
  <2>3. QED
    BY <2>1, <2>2, EmcyUntouched DEF CInv, EmcyTypes, Storing
<1>3. CASE NmtTell
  <2>1. call["thread"][1] \in Errors
    BY <1>3, CanopenAssumption DEF NmtTell, SInv, Calling
  <2>2. QED
    BY <1>3, <2>1, ToldUntouched DEF NmtTell, errVars, Contexts, Storing
<1>4. CASE EmcyEnter \/ EmcyStore \/ EmcySubmit
  BY <1>4, EmcyCInv
<1>5. QED
  BY <1>1, <1>2, <1>3, <1>4 DEF Thread

(* An emergency of another node overwrites one of this node's only while    *)
(* emcy_cb() stores it, which excuses the bus error.                        *)
LEMMA RemoteCInv == ASSUME CInv, NEW b \in RemoteBits, RemoteEmcy(b) PROVE CInv'
<1>1. /\ ~WorkIsPending /\ ident' = "node" /\ queued'
      /\ excused' = (excused \/ thread \in {"ident", "bit", "submit"})
      /\ UNCHANGED <<bits, fifo, flags, work, thread, own, call>>
  BY DEF RemoteEmcy, coVars, errVars
<1>2. EmcyTypes' /\ Stored'
  BY <1>1 DEF CInv, EmcyTypes, Stored, Storing, Counted, WorkIsPending
<1>3. ASSUME ~excused' PROVE (OnItsWay \/ UpToDate)'
  <2>1. ~excused /\ (OnItsWay \/ UpToDate)
    BY <1>1, <1>3 DEF CInv
  <2>2. OnItsWay => BusWaits(fifo)
    BY <1>1, <1>3 DEF OnItsWay, Storing, Counted, WorkIsPending
  <2>3. UpToDate => UpToDate'
    BY <1>1 DEF UpToDate
  <2>4. QED
    BY <1>1, <2>1, <2>2, <2>3 DEF OnItsWay, BusWaits
<1>4. QED
  BY <1>2, <1>3 DEF CInv

(* emcy_work(): what it counted is what it reports, and bits that change    *)
(* after the count have queued an emergency.                                *)
LEMMA WorkCInv == SInv /\ CInv /\ Work => CInv'
<1> SUFFICES ASSUME SInv, CInv, Work PROVE CInv'
  OBVIOUS
<1>1. CASE WorkStart \/ WorkFilter
  <2>1. /\ UNCHANGED <<bits, fifo, flags, ident, bit, thread, own, call, excused>>
        /\ \/ queued /\ work = "idle" /\ ~queued' /\ work' = "filter"
           \/ /\ work = "filter" /\ queued' = queued
              /\ work' = IF ident = "own" /\ ~Filtered(bit) THEN "count" ELSE "idle"
    BY <1>1 DEF WorkStart, WorkFilter, coVars, errVars, emcyVars
  <2>2. EmcyTypes' /\ Stored'
    BY <2>1 DEF CInv, EmcyTypes, Stored, Storing, Counted
  <2>3. UpToDate => UpToDate'
    BY <2>1 DEF UpToDate
  <2>4. OnItsWay => OnItsWay'
    BY <2>1 DEF OnItsWay, Storing, Counted, BusWaits, Filtered
  <2>5. QED
    BY <2>1, <2>2, <2>3, <2>4 DEF CInv
<1>2. CASE WorkCount
  <2>1. /\ work = "count" /\ work' = "report"
        /\ call' = [call EXCEPT !["work"] = <<Canbus, StatusBitSet(bits)>>]
        /\ UNCHANGED <<bits, fifo, flags, emcyVars, thread, own>>
    BY <1>2 DEF WorkCount, Calls, coVars, errVars
  <2>2. EmcyTypes' /\ Stored'
    BY <2>1 DEF CInv, EmcyTypes, Stored, Storing, Counted, emcyVars
  <2>3. call'["work"][2] <=> StatusBitSet(bits)
    BY <2>1 DEF SInv, Contexts
  <2>4. UpToDate'
    BY <2>1, <2>3 DEF UpToDate
  <2>5. QED
    BY <2>2, <2>4 DEF CInv
<1>3. CASE WorkReport
  <2>1. /\ work = "report" /\ work' \in {"idle", "tell"}
        /\ UNCHANGED <<bits, fifo, emcyVars, thread, own, excused>>
        /\ ReportFlag(Canbus, call["work"][2])
    BY <1>3 DEF WorkReport, coVars
  <2>2. call["work"][2] \in BOOLEAN
    BY <2>1 DEF SInv, Calling, Contexts
  <2>3. Canbus \in flags' <=> call["work"][2]
    BY <2>1, <2>2, FlagReported
  <2>4. EmcyTypes' /\ Stored'
    BY <2>1 DEF CInv, EmcyTypes, Stored, Storing, Counted, emcyVars
  <2>5. UpToDate => UpToDate'
    BY <2>1, <2>3 DEF UpToDate
  <2>6. OnItsWay => OnItsWay'
    BY <2>1 DEF OnItsWay, Storing, Counted, BusWaits, Filtered, emcyVars
  <2>7. QED
    BY <2>1, <2>4, <2>5, <2>6 DEF CInv
<1>4. CASE WorkTell
  <2>1. call["work"][1] \in Errors
    BY <1>4, CanopenAssumption DEF WorkTell, SInv, Calling
  <2>2. QED
    BY <1>4, <2>1, ToldUntouched DEF WorkTell, errVars, Contexts, Storing
<1>5. QED
  BY <1>1, <1>2, <1>3, <1>4 DEF Work

(* Every step, and stuttering, preserves the invariant. *)
LEMMA NextCInv == SInv /\ CInv /\ [Next]_vars => CInv'
<1> SUFFICES ASSUME SInv, CInv, [Next]_vars PROVE CInv'
  OBVIOUS
<1>1. CASE UNCHANGED vars
  <2>1. UNCHANGED <<bits, fifo, flags, emcyVars, own, excused, thread, work, call>>
    BY <1>1 DEF vars, coVars, errVars
  <2>2. QED
    BY <2>1, EmcyUntouched DEF CInv, EmcyTypes, Storing
<1>2. QED
  BY <1>1, MainCInv, ThreadCInv, WorkCInv, RemoteCInv DEF Next

(* The initial state satisfies it. *)
LEMMA InitCInv == Init => CInv
BY DEF Init, CInv, EmcyTypes, Stored, Storing, Counted, UpToDate, StatusBitSet

(* Once no emergency waits and the work is done, the CAN bus error is set   *)
(* exactly when a status bit of the bus is, unless an emergency was dropped *)
(* behind another, was mixed with one of another node, or was a warning.    *)
THEOREM CanbusAlwaysFollows == Spec => []CanbusFollowsStatus
<1>1. SInv /\ CInv => CanbusFollowsStatus
  <2> SUFFICES ASSUME SInv, CInv, fifo = <<>>, thread = "idle", ~WorkIsPending, ~excused
               PROVE  Canbus \in flags
                        <=> \E b \in bits : b \in StackBits \ {HbConsumer, HbRemoteReset}
    BY DEF CanbusFollowsStatus
  <2>1. ~OnItsWay
    BY DEF OnItsWay, BusWaits, Storing, Counted, WorkIsPending
  <2>2. Canbus \in flags <=> StatusBitSet(bits)
    BY <2>1 DEF CInv, UpToDate, WorkIsPending
  <2>3. \A b \in bits : b < ManufacturerStart <=> b \in StackBits
    BY OwnBits, CanopenAssumption DEF CInv, EmcyTypes
  <2>4. QED
    BY <2>2, <2>3 DEF StatusBitSet
<1>2. QED
  BY <1>1, InitSInv, NextSInv, InitCInv, NextCInv, PTL DEF Spec

=============================================================================

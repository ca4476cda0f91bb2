----------------------------- MODULE CmdProofs -----------------------------
(***************************************************************************)
(* Proofs about the command system, for any callers, commands and size of  *)
(* the buffer: it implements the queue of CmdQueue, and its thread finds   *)
(* no packet only when a caller was overtaken between allocating a packet  *)
(* and committing it.                                                      *)
(*                                                                         *)
(* The second needs that the semaphore counts the committed packets, those *)
(* about to be announced and the one the thread has taken it for aside:    *)
(* then a thread that claims knows that some packet is committed, and that *)
(* the packet first in order, if it cannot be claimed, is being filled.    *)
(***************************************************************************)
EXTENDS Cmd, FiniteSetTheorems, SequenceTheorems, TLAPS

Positions == 1..Len(pbuf)

(* The thread has claimed a packet. *)
Holding == thread \in {"call", "free", "null handler"}

(* Packets differ in their invocations, and the thread holds the first one. *)
PacketsOrdered ==
    /\ \A i, j \in Positions : pbuf[i].id = pbuf[j].id => i = j
    /\ Holding => pbuf # <<>> /\ pbuf[1].state = "busy"
    /\ \A i \in Positions : pbuf[i].state = "busy" => i = 1 /\ Holding

(* A caller that fills a packet has one, and others fill none. *)
FillingHasPacket ==
    /\ \A p \in Callers : pc[p] = "fill" =>
         \E i \in Positions : pbuf[i].id = Current(p) /\ pbuf[i].state = "alloc"
    /\ \A i \in Positions : pbuf[i].state = "alloc" =>
         \E p \in Callers : pc[p] = "fill" /\ pbuf[i].id = Current(p)

(* Invocations that have come to the buffer, or to their end. *)
InBuffer == {pbuf[i].id : i \in Positions}
WasExecuted == {executed[i] : i \in 1..Len(executed)}
Seen == refused \cup InBuffer \cup WasExecuted

(* An invocation before its allocation has been nowhere yet. *)
NewInvocation ==
    /\ \A id \in Seen : id[2] <= invokes[id[1]]
    /\ \A p \in Callers :
         /\ pc[p] # "idle" => invokes[p] >= 1
         /\ pc[p] \in {"immed", "alloc"} => Current(p) \notin Seen

(* The semaphore counts the committed packets. *)
ReadyIn(b) == {id \in Ids : \E i \in 1..Len(b) : b[i].id = id /\ b[i].state = "ready"}
Ready == ReadyIn(pbuf)
Givers == {p \in Callers : pc[p] = "give"}
Taken == IF thread \in {"claim", "null packet"} THEN 1 ELSE 0
Announced == Cardinality(Givers) + Taken
SemCountsPackets == IsFiniteSet(Givers) /\ Cardinality(Ready) = sem + Announced

IInv == TypeOK /\ PacketsOrdered /\ FillingHasPacket /\ NewInvocation /\ SemCountsPackets

-----------------------------------------------------------------------------
(* What marking a packet does. *)
LEMMA MarkPacket ==
    ASSUME NEW b \in Seq(Packets), NEW id, NEW s \in States
    PROVE  /\ Mark(b, id, s) \in Seq(Packets)
           /\ Len(Mark(b, id, s)) = Len(b)
           /\ \A i \in 1..Len(b) :
                /\ Mark(b, id, s)[i].id = b[i].id
                /\ Mark(b, id, s)[i].state = IF b[i].id = id THEN s ELSE b[i].state
<1>1. \A i \in 1..Len(b) : b[i] \in Packets
  OBVIOUS
<1>2. \A i \in 1..Len(b) : [b[i] EXCEPT !.state = s] \in Packets
  BY <1>1 DEF Packets
<1>3. QED
  BY <1>1, <1>2 DEF Mark, Packets

(* There are no more committed packets than packets. *)
LEMMA ReadyBound ==
    ASSUME NEW b \in Seq(Packets)
    PROVE  /\ IsFiniteSet(ReadyIn(b)) /\ Cardinality(ReadyIn(b)) \in Nat
           /\ Cardinality(ReadyIn(b)) <= Len(b)
<1> DEFINE At(id) == CHOOSE i \in 1..Len(b) : b[i].id = id
           f == [id \in ReadyIn(b) |-> At(id)]
<1>1. \A id \in ReadyIn(b) : At(id) \in 1..Len(b) /\ b[At(id)].id = id
  BY DEF ReadyIn
<1>2. f \in Injection(ReadyIn(b), 1..Len(b))
  BY <1>1 DEF Injection, IsInjective
<1>3. Len(b) \in Nat
  OBVIOUS
<1>4. IsFiniteSet(1..Len(b)) /\ Cardinality(1..Len(b)) = Len(b)
  BY <1>3, FS_Interval
<1>5. QED
  BY <1>2, <1>4, FS_Injection, FS_CardinalityType

(* The types of the buffer. *)
LEMMA BufferType ==
    ASSUME TypeOK
    PROVE  /\ pbuf \in Seq(Packets) /\ \A i \in 1..Len(pbuf) : pbuf[i] \in Packets
           /\ Len(pbuf) \in Nat /\ Len(pbuf) <= Capacity /\ Capacity \in Nat \ {0}
           /\ sem \in 0..Capacity /\ sem \in Nat /\ executed \in Seq(Ids)
<1>1. /\ pbuf \in Seq(Packets) /\ Len(pbuf) <= Capacity /\ sem \in 0..Capacity
      /\ executed \in Seq(Ids)
  BY DEF TypeOK
<1>2. Capacity \in Nat \ {0}
  BY CmdAssumption
<1>3. QED
  BY <1>1, <1>2

(* The types of what the semaphore counts. *)
LEMMA CountsAreNat ==
    ASSUME TypeOK, SemCountsPackets
    PROVE  /\ Cardinality(Givers) \in Nat /\ Cardinality(Ready) \in Nat
           /\ Taken \in Nat /\ Announced \in Nat /\ sem \in Nat
<1>1. pbuf \in Seq(Packets) /\ sem \in Nat
  BY BufferType
<1>2. Cardinality(Ready) \in Nat
  BY <1>1, ReadyBound DEF Ready
<1>3. Cardinality(Givers) \in Nat
  BY FS_CardinalityType DEF SemCountsPackets
<1>4. QED
  <2>1. Taken \in Nat
    BY DEF Taken
  <2>2. QED
    BY <1>1, <1>2, <1>3, <2>1 DEF Announced

(* Where the semaphore counts the packets again after a step, it is within  *)
(* its bound.                                                               *)
LEMMA SemWithinCapacity ==
    ASSUME NEW b \in Seq(Packets), Len(b) <= Capacity, NEW n \in Nat, NEW G, NEW k \in Nat,
           IsFiniteSet(G), Cardinality(ReadyIn(b)) = n + (Cardinality(G) + k)
    PROVE  n \in 0..Capacity
<1>1. Cardinality(G) \in Nat
  BY FS_CardinalityType
<1>2. Cardinality(ReadyIn(b)) \in Nat /\ Cardinality(ReadyIn(b)) <= Len(b)
  BY ReadyBound
<1>3. Len(b) \in Nat /\ Capacity \in Nat
  BY CmdAssumption
<1>4. QED
  BY <1>1, <1>2, <1>3

-----------------------------------------------------------------------------
(* The initial states satisfy the invariant. *)
LEMMA InitIInv == Init => IInv
<1> SUFFICES ASSUME Init PROVE IInv
  OBVIOUS
<1>1. /\ pbuf = <<>> /\ Len(pbuf) = 0 /\ Positions = {} /\ executed = <<>>
      /\ refused = {} /\ sem = 0 /\ thread = "take"
  BY DEF Init, Positions
<1>2. TypeOK
  <2>1. (CHOOSE o \in Opcodes : TRUE) \in Opcodes
    BY CmdAssumption
  <2>2. pbuf \in Seq(Packets) /\ Len(pbuf) <= Capacity /\ sem \in 0..Capacity
    BY <1>1, CmdAssumption
  <2>3. executed \in Seq(Ids) /\ refused \subseteq Ids
    BY <1>1
  <2>4. QED
    BY <2>1, <2>2, <2>3, CmdAssumption DEF TypeOK, Init
<1>3. PacketsOrdered /\ FillingHasPacket
  BY <1>1 DEF PacketsOrdered, FillingHasPacket, Holding, Init
<1>4. NewInvocation
  <2>1. Seen = {}
    BY <1>1 DEF Seen, InBuffer, WasExecuted
  <2>2. QED
    BY <2>1 DEF NewInvocation, Init
<1>5. SemCountsPackets
  <2>1. Givers = {} /\ Ready = {}
    BY <1>1 DEF Givers, Ready, ReadyIn, Init, Positions
  <2>2. QED
    BY <1>1, <2>1, FS_EmptySet DEF SemCountsPackets, Announced, Taken
<1>6. QED
  BY <1>2, <1>3, <1>4, <1>5 DEF IInv

(* What has been seen are invocations. *)
LEMMA SeenIds == TypeOK => Seen \subseteq Ids
<1> SUFFICES ASSUME TypeOK PROVE Seen \subseteq Ids
  OBVIOUS
<1>1. pbuf \in Seq(Packets) /\ executed \in Seq(Ids) /\ refused \subseteq Ids
  BY DEF TypeOK
<1>2. InBuffer \subseteq Ids
  <2>1. \A i \in 1..Len(pbuf) : pbuf[i] \in Packets
    BY <1>1
  <2>2. \A i \in 1..Len(pbuf) : pbuf[i].id \in Ids
    BY <2>1 DEF Packets
  <2>3. QED
    BY <2>2 DEF InBuffer, Positions
<1>3. WasExecuted \subseteq Ids
  BY <1>1 DEF WasExecuted
<1>4. QED
  BY <1>1, <1>2, <1>3 DEF Seen

(* An invocation is a caller and a number. *)
LEMMA IdParts ==
    ASSUME NEW p, NEW n
    PROVE  /\ <<p, n>> \in Ids <=> p \in Callers /\ n \in 1..MaxInvokes
           /\ \A id \in Ids : id[1] \in Callers /\ id[2] \in 1..MaxInvokes
BY DEF Ids

(* The current invocation of a caller. *)
LEMMA CurrentParts ==
    ASSUME IInv, NEW p \in Callers, pc[p] # "idle"
    PROVE  /\ Current(p) \in Ids /\ Current(p)[1] = p /\ Current(p)[2] = invokes[p]
           /\ invokes[p] \in Nat
<1>1. invokes[p] \in 0..MaxInvokes /\ invokes[p] >= 1
  BY DEF IInv, TypeOK, NewInvocation
<1>2. QED
  BY <1>1, IdParts, CmdAssumption DEF Current

(* Steps that leave the buffer and the semaphore alone, keep who announces  *)
(* and whether the thread is about to claim, keep the count.                *)
LEMMA CountKept ==
    ASSUME SemCountsPackets, UNCHANGED <<pbuf, sem>>, Givers' = Givers,
           thread' \in {"claim", "null packet"} <=> thread \in {"claim", "null packet"}
    PROVE  SemCountsPackets'
BY DEF SemCountsPackets, Announced, Taken, Ready

(* A caller begins an invocation. *)
LEMMA InvokeIInv ==
    ASSUME IInv, NEW p \in Callers, NEW o \in Opcodes, Invoke(p, o)
    PROVE  IInv'
<1> USE DEF IInv
<1>1. /\ pc[p] = "idle" /\ UNCHANGED <<pbuf, sem, content, thread, executed>>
      /\ invokes' = [invokes EXCEPT ![p] = @ + 1] /\ opcode' = [opcode EXCEPT ![p] = o]
      /\ invokes[p] \in 0..MaxInvokes /\ invokes[p] < MaxInvokes
  BY DEF Invoke, threadVars, TypeOK
<1>2. /\ \A q \in Callers : q # p => pc'[q] = pc[q] /\ invokes'[q] = invokes[q]
      /\ pc' \in [Callers -> {"idle", "immed", "alloc", "fill", "give"}]
      /\ pc'[p] \in {"idle", "immed", "alloc"} /\ invokes'[p] = invokes[p] + 1
  BY <1>1 DEF Invoke, TypeOK
<1>3. \/ refused' = refused
      \/ refused' = refused \cup {<<p, invokes[p] + 1>>} /\ pc'[p] = "idle"
  BY <1>1 DEF Invoke
<1>4. TypeOK'
  <2>1. invokes' \in [Callers -> 0..MaxInvokes] /\ <<p, invokes[p] + 1>> \in Ids
    <3>1. invokes[p] + 1 \in 1..MaxInvokes
      BY <1>1, CmdAssumption
    <3>2. invokes' \in [Callers -> 0..MaxInvokes]
      <4>1. invokes \in [Callers -> 0..MaxInvokes]
        BY DEF TypeOK
      <4>2. QED
        BY <1>1, <3>1, <4>1
    <3>3. QED
      BY <3>1, <3>2, IdParts
  <2>2. QED
    BY <1>1, <1>2, <1>3, <2>1 DEF TypeOK
<1>5. PacketsOrdered'
  BY <1>1 DEF PacketsOrdered, Positions, Holding
<1>6. FillingHasPacket'
  BY <1>1, <1>2 DEF FillingHasPacket, Positions, Current
<1>7. NewInvocation'
  <2>1. Seen \subseteq Ids /\ \A id \in Seen : id[2] <= invokes[id[1]]
    BY SeenIds DEF NewInvocation
  <2>2. <<p, invokes[p] + 1>> \notin Seen
    BY <1>1, <2>1
  <2>3. \/ Seen' = Seen
        \/ Seen' = Seen \cup {<<p, invokes[p] + 1>>} /\ pc'[p] = "idle"
    <3>1. InBuffer' = InBuffer /\ WasExecuted' = WasExecuted
      BY <1>1 DEF InBuffer, Positions, WasExecuted
    <3>2. CASE refused' = refused
      <4>1. Seen' = Seen
        BY <3>1, <3>2 DEF Seen
      <4>2. QED
        BY <3>2, <4>1
    <3>3. CASE refused' = refused \cup {<<p, invokes[p] + 1>>} /\ pc'[p] = "idle"
      <4>1. Seen' = refused \cup {<<p, invokes[p] + 1>>} \cup InBuffer \cup WasExecuted
        BY <3>1, <3>3 DEF Seen
      <4>2. QED
        BY <3>3, <4>1 DEF Seen
    <3>4. QED
      BY <1>3, <3>2, <3>3
  <2>4. \A id \in Seen' : id[2] <= invokes'[id[1]]
    <3>1. \A q \in Callers : invokes[q] \in Nat /\ invokes'[q] \in Nat /\ invokes'[q] >= invokes[q]
      <4>1. invokes \in [Callers -> 0..MaxInvokes] /\ MaxInvokes \in Nat
        BY CmdAssumption DEF TypeOK
      <4>2. QED
        BY <1>1, <4>1
    <3>2. \A id \in Seen : id[1] \in Callers /\ id[2] \in Nat
      <4>1. \A id \in Ids : id[1] \in Callers /\ id[2] \in 1..MaxInvokes
        BY IdParts
      <4>2. QED
        BY <2>1, <4>1
    <3>3. \A id \in Seen : id[2] <= invokes'[id[1]]
      BY <2>1, <3>1, <3>2
    <3>4. QED
      BY <1>2, <2>3, <3>1, <3>3
  <2>5. ASSUME NEW q \in Callers
        PROVE  /\ pc'[q] # "idle" => invokes'[q] >= 1
               /\ pc'[q] \in {"immed", "alloc"} => Current(q)' \notin Seen'
    BY <1>1, <1>2, <2>2, <2>3 DEF NewInvocation, Current
  <2>6. QED
    BY <2>4, <2>5 DEF NewInvocation
<1>8. SemCountsPackets'
  <2>1. Givers' = Givers
    BY <1>1, <1>2 DEF Givers
  <2>2. QED
    BY <1>1, <2>1, CountKept
<1>9. QED
  BY <1>4, <1>5, <1>6, <1>7, <1>8

(* The immediate handler has returned. *)
LEMMA ImmediateIInv ==
    ASSUME IInv, NEW p \in Callers, NEW ok \in BOOLEAN, ImmediateReturns(p, ok)
    PROVE  IInv'
<1> USE DEF IInv
<1>1. /\ pc[p] = "immed"
      /\ UNCHANGED <<pbuf, sem, opcode, invokes, content, thread, executed>>
  BY DEF ImmediateReturns, threadVars
<1>2. /\ \A q \in Callers : q # p => pc'[q] = pc[q]
      /\ pc' \in [Callers -> {"idle", "immed", "alloc", "fill", "give"}]
      /\ \/ pc'[p] = "alloc" /\ refused' = refused
         \/ pc'[p] = "idle" /\ refused' = refused \cup {Current(p)}
  BY <1>1 DEF ImmediateReturns, AfterImmediate, Return, TypeOK
<1>3. Current(p) \in Ids /\ Current(p)[1] = p /\ Current(p)[2] = invokes[p] /\ invokes[p] \in Nat
  BY <1>1, CurrentParts
<1>4. TypeOK'
  BY <1>1, <1>2, <1>3 DEF TypeOK
<1>5. PacketsOrdered'
  BY <1>1 DEF PacketsOrdered, Positions, Holding
<1>6. FillingHasPacket'
  BY <1>1, <1>2 DEF FillingHasPacket, Positions, Current
<1>7. NewInvocation'
  <2>1. \/ Seen' = Seen /\ pc'[p] = "alloc"
        \/ Seen' = Seen \cup {Current(p)} /\ pc'[p] = "idle"
    <3>1. InBuffer' = InBuffer /\ WasExecuted' = WasExecuted
      BY <1>1 DEF InBuffer, Positions, WasExecuted
    <3>2. CASE pc'[p] = "alloc" /\ refused' = refused
      <4>1. Seen' = Seen
        BY <3>1, <3>2 DEF Seen
      <4>2. QED
        BY <3>2, <4>1
    <3>3. CASE pc'[p] = "idle" /\ refused' = refused \cup {Current(p)}
      <4>1. Seen' = refused \cup {Current(p)} \cup InBuffer \cup WasExecuted
        BY <3>1, <3>3 DEF Seen
      <4>2. QED
        BY <3>3, <4>1 DEF Seen
    <3>4. QED
      BY <1>2, <3>2, <3>3
  <2>2. \A id \in Seen' : id[2] <= invokes'[id[1]]
    BY <1>1, <1>3, <2>1 DEF NewInvocation
  <2>3. \A q \in Callers \ {p} : Current(q) # Current(p)
    BY DEF Current
  <2>4. \A q \in Callers : Current(q)' = Current(q)
    BY <1>1 DEF Current
  <2>5. QED
    BY <1>1, <1>2, <2>1, <2>2, <2>3, <2>4 DEF NewInvocation
<1>8. SemCountsPackets'
  <2>1. Givers' = Givers
    BY <1>1, <1>2 DEF Givers
  <2>2. QED
    BY <1>1, <2>1, CountKept
<1>9. QED
  BY <1>4, <1>5, <1>6, <1>7, <1>8

(* A caller past the allocation of its invocation. *)
LEMMA CallerPastAlloc ==
    ASSUME IInv, UNCHANGED invokes, NEW p \in Callers, pc[p] # "idle",
           pc'[p] \notin {"immed", "alloc"}, \A q \in Callers \ {p} : pc'[q] = pc[q],
           Seen' \subseteq Seen \cup {Current(p)}
    PROVE  NewInvocation'
<1> USE DEF IInv
<1>1. Current(p)[1] = p /\ Current(p)[2] = invokes[p] /\ invokes[p] \in Nat
  BY CurrentParts
<1>2. \A id \in Seen' : id[2] <= invokes'[id[1]]
  BY <1>1 DEF NewInvocation
<1>3. \A q \in Callers : Current(q)' = Current(q)
  BY DEF Current
<1>4. \A q \in Callers \ {p} : Current(q) # Current(p)
  BY DEF Current
<1>5. QED
  BY <1>2, <1>3, <1>4 DEF NewInvocation

(* Steps of the thread leave the invocations alone. *)
LEMMA ThreadSeesNoNew ==
    ASSUME NewInvocation, UNCHANGED <<pc, invokes>>, Seen' \subseteq Seen
    PROVE  NewInvocation'
BY DEF NewInvocation, Current

(* A packet is allocated, or refused. *)
LEMMA AllocIInv ==
    ASSUME IInv, NEW p \in Callers, AllocPacket(p)
    PROVE  IInv'
<1> USE DEF IInv
<1>1. /\ pc[p] = "alloc"
      /\ UNCHANGED <<sem, opcode, invokes, content, thread, executed>>
  BY DEF AllocPacket, threadVars
<1>2. Current(p) \in Ids /\ Current(p) \notin Seen /\ \A q \in Callers : Current(q)' = Current(q)
  BY <1>1, CurrentParts DEF NewInvocation, Current
<1>3. pbuf \in Seq(Packets) /\ Len(pbuf) \in Nat /\ Len(pbuf) <= Capacity /\ Capacity \in Nat
  BY BufferType
<1>4. CASE PacketFits
  <2>1. /\ pbuf' = Append(pbuf, Packet(Current(p))) /\ Len(pbuf) < Capacity
        /\ pc' = [pc EXCEPT ![p] = "fill"] /\ refused' = refused
    BY <1>1, <1>4 DEF AllocPacket, Alloc, PacketFits, HasRoom
  <2>2. Packet(Current(p)) \in Packets
    BY <1>2 DEF Packet, Packets, States
  <2>3. /\ pbuf' \in Seq(Packets) /\ Len(pbuf') = Len(pbuf) + 1 /\ Len(pbuf') <= Capacity
        /\ \A i \in 1..Len(pbuf) : pbuf'[i] = pbuf[i]
        /\ pbuf'[Len(pbuf) + 1].id = Current(p) /\ pbuf'[Len(pbuf) + 1].state = "alloc"
    BY <1>3, <2>1, <2>2 DEF Packet
  <2>4. /\ pc' \in [Callers -> {"idle", "immed", "alloc", "fill", "give"}]
        /\ pc'[p] = "fill" /\ \A q \in Callers \ {p} : pc'[q] = pc[q]
    BY <2>1 DEF TypeOK
  <2>5. \A i \in 1..Len(pbuf) : pbuf[i].id # Current(p)
    BY <1>2 DEF Seen, InBuffer, Positions
  <2>6. TypeOK'
    BY <1>1, <2>1, <2>3, <2>4 DEF TypeOK
  <2>7. PacketsOrdered'
    <3>1. \A i, j \in 1..Len(pbuf) + 1 : pbuf'[i].id = pbuf'[j].id => i = j
      BY <1>3, <2>3, <2>5 DEF PacketsOrdered, Positions
    <3>2. Holding => Len(pbuf) > 0 /\ pbuf'[1].state = "busy"
      BY <1>3, <2>3 DEF PacketsOrdered
    <3>3. Positions' = 1..Len(pbuf) + 1
      BY <2>3 DEF Positions
    <3>4. \A i \in 1..Len(pbuf) + 1 : pbuf'[i].state = "busy" => i \in 1..Len(pbuf) /\ pbuf[i].state = "busy"
      BY <1>3, <2>3
    <3>5. Holding' <=> Holding
      BY <1>1 DEF Holding
    <3>6. Holding => pbuf' # <<>>
      BY <1>3, <2>3
    <3>7. QED
      BY <3>1, <3>2, <3>3, <3>4, <3>5, <3>6 DEF PacketsOrdered, Positions
  <2>8. FillingHasPacket'
    <3>1. Positions' = 1..Len(pbuf) + 1 /\ Positions = 1..Len(pbuf)
      BY <2>3 DEF Positions
    <3>2. ASSUME NEW q \in Callers, pc'[q] = "fill"
          PROVE  \E i \in Positions' : pbuf'[i].id = Current(q)' /\ pbuf'[i].state = "alloc"
      <4>1. CASE q = p
        BY <1>2, <1>3, <2>3, <3>1, <4>1
      <4>2. CASE q # p
        <5>1. PICK i \in 1..Len(pbuf) : pbuf[i].id = Current(q) /\ pbuf[i].state = "alloc"
          BY <2>4, <3>1, <3>2, <4>2 DEF FillingHasPacket
        <5>2. QED
          BY <1>2, <1>3, <2>3, <3>1, <5>1
      <4>3. QED
        BY <4>1, <4>2
    <3>3. ASSUME NEW i \in Positions', pbuf'[i].state = "alloc"
          PROVE  \E q \in Callers : pc'[q] = "fill" /\ pbuf'[i].id = Current(q)'
      <4>1. CASE i = Len(pbuf) + 1
        BY <1>2, <2>3, <2>4, <4>1
      <4>2. CASE i \in 1..Len(pbuf)
        BY <1>1, <1>2, <2>3, <2>4, <3>1, <3>3, <4>2 DEF FillingHasPacket
      <4>3. QED
        BY <1>3, <3>1, <4>1, <4>2
    <3>4. QED
      BY <3>2, <3>3 DEF FillingHasPacket
  <2>9. NewInvocation'
    <3>1. InBuffer' \subseteq InBuffer \cup {Current(p)}
      BY <1>3, <2>3 DEF InBuffer, Positions
    <3>2. WasExecuted' = WasExecuted
      BY <1>1 DEF WasExecuted
    <3>3. Seen' \subseteq Seen \cup {Current(p)}
      BY <2>1, <3>1, <3>2 DEF Seen
    <3>4. QED
      BY <1>1, <2>4, <3>3, CallerPastAlloc
  <2>10. SemCountsPackets'
    <3>1. Ready' = Ready
      BY <1>3, <2>3 DEF Ready, ReadyIn
    <3>2. Givers' = Givers
      BY <1>1, <2>4 DEF Givers
    <3>3. QED
      BY <1>1, <3>1, <3>2 DEF SemCountsPackets, Announced, Taken
  <2>11. QED
    BY <2>6, <2>7, <2>8, <2>9, <2>10
<1>5. CASE ~PacketFits
  <2>1. /\ pbuf' = pbuf /\ pc' = [pc EXCEPT ![p] = "idle"]
        /\ refused' = refused \cup {Current(p)}
    BY <1>1, <1>5 DEF AllocPacket, Return
  <2>2. /\ pc' \in [Callers -> {"idle", "immed", "alloc", "fill", "give"}]
        /\ pc'[p] = "idle" /\ \A q \in Callers \ {p} : pc'[q] = pc[q]
    BY <2>1 DEF TypeOK
  <2>3. TypeOK'
    BY <1>1, <1>2, <2>1, <2>2 DEF TypeOK
  <2>4. PacketsOrdered'
    BY <1>1, <2>1 DEF PacketsOrdered, Positions, Holding
  <2>5. FillingHasPacket'
    BY <1>1, <1>2, <2>1, <2>2 DEF FillingHasPacket, Positions
  <2>6. NewInvocation'
    <3>1. InBuffer' = InBuffer /\ WasExecuted' = WasExecuted
      BY <1>1, <2>1 DEF InBuffer, Positions, WasExecuted
    <3>2. Seen' \subseteq Seen \cup {Current(p)}
      BY <2>1, <3>1 DEF Seen
    <3>3. QED
      BY <1>1, <2>2, <3>2, CallerPastAlloc
  <2>7. SemCountsPackets'
    <3>1. Givers' = Givers
      BY <1>1, <2>2 DEF Givers
    <3>2. QED
      BY <1>1, <2>1, <3>1, CountKept
  <2>8. QED
    BY <2>3, <2>4, <2>5, <2>6, <2>7
<1>6. QED
  BY <1>4, <1>5

(* A packet is filled and committed: one more is ready, and one more caller *)
(* is to announce it.                                                       *)
LEMMA CommitIInv ==
    ASSUME IInv, NEW p \in Callers, CommitPacket(p)
    PROVE  IInv'
<1> USE DEF IInv
<1>1. /\ pc[p] = "fill" /\ pbuf' = Mark(pbuf, Current(p), "ready")
      /\ pc' = [pc EXCEPT ![p] = "give"]
      /\ content' = [content EXCEPT ![Current(p)] = opcode[p]]
      /\ UNCHANGED <<sem, opcode, invokes, refused, thread, executed>>
  BY DEF CommitPacket, Commit, threadVars
<1>2. Current(p) \in Ids /\ \A q \in Callers : Current(q)' = Current(q)
  BY <1>1, CurrentParts DEF Current
<1>3. pbuf \in Seq(Packets) /\ Len(pbuf) \in Nat /\ Len(pbuf) <= Capacity
  BY BufferType
<1>4. /\ pbuf' \in Seq(Packets) /\ Len(pbuf') = Len(pbuf)
      /\ \A i \in 1..Len(pbuf) :
           /\ pbuf'[i].id = pbuf[i].id
           /\ pbuf'[i].state = IF pbuf[i].id = Current(p) THEN "ready" ELSE pbuf[i].state
  BY <1>1, <1>3, MarkPacket DEF States
<1>5. PICK k \in 1..Len(pbuf) : pbuf[k].id = Current(p) /\ pbuf[k].state = "alloc"
  BY <1>1 DEF FillingHasPacket, Positions
<1>6. \A i \in 1..Len(pbuf) : pbuf[i].id = Current(p) => i = k
  BY <1>5 DEF PacketsOrdered, Positions
<1>7. /\ pc' \in [Callers -> {"idle", "immed", "alloc", "fill", "give"}]
      /\ pc'[p] = "give" /\ \A q \in Callers \ {p} : pc'[q] = pc[q] /\ Current(q) # Current(p)
  BY <1>1 DEF TypeOK, Current
<1>8. TypeOK'
  <2>1. content' \in [Ids -> Opcodes \cup {"unset"}]
    BY <1>1, <1>2 DEF TypeOK
  <2>2. QED
    BY <1>1, <1>3, <1>4, <1>7, <2>1 DEF TypeOK
<1>9. PacketsOrdered'
  <2>1. \A i \in 1..Len(pbuf) : pbuf'[i].state = "busy" <=> pbuf[i].state = "busy"
    BY <1>4, <1>5, <1>6
  <2>2. pbuf # <<>> <=> pbuf' # <<>>
    BY <1>3, <1>4
  <2>3. pbuf # <<>> => 1 \in 1..Len(pbuf)
    BY <1>3
  <2>4. Positions' = Positions /\ (Holding' <=> Holding)
    BY <1>1, <1>4 DEF Positions, Holding
  <2>5. QED
    BY <1>4, <2>1, <2>2, <2>3, <2>4 DEF PacketsOrdered, Positions
<1>10. FillingHasPacket'
  <2>1. Positions' = Positions /\ Positions = 1..Len(pbuf)
    BY <1>4 DEF Positions
  <2>2. ASSUME NEW q \in Callers, pc'[q] = "fill"
        PROVE  \E i \in Positions' : pbuf'[i].id = Current(q)' /\ pbuf'[i].state = "alloc"
    BY <1>2, <1>4, <1>7, <2>1, <2>2 DEF FillingHasPacket
  <2>3. ASSUME NEW i \in Positions', pbuf'[i].state = "alloc"
        PROVE  \E q \in Callers : pc'[q] = "fill" /\ pbuf'[i].id = Current(q)'
    <3>1. pbuf[i].state = "alloc" /\ pbuf[i].id # Current(p) /\ pbuf'[i].id = pbuf[i].id
      BY <1>4, <2>1, <2>3
    <3>2. QED
      BY <1>2, <1>7, <2>1, <3>1 DEF FillingHasPacket
  <2>4. QED
    BY <2>2, <2>3 DEF FillingHasPacket
<1>11. NewInvocation'
  <2>1. InBuffer' = InBuffer /\ WasExecuted' = WasExecuted
    BY <1>1, <1>4 DEF InBuffer, Positions, WasExecuted
  <2>2. Seen' \subseteq Seen \cup {Current(p)}
    BY <1>1, <2>1 DEF Seen
  <2>3. QED
    BY <1>1, <1>7, <2>2, CallerPastAlloc
<1>12. SemCountsPackets'
  <2>1. Ready' = Ready \cup {Current(p)} /\ Current(p) \notin Ready
    BY <1>2, <1>4, <1>5, <1>6 DEF Ready, ReadyIn
  <2>2. Givers' = Givers \cup {p} /\ p \notin Givers
    BY <1>1, <1>7 DEF Givers
  <2>3. IsFiniteSet(Ready) /\ IsFiniteSet(Givers)
    BY <1>3, ReadyBound DEF Ready, SemCountsPackets
  <2>4. /\ Cardinality(Ready') = Cardinality(Ready) + 1
        /\ IsFiniteSet(Givers') /\ Cardinality(Givers') = Cardinality(Givers) + 1
    BY <2>1, <2>2, <2>3, FS_AddElement
  <2>5. QED
    <3>1. Taken' = Taken
      BY <1>1 DEF Taken
    <3>2. Announced' = Announced + 1
      BY <2>4, <3>1, CountsAreNat DEF Announced
    <3>3. QED
      BY <1>1, <2>4, <3>2, CountsAreNat DEF SemCountsPackets
<1>13. QED
  BY <1>8, <1>9, <1>10, <1>11, <1>12

(* The packet is announced. *)
LEMMA GiveIInv ==
    ASSUME IInv, NEW p \in Callers, GiveSem(p)
    PROVE  IInv'
<1> USE DEF IInv
<1>1. /\ pc[p] = "give" /\ sem' = sem + 1 /\ pc' = [pc EXCEPT ![p] = "idle"]
      /\ UNCHANGED <<pbuf, opcode, invokes, content, refused, thread, executed>>
  BY DEF GiveSem, threadVars, Return
<1>2. /\ pc' \in [Callers -> {"idle", "immed", "alloc", "fill", "give"}]
      /\ pc'[p] = "idle" /\ \A q \in Callers \ {p} : pc'[q] = pc[q]
      /\ \A q \in Callers : Current(q)' = Current(q)
  BY <1>1 DEF TypeOK, Current
<1>3. pbuf \in Seq(Packets) /\ Len(pbuf) <= Capacity /\ sem' \in Nat
  BY <1>1, BufferType
<1>4. SemCountsPackets'
  <2>1. Ready' = Ready
    BY <1>1 DEF Ready
  <2>2. Givers' = Givers \ {p} /\ p \in Givers
    BY <1>1, <1>2 DEF Givers
  <2>3. IsFiniteSet(Givers') /\ Cardinality(Givers') = Cardinality(Givers) - 1
    BY <2>2, FS_RemoveElement DEF SemCountsPackets
  <2>4. QED
    <3>1. Taken' = Taken
      BY <1>1 DEF Taken
    <3>2. Announced' = Announced - 1
      BY <2>3, <3>1, CountsAreNat DEF Announced
    <3>3. QED
      BY <1>1, <2>1, <2>3, <3>2, CountsAreNat DEF SemCountsPackets
<1>5. TypeOK'
  <2>1. sem' \in 0..Capacity
    <3>1. Taken' \in Nat
      BY DEF Taken
    <3>2. QED
      BY <1>1, <1>3, <1>4, <3>1, SemWithinCapacity DEF SemCountsPackets, Announced, Ready
  <2>2. QED
    BY <1>1, <1>2, <2>1 DEF TypeOK
<1>6. PacketsOrdered'
  BY <1>1 DEF PacketsOrdered, Positions, Holding
<1>7. FillingHasPacket'
  BY <1>1, <1>2 DEF FillingHasPacket, Positions
<1>8. NewInvocation'
  <2>1. Seen' \subseteq Seen \cup {Current(p)}
    BY <1>1 DEF Seen, InBuffer, Positions, WasExecuted
  <2>2. QED
    BY <1>1, <1>2, <2>1, CallerPastAlloc
<1>9. QED
  BY <1>4, <1>5, <1>6, <1>7, <1>8

(* The thread takes the semaphore for a packet. *)
LEMMA TakeIInv ==
    ASSUME IInv, TakeSem
    PROVE  IInv'
<1> USE DEF IInv
<1>1. /\ thread = "take" /\ sem > 0 /\ sem' = sem - 1 /\ thread' = "claim"
      /\ UNCHANGED <<pbuf, pc, opcode, invokes, refused, content, executed>>
  BY DEF TakeSem, callerVars
<1>2. TypeOK'
  BY <1>1, CmdAssumption DEF TypeOK
<1>3. PacketsOrdered'
  BY <1>1 DEF PacketsOrdered, Positions, Holding
<1>4. FillingHasPacket'
  BY <1>1 DEF FillingHasPacket, Positions, Current
<1>5. NewInvocation'
  <2>1. Seen' = Seen
    BY <1>1 DEF Seen, InBuffer, Positions, WasExecuted
  <2>2. QED
    BY <1>1, <2>1, ThreadSeesNoNew
<1>6. SemCountsPackets'
  <2>1. Ready' = Ready /\ Givers' = Givers
    BY <1>1 DEF Ready, Givers
  <2>2. QED
    BY <1>1, <2>1, CountsAreNat DEF SemCountsPackets, Announced, Taken
<1>7. QED
  BY <1>2, <1>3, <1>4, <1>5, <1>6

(* A thread that claims knows of a committed packet. *)
LEMMA ClaimFindsReady ==
    ASSUME IInv, thread = "claim"
    PROVE  \E i \in Positions : pbuf[i].state = "ready"
<1>1. Cardinality(Ready) = sem + (Cardinality(Givers) + 1) /\ sem \in Nat /\ Cardinality(Givers) \in Nat
  BY CountsAreNat DEF IInv, SemCountsPackets, Announced, Taken
<1>2. Ready # {}
  BY <1>1, FS_EmptySet
<1>3. QED
  BY <1>2 DEF Ready, ReadyIn, Positions

(* The packet first in order is claimed, or there is none to claim. *)
LEMMA ClaimIInv ==
    ASSUME IInv, ClaimPacket
    PROVE  IInv'
<1> USE DEF IInv
<1>1. thread = "claim" /\ UNCHANGED <<sem, pc, opcode, invokes, refused, content, executed>>
  BY DEF ClaimPacket, callerVars
<1>2. \A q \in Callers : Current(q)' = Current(q)
  BY <1>1 DEF Current
<1>3. pbuf \in Seq(Packets) /\ Len(pbuf) \in Nat /\ Len(pbuf) <= Capacity
  BY BufferType
<1>4. CASE CanClaim(pbuf)
  <2>1. pbuf' = Claim(pbuf) /\ thread' = "call"
    BY <1>4 DEF ClaimPacket
  <2>2. 1 \in 1..Len(pbuf) /\ NextToClaim(pbuf) = 1 /\ pbuf[1].state = "ready"
    BY <1>1, <1>3, <1>4 DEF CanClaim, NextToClaim, PacketsOrdered, Positions, Holding
  <2>3. pbuf' = Mark(pbuf, pbuf[1].id, "busy")
    BY <2>1, <2>2 DEF Claim, ClaimedId
  <2>4. /\ pbuf' \in Seq(Packets) /\ Len(pbuf') = Len(pbuf)
        /\ \A i \in 1..Len(pbuf) :
             /\ pbuf'[i].id = pbuf[i].id
             /\ pbuf'[i].state = IF pbuf[i].id = pbuf[1].id THEN "busy" ELSE pbuf[i].state
    BY <1>3, <2>3, MarkPacket DEF States
  <2>5. \A i \in 1..Len(pbuf) : pbuf'[i].state = IF i = 1 THEN "busy" ELSE pbuf[i].state
    BY <2>2, <2>4 DEF PacketsOrdered, Positions
  <2>6. TypeOK'
    BY <1>1, <1>3, <2>1, <2>4 DEF TypeOK
  <2>7. PacketsOrdered'
    <3>1. pbuf' # <<>> /\ pbuf'[1].state = "busy"
      BY <1>3, <2>2, <2>4, <2>5
    <3>2. \A i \in 1..Len(pbuf) : pbuf[i].state # "busy"
      BY <1>1, <2>2 DEF PacketsOrdered, Positions, Holding
    <3>3. Positions' = Positions /\ Holding'
      BY <2>1, <2>4 DEF Positions, Holding
    <3>4. QED
      BY <2>4, <2>5, <3>1, <3>2, <3>3 DEF PacketsOrdered, Positions
  <2>8. FillingHasPacket'
    BY <1>1, <1>2, <2>2, <2>4, <2>5 DEF FillingHasPacket, Positions
  <2>9. NewInvocation'
    <3>1. InBuffer' = InBuffer /\ WasExecuted' = WasExecuted
      BY <1>1, <2>4 DEF InBuffer, Positions, WasExecuted
    <3>2. Seen' = Seen
      BY <1>1, <3>1 DEF Seen
    <3>3. QED
      BY <1>1, <3>2, ThreadSeesNoNew
  <2>10. SemCountsPackets'
    <3>1. pbuf[1] \in Packets
      BY <1>3, <2>2
    <3>2. pbuf[1].id \in Ids
      BY <3>1 DEF Packets
    <3>3. Ready' = Ready \ {pbuf[1].id} /\ pbuf[1].id \in Ready
      BY <2>2, <2>4, <2>5, <3>2 DEF Ready, ReadyIn
    <3>4. Givers' = Givers
      BY <1>1 DEF Givers
    <3>5. Cardinality(Ready') = Cardinality(Ready) - 1
      <4>1. IsFiniteSet(Ready)
        BY <1>3, ReadyBound DEF Ready
      <4>2. QED
        BY <3>3, <4>1, FS_RemoveElement
    <3>6. QED
      BY <1>1, <2>1, <3>4, <3>5, CountsAreNat DEF SemCountsPackets, Announced, Taken
  <2>11. QED
    BY <2>6, <2>7, <2>8, <2>9, <2>10
<1>5. CASE ~CanClaim(pbuf)
  <2>1. pbuf' = pbuf /\ thread' = "null packet"
    BY <1>5 DEF ClaimPacket
  <2>2. TypeOK'
    BY <1>1, <2>1 DEF TypeOK
  <2>3. PacketsOrdered'
    BY <1>1, <2>1 DEF PacketsOrdered, Positions, Holding
  <2>4. FillingHasPacket'
    BY <1>1, <1>2, <2>1 DEF FillingHasPacket, Positions
  <2>5. NewInvocation'
    <3>1. Seen' = Seen
      BY <1>1, <2>1 DEF Seen, InBuffer, Positions, WasExecuted
    <3>2. QED
      BY <1>1, <3>1, ThreadSeesNoNew
  <2>6. SemCountsPackets'
    <3>1. Givers' = Givers
      BY <1>1 DEF Givers
    <3>2. QED
      BY <1>1, <2>1, <3>1, CountKept
  <2>7. QED
    BY <2>2, <2>3, <2>4, <2>5, <2>6
<1>6. QED
  BY <1>4, <1>5

(* The deferred handler is called, of a packet in the buffer. *)
LEMMA CallIInv ==
    ASSUME IInv, CallDeferred
    PROVE  IInv'
<1> USE DEF IInv
<1>1. /\ thread = "call" /\ thread' \in {"free", "null handler"}
      /\ UNCHANGED <<pbuf, sem, pc, opcode, invokes, refused, content>>
      /\ \/ executed' = executed
         \/ executed' = Append(executed, pbuf[1].id)
  BY DEF CallDeferred, callerVars, Claimed
<1>2. 1 \in Positions /\ pbuf[1] \in Packets
  <2>1. pbuf # <<>>
    BY <1>1 DEF PacketsOrdered, Holding
  <2>2. 1 \in 1..Len(pbuf)
    <3>1. pbuf \in Seq(Packets)
      BY BufferType
    <3>2. QED
      BY <2>1, <3>1
  <2>3. QED
    BY <2>2, BufferType DEF Positions
<1>3. pbuf[1].id \in Ids /\ pbuf[1].id \in InBuffer
  BY <1>2 DEF Packets, InBuffer
<1>4. TypeOK'
  <2>1. executed' \in Seq(Ids)
    <3>1. executed \in Seq(Ids)
      BY BufferType
    <3>2. Append(executed, pbuf[1].id) \in Seq(Ids)
      BY <1>3, <3>1
    <3>3. QED
      BY <1>1, <3>1, <3>2
  <2>2. QED
    BY <1>1, <2>1 DEF TypeOK
<1>5. PacketsOrdered'
  BY <1>1 DEF PacketsOrdered, Positions, Holding
<1>6. FillingHasPacket'
  BY <1>1 DEF FillingHasPacket, Positions, Current
<1>7. NewInvocation'
  <2>1. WasExecuted' \subseteq WasExecuted \cup {pbuf[1].id}
    <3>1. CASE executed' = executed
      BY <3>1 DEF WasExecuted
    <3>2. CASE executed' = Append(executed, pbuf[1].id)
      <4>1. executed \in Seq(Ids)
        BY BufferType
      <4>2. ASSUME NEW i \in 1..Len(executed')
            PROVE  \/ executed'[i] = pbuf[1].id
                   \/ i \in 1..Len(executed) /\ executed'[i] = executed[i]
        BY <1>3, <3>2, <4>1, AppendProperties
      <4>3. QED
        BY <4>2 DEF WasExecuted
    <3>3. QED
      BY <1>1, <3>1, <3>2
  <2>2. InBuffer' = InBuffer
    BY <1>1 DEF InBuffer, Positions
  <2>3. Seen' \subseteq Seen
    BY <1>1, <1>3, <2>1, <2>2 DEF Seen
  <2>4. QED
    BY <1>1, <2>3, ThreadSeesNoNew
<1>8. SemCountsPackets'
  <2>1. Givers' = Givers
    BY <1>1 DEF Givers
  <2>2. QED
    BY <1>1, <2>1, CountKept
<1>9. QED
  BY <1>4, <1>5, <1>6, <1>7, <1>8

(* The first packet is freed: the rest move up. *)
LEMMA FreeIInv ==
    ASSUME IInv, FreePacket
    PROVE  IInv'
<1> USE DEF IInv
<1>1. /\ thread = "free" /\ thread' = "take" /\ pbuf' = Tail(pbuf)
      /\ UNCHANGED <<sem, pc, opcode, invokes, refused, content, executed>>
  BY DEF FreePacket, callerVars, Free
<1>2. \A q \in Callers : Current(q)' = Current(q)
  BY <1>1 DEF Current
<1>3. /\ pbuf \in Seq(Packets) /\ pbuf # <<>> /\ pbuf[1].state = "busy"
      /\ Len(pbuf) \in Nat /\ Len(pbuf) <= Capacity /\ Capacity \in Nat
  BY <1>1, CmdAssumption DEF TypeOK, PacketsOrdered, Holding
<1>4. /\ pbuf' \in Seq(Packets) /\ Len(pbuf') = Len(pbuf) - 1
      /\ \A i \in 1..Len(pbuf) - 1 : pbuf'[i] = pbuf[i + 1]
  BY <1>1, <1>3
<1>5. /\ \A i \in 1..Len(pbuf) - 1 : i + 1 \in 1..Len(pbuf) /\ i + 1 # 1
      /\ \A i \in 1..Len(pbuf) : i = 1 \/ (i - 1 \in 1..Len(pbuf) - 1 /\ (i - 1) + 1 = i)
  BY <1>3
<1>6. TypeOK'
  BY <1>1, <1>3, <1>4 DEF TypeOK
<1>7. PacketsOrdered'
  <2>1. \A i \in 1..Len(pbuf) - 1 : pbuf'[i].state # "busy"
    BY <1>4, <1>5 DEF PacketsOrdered, Positions
  <2>2. \A i, j \in 1..Len(pbuf) - 1 : pbuf'[i].id = pbuf'[j].id => i = j
    <3>1. SUFFICES ASSUME NEW i \in 1..Len(pbuf) - 1, NEW j \in 1..Len(pbuf) - 1,
                          pbuf[i + 1].id = pbuf[j + 1].id
                   PROVE  i = j
      BY <1>4
    <3>2. i + 1 = j + 1
      BY <1>5, <3>1 DEF PacketsOrdered, Positions
    <3>3. QED
      BY <1>3, <3>2
  <2>3. QED
    BY <1>1, <1>4, <2>1, <2>2 DEF PacketsOrdered, Positions, Holding
<1>8. FillingHasPacket'
  <2>1. ASSUME NEW q \in Callers, pc[q] = "fill"
        PROVE  \E i \in 1..Len(pbuf) - 1 : pbuf'[i].id = Current(q) /\ pbuf'[i].state = "alloc"
    <3>1. PICK k \in 1..Len(pbuf) : pbuf[k].id = Current(q) /\ pbuf[k].state = "alloc"
      BY <2>1 DEF FillingHasPacket, Positions
    <3>2. k - 1 \in 1..Len(pbuf) - 1 /\ pbuf'[k - 1] = pbuf[k]
      BY <1>3, <1>4, <1>5, <3>1
    <3>3. QED
      BY <3>1, <3>2
  <2>2. ASSUME NEW i \in 1..Len(pbuf) - 1, pbuf'[i].state = "alloc"
        PROVE  \E q \in Callers : pc[q] = "fill" /\ pbuf'[i].id = Current(q)
    BY <1>4, <1>5, <2>2 DEF FillingHasPacket, Positions
  <2>3. QED
    <3>1. Positions' = 1..Len(pbuf) - 1
      BY <1>4 DEF Positions
    <3>2. QED
      BY <1>1, <1>2, <2>1, <2>2, <3>1 DEF FillingHasPacket
<1>9. NewInvocation'
  <2>1. InBuffer' \subseteq InBuffer
    BY <1>4, <1>5 DEF InBuffer, Positions
  <2>2. WasExecuted' = WasExecuted
    BY <1>1 DEF WasExecuted
  <2>3. Seen' \subseteq Seen
    BY <1>1, <2>1, <2>2 DEF Seen
  <2>4. QED
    BY <1>1, <2>3, ThreadSeesNoNew
<1>10. SemCountsPackets'
  <2>1. ASSUME NEW id \in Ids
        PROVE  id \in ReadyIn(pbuf') <=> id \in ReadyIn(pbuf)
    <3>1. ASSUME NEW k \in 1..Len(pbuf), pbuf[k].id = id, pbuf[k].state = "ready"
          PROVE  id \in ReadyIn(pbuf')
      <4>1. k - 1 \in 1..Len(pbuf') /\ pbuf'[k - 1] = pbuf[k]
        BY <1>3, <1>4, <1>5, <3>1
      <4>2. QED
        BY <3>1, <4>1 DEF ReadyIn
    <3>2. ASSUME NEW i \in 1..Len(pbuf'), pbuf'[i].id = id, pbuf'[i].state = "ready"
          PROVE  id \in ReadyIn(pbuf)
      BY <1>4, <1>5, <3>2 DEF ReadyIn
    <3>3. QED
      BY <3>1, <3>2 DEF ReadyIn
  <2>2. Ready' = Ready
    BY <2>1 DEF Ready, ReadyIn
  <2>3. Givers' = Givers
    BY <1>1 DEF Givers
  <2>4. QED
    BY <1>1, <2>2, <2>3 DEF SemCountsPackets, Announced, Taken
<1>11. QED
  BY <1>6, <1>7, <1>8, <1>9, <1>10

(* Every step, and stuttering, preserves the invariant. *)
LEMMA NextIInv == IInv /\ [Next]_vars => IInv'
<1> SUFFICES ASSUME IInv, [Next]_vars PROVE IInv'
  OBVIOUS
<1>1. CASE Thread
  BY <1>1, TakeIInv, ClaimIInv, CallIInv, FreeIInv DEF Thread
<1>2. ASSUME NEW p \in Callers, Caller(p) PROVE IInv'
  BY <1>2, ImmediateIInv, AllocIInv, CommitIInv, GiveIInv DEF Caller
<1>3. ASSUME NEW p \in Callers, NEW o \in Opcodes, Invoke(p, o) PROVE IInv'
  BY <1>3, InvokeIInv
<1>4. CASE UNCHANGED vars
  <2>1. UNCHANGED <<pbuf, sem, pc, opcode, invokes, refused, content, thread, executed>>
    BY <1>4 DEF vars, callerVars, threadVars
  <2>2. TypeOK'
    BY <2>1 DEF IInv, TypeOK
  <2>3. PacketsOrdered' /\ FillingHasPacket'
    BY <2>1 DEF IInv, PacketsOrdered, FillingHasPacket, Positions, Holding, Current
  <2>4. NewInvocation'
    BY <2>1 DEF IInv, NewInvocation, Current, Seen, InBuffer, Positions, WasExecuted
  <2>5. SemCountsPackets'
    BY <2>1 DEF IInv, SemCountsPackets, Announced, Taken, Ready, Givers
  <2>6. QED
    BY <2>2, <2>3, <2>4, <2>5 DEF IInv
<1>5. QED
  BY <1>1, <1>2, <1>3, <1>4 DEF Next

(* The invariant holds in every state. *)
THEOREM Invariance == Spec => []IInv
BY InitIInv, NextIInv, PTL DEF Spec

(* The thread finds no packet only when a caller was overtaken between its  *)
(* allocation and its commit (cmd.c, cmd_process_thread()).                 *)
THEOREM NullPacketOnlyWhenOvertakenHolds == Spec => NullPacketOnlyWhenOvertaken
<1>1. ASSUME IInv, Next, thread # "null packet", thread' = "null packet"
      PROVE  /\ \E p \in Callers : pc[p] = "fill" /\ pbuf[1].id = Current(p)
             /\ \E i \in 2..Len(pbuf) : pbuf[i].state = "ready"
  <2>1. ClaimPacket
    <3>1. ASSUME NEW p \in Callers, Caller(p) \/ \E o \in Opcodes : Invoke(p, o) PROVE thread' = thread
      BY <3>1 DEF Caller, ImmediateReturns, AllocPacket, CommitPacket, GiveSem, Invoke, threadVars
    <3>2. QED
      BY <1>1, <3>1 DEF Next, Thread, TakeSem, CallDeferred, FreePacket
  <2>2. thread = "claim" /\ ~CanClaim(pbuf)
    BY <1>1, <2>1 DEF ClaimPacket
  <2>3. PICK k \in Positions : pbuf[k].state = "ready"
    BY <1>1, <2>2, ClaimFindsReady
  <2>4. /\ pbuf \in Seq(Packets) /\ Len(pbuf) \in Nat /\ pbuf # <<>> /\ 1 \in Positions
        /\ pbuf[1].state # "busy"
    <3>1. pbuf \in Seq(Packets) /\ Len(pbuf) \in Nat
      BY <1>1, BufferType DEF IInv
    <3>2. pbuf # <<>> /\ 1 \in Positions
      BY <2>3, <3>1 DEF Positions
    <3>3. pbuf[1].state # "busy"
      BY <1>1, <2>2, <3>2 DEF IInv, PacketsOrdered, Holding
    <3>4. QED
      BY <3>1, <3>2, <3>3
  <2>5. NextToClaim(pbuf) = 1 /\ pbuf[1].state # "ready"
    BY <2>2, <2>4 DEF CanClaim, NextToClaim
  <2>6. pbuf[1].state = "alloc"
    <3>1. pbuf[1] \in Packets
      BY <2>4 DEF Positions
    <3>2. QED
      BY <2>4, <2>5, <3>1 DEF Packets, States
  <2>7. \E p \in Callers : pc[p] = "fill" /\ pbuf[1].id = Current(p)
    BY <1>1, <2>4, <2>6 DEF IInv, FillingHasPacket
  <2>8. k \in 2..Len(pbuf)
    BY <2>3, <2>4, <2>5 DEF Positions
  <2>9. QED
    BY <2>3, <2>7, <2>8
<1>2. IInv /\ [Next]_vars =>
        [thread # "null packet" /\ thread' = "null packet" =>
           /\ \E p \in Callers : pc[p] = "fill" /\ pbuf[1].id = Current(p)
           /\ \E i \in 2..Len(pbuf) : pbuf[i].state = "ready"]_vars
  BY <1>1
<1>3. QED
  BY <1>2, Invariance, PTL DEF Spec, NullPacketOnlyWhenOvertaken

-----------------------------------------------------------------------------
(* The refinement of CmdQueue. *)

(* The invocations of the packets after the one that has been executed. *)
Done == IF thread = "free" THEN 1 ELSE 0

(* What is waiting: its length and its elements. *)
LEMMA Waiting ==
    ASSUME IInv
    PROVE  /\ Done \in {0, 1} /\ Len(pbuf) - Done \in Nat
           /\ WaitingIds = [i \in 1..Len(pbuf) - Done |-> pbuf[i + Done].id]
           /\ \A i \in 1..Len(pbuf) - Done : i + Done \in 1..Len(pbuf)
           /\ WaitingIds \in Seq(Ids) /\ Len(WaitingIds) = Len(pbuf) - Done
           /\ Queue!Elements(WaitingIds) \subseteq Seen
<1>1. Done \in {0, 1} /\ WaitingIds = [i \in 1..Len(pbuf) - Done |-> pbuf[i + Done].id]
  BY DEF Done, WaitingIds
<1>2. /\ pbuf \in Seq(Packets) /\ Len(pbuf) \in Nat
      /\ \A i \in 1..Len(pbuf) : pbuf[i] \in Packets
  BY BufferType DEF IInv
<1>3. Done = 1 => pbuf # <<>>
  <2>1. thread # "free" => Done = 0
    BY DEF Done
  <2>2. QED
    <3>1. Holding => pbuf # <<>>
      BY DEF IInv, PacketsOrdered
    <3>2. thread = "free" => Holding
      BY DEF Holding
    <3>3. QED
      BY <2>1, <3>1, <3>2
<1>4. Len(pbuf) - Done \in Nat /\ \A i \in 1..Len(pbuf) - Done : i + Done \in 1..Len(pbuf)
  BY <1>1, <1>2, <1>3
<1>5. \A i \in 1..Len(pbuf) - Done : pbuf[i + Done].id \in Ids
  BY <1>2, <1>4 DEF Packets
<1>6. WaitingIds \in Seq(Ids) /\ Len(WaitingIds) = Len(pbuf) - Done
  BY <1>1, <1>4, <1>5
<1>7. Queue!Elements(WaitingIds) \subseteq InBuffer
  BY <1>1, <1>4, <1>6 DEF Queue!Elements, InBuffer, Positions
<1>8. QED
  BY <1>1, <1>4, <1>6, <1>7 DEF Seen

(* An invocation that has been nowhere is neither waiting nor executed. *)
LEMMA NowhereYet ==
    ASSUME IInv, NEW id, id \notin Seen
    PROVE  id \notin refused \cup Queue!Elements(WaitingIds) \cup Queue!Elements(executed)
BY Waiting DEF Seen, Queue!Elements, WasExecuted

(* Steps that keep the order of the buffer, and the outcomes, are no steps  *)
(* of the queue.                                                            *)
LEMMA QueueStutters ==
    ASSUME UNCHANGED <<executed, refused>>, Done' = Done, Len(pbuf') = Len(pbuf), IInv,
           \A i \in 1..Len(pbuf) : pbuf'[i].id = pbuf[i].id
    PROVE  UNCHANGED Queue!vars
<1>1. WaitingIds' = [i \in 1..Len(pbuf) - Done |-> pbuf'[i + Done].id]
  BY DEF Done, WaitingIds
<1>2. WaitingIds' = WaitingIds
  BY <1>1, Waiting
<1>3. QED
  BY <1>2 DEF Queue!vars

(* A caller's step accepts its invocation, refuses it, or leaves the queue. *)
LEMMA CallerRefines ==
    ASSUME IInv, NEW p \in Callers, Caller(p)
    PROVE  [Queue!Next]_Queue!vars
<1>1. thread' = thread /\ executed' = executed /\ Done' = Done
  BY DEF Caller, ImmediateReturns, AllocPacket, CommitPacket, GiveSem, threadVars, Done
<1>2. ASSUME NEW ok \in BOOLEAN, ImmediateReturns(p, ok)
      PROVE  [Queue!Next]_Queue!vars
  <2>1. pbuf' = pbuf /\ pc[p] = "immed"
    BY <1>2 DEF ImmediateReturns
  <2>2. CASE refused' = refused
    BY <1>1, <2>1, <2>2, QueueStutters
  <2>3. CASE refused' = refused \cup {Current(p)}
    <3>1. Current(p) \in Ids /\ Current(p) \notin Seen
      BY <2>1, CurrentParts DEF IInv, NewInvocation
    <3>2. WaitingIds' = WaitingIds
      BY <1>1, <2>1 DEF WaitingIds
    <3>3. Queue!Refuse(Current(p))
      BY <1>1, <2>3, <3>1, <3>2, NowhereYet DEF Queue!Refuse
    <3>4. QED
      BY <3>1, <3>3 DEF Queue!Next
  <2>4. QED
    BY <1>2, <2>2, <2>3 DEF ImmediateReturns, AfterImmediate
<1>3. CASE AllocPacket(p)
  <2>1. pc[p] = "alloc"
    BY <1>3 DEF AllocPacket
  <2>2. Current(p) \in Ids /\ Current(p) \notin Seen
    BY <2>1, CurrentParts DEF IInv, NewInvocation
  <2>3. CASE PacketFits
    <3>1. pbuf' = Append(pbuf, Packet(Current(p))) /\ Len(pbuf) < Capacity /\ refused' = refused
      BY <1>3, <2>3 DEF AllocPacket, Alloc, PacketFits, HasRoom
    <3>2. /\ pbuf \in Seq(Packets) /\ Len(pbuf) \in Nat /\ Capacity \in Nat
          /\ Packet(Current(p)) \in Packets
      BY <2>2, BufferType DEF IInv, Packet, Packets, States
    <3>3. /\ Len(pbuf') = Len(pbuf) + 1 /\ pbuf'[Len(pbuf) + 1].id = Current(p)
          /\ \A i \in 1..Len(pbuf) : pbuf'[i] = pbuf[i]
      BY <3>1, <3>2 DEF Packet
    <3>4. WaitingIds' = [i \in 1..Len(pbuf) + 1 - Done |-> pbuf'[i + Done].id]
      BY <1>1, <3>3 DEF WaitingIds, Done
    <3>5. WaitingIds' = Append(WaitingIds, Current(p))
      <4> DEFINE n == Len(pbuf) - Done
      <4>1. n \in Nat /\ Len(pbuf) + 1 - Done = n + 1 /\ n + 1 + Done = Len(pbuf) + 1
        BY <3>2, Waiting
      <4>2. /\ WaitingIds \in Seq(Ids) /\ Len(WaitingIds) = n
            /\ \A i \in 1..n : WaitingIds[i] = pbuf[i + Done].id /\ i + Done \in 1..Len(pbuf)
        BY Waiting
      <4>3. \A i \in 1..n + 1 :
              WaitingIds'[i] = IF i = n + 1 THEN Current(p) ELSE WaitingIds[i]
        BY <3>3, <3>4, <4>1, <4>2
      <4>4. /\ Append(WaitingIds, Current(p)) \in Seq(Ids)
            /\ Len(Append(WaitingIds, Current(p))) = n + 1
            /\ \A i \in 1..n + 1 : Append(WaitingIds, Current(p))[i] =
                                     IF i = n + 1 THEN Current(p) ELSE WaitingIds[i]
        BY <2>2, <4>1, <4>2, AppendProperties
      <4>5. WaitingIds' \in Seq(Ids) /\ Len(WaitingIds') = n + 1
        <5>1. WaitingIds' = [i \in 1..n + 1 |-> pbuf'[i + Done].id]
          BY <3>4, <4>1
        <5>2. \A i \in 1..n + 1 : WaitingIds'[i] \in Ids
          BY <2>2, <4>1, <4>2, <4>3
        <5>3. QED
          BY <4>1, <5>1, <5>2
      <4>6. QED
        BY <4>3, <4>4, <4>5, SeqEqual
    <3>6. Len(WaitingIds) < Capacity
      BY <3>1, <3>2, Waiting
    <3>7. Queue!Accept(Current(p))
      BY <1>1, <2>2, <3>1, <3>5, <3>6, NowhereYet DEF Queue!Accept
    <3>8. QED
      BY <2>2, <3>7 DEF Queue!Next
  <2>4. CASE ~PacketFits
    <3>1. pbuf' = pbuf /\ refused' = refused \cup {Current(p)}
      BY <1>3, <2>4 DEF AllocPacket
    <3>2. WaitingIds' = WaitingIds
      BY <1>1, <3>1 DEF WaitingIds
    <3>3. Queue!Refuse(Current(p))
      BY <1>1, <2>2, <3>1, <3>2, NowhereYet DEF Queue!Refuse
    <3>4. QED
      BY <2>2, <3>3 DEF Queue!Next
  <2>5. QED
    BY <2>3, <2>4
<1>4. CASE CommitPacket(p)
  <2>1. pbuf' = Mark(pbuf, Current(p), "ready") /\ refused' = refused
    BY <1>4 DEF CommitPacket, Commit
  <2>2. pbuf \in Seq(Packets) /\ "ready" \in States
    BY BufferType DEF IInv, States
  <2>3. Len(pbuf') = Len(pbuf) /\ \A i \in 1..Len(pbuf) : pbuf'[i].id = pbuf[i].id
    BY <2>1, <2>2, MarkPacket
  <2>4. QED
    BY <1>1, <2>1, <2>3, QueueStutters
<1>5. CASE GiveSem(p)
  BY <1>1, <1>5, QueueStutters DEF GiveSem
<1>6. QED
  BY <1>2, <1>3, <1>4, <1>5 DEF Caller

(* A new invocation is refused where its opcode is unknown. *)
LEMMA InvokeRefines ==
    ASSUME IInv, NEW p \in Callers, NEW o \in Opcodes, Invoke(p, o)
    PROVE  [Queue!Next]_Queue!vars
<1>1. /\ invokes[p] < MaxInvokes /\ pbuf' = pbuf /\ thread' = thread /\ executed' = executed
      /\ refused' = refused \/ refused' = refused \cup {<<p, invokes[p] + 1>>}
  BY DEF Invoke, threadVars
<1>2. CASE refused' = refused
  BY <1>1, <1>2, QueueStutters DEF Done
<1>3. CASE refused' = refused \cup {<<p, invokes[p] + 1>>}
  <2>1. invokes[p] \in Nat /\ invokes[p] + 1 \in 1..MaxInvokes
    <3>1. invokes[p] \in 0..MaxInvokes
      BY DEF IInv, TypeOK
    <3>2. QED
      BY <1>1, <3>1, CmdAssumption
  <2>2. <<p, invokes[p] + 1>> \in Ids
    BY <2>1, IdParts
  <2>3. <<p, invokes[p] + 1>> \notin Seen
    BY <2>1 DEF IInv, NewInvocation
  <2>4. WaitingIds' = WaitingIds
    BY <1>1 DEF WaitingIds
  <2>5. Queue!Refuse(<<p, invokes[p] + 1>>)
    BY <1>1, <1>3, <2>3, <2>4, NowhereYet DEF Queue!Refuse
  <2>6. QED
    BY <2>2, <2>5 DEF Queue!Next
<1>4. QED
  BY <1>1, <1>2, <1>3

(* The thread's steps: a call executes the first invocation. *)
LEMMA ThreadRefines ==
    ASSUME IInv, Thread
    PROVE  [Queue!Next]_Queue!vars
<1>1. pbuf \in Seq(Packets) /\ Len(pbuf) \in Nat /\ refused' = refused
  BY BufferType DEF IInv, Thread, TakeSem, ClaimPacket, CallDeferred, FreePacket, callerVars
<1>2. CASE TakeSem
  BY <1>1, <1>2, QueueStutters DEF TakeSem, Done
<1>3. CASE ClaimPacket
  <2>1. executed' = executed /\ Done' = Done
    BY <1>3 DEF ClaimPacket, Done
  <2>2. Len(pbuf') = Len(pbuf) /\ \A i \in 1..Len(pbuf) : pbuf'[i].id = pbuf[i].id
    <3>1. CASE pbuf' = pbuf
      BY <3>1
    <3>2. CASE pbuf' = Mark(pbuf, ClaimedId(pbuf), "busy")
      BY <1>1, <3>2, MarkPacket DEF States
    <3>3. QED
      BY <1>3, <3>1, <3>2 DEF ClaimPacket, Claim
  <2>3. QED
    BY <1>1, <2>1, <2>2, QueueStutters
<1>4. CASE CallDeferred
  <2>1. thread = "call" /\ pbuf' = pbuf /\ pbuf # <<>>
    BY <1>4 DEF CallDeferred, IInv, PacketsOrdered, Holding
  <2>2. CASE thread' = "free" /\ executed' = Append(executed, pbuf[1].id)
    <3>1. Done = 0 /\ Done' = 1
      BY <2>1, <2>2 DEF Done
    <3>2. /\ WaitingIds \in Seq(Ids) /\ Len(WaitingIds) = Len(pbuf) /\ Len(pbuf) > 0
          /\ \A i \in 1..Len(pbuf) : WaitingIds[i] = pbuf[i].id
      BY <1>1, <2>1, <3>1, Waiting
    <3>3. WaitingIds' = [i \in 1..Len(pbuf) - 1 |-> pbuf[i + 1].id]
      BY <2>1, <3>1 DEF WaitingIds, Done
    <3>4. /\ Tail(WaitingIds) \in Seq(Ids) /\ Len(Tail(WaitingIds)) = Len(pbuf) - 1
          /\ \A i \in 1..Len(pbuf) - 1 : Tail(WaitingIds)[i] = WaitingIds[i + 1]
      BY <1>1, <3>2, HeadTailProperties
    <3>5. \A i \in 1..Len(pbuf) - 1 : i + 1 \in 1..Len(pbuf) /\ pbuf[i + 1].id \in Ids
      BY <1>1, <3>2
    <3>6. WaitingIds' = Tail(WaitingIds)
      <4>1. WaitingIds' \in Seq(Ids) /\ Len(WaitingIds') = Len(pbuf) - 1
        BY <1>1, <3>2, <3>3, <3>5
      <4>2. \A i \in 1..Len(pbuf) - 1 : WaitingIds'[i] = Tail(WaitingIds)[i]
        BY <3>2, <3>3, <3>4, <3>5
      <4>3. QED
        BY <3>4, <4>1, <4>2, SeqEqual
    <3>7. WaitingIds # <<>> /\ Head(WaitingIds) = pbuf[1].id
      BY <1>1, <3>2
    <3>8. Queue!Execute
      BY <1>1, <2>2, <3>6, <3>7 DEF Queue!Execute
    <3>9. QED
      BY <3>8 DEF Queue!Next
  <2>3. CASE thread' = "null handler" /\ executed' = executed
    <3>1. Done' = Done
      BY <2>1, <2>3 DEF Done
    <3>2. QED
      BY <1>1, <2>1, <2>3, <3>1, QueueStutters
  <2>4. QED
    BY <1>4, <2>2, <2>3 DEF CallDeferred, Claimed
<1>5. CASE FreePacket
  <2>1. /\ thread = "free" /\ thread' = "take" /\ pbuf' = Tail(pbuf) /\ executed' = executed
        /\ pbuf # <<>>
    BY <1>5 DEF FreePacket, Free, IInv, PacketsOrdered, Holding
  <2>2. Done = 1 /\ Done' = 0
    BY <2>1 DEF Done
  <2>3. /\ Len(pbuf') = Len(pbuf) - 1
        /\ \A i \in 1..Len(pbuf) - 1 : pbuf'[i] = pbuf[i + 1]
    BY <1>1, <2>1
  <2>4. WaitingIds' = [i \in 1..Len(pbuf') |-> pbuf'[i].id]
    BY <1>1, <2>2, <2>3 DEF WaitingIds, Done
  <2>5. WaitingIds' = WaitingIds
    BY <2>2, <2>3, <2>4, Waiting
  <2>6. QED
    BY <1>1, <2>1, <2>5 DEF Queue!vars
<1>6. QED
  BY <1>2, <1>3, <1>4, <1>5 DEF Thread

(* Commands given to the deferred thread are executed once each, in the     *)
(* order of their allocation, and refused ones never (cmd.c): the command   *)
(* system implements the queue.                                             *)
THEOREM QueueImplemented == Spec => ImplementsQueue
<1>1. Init => Queue!Init
  <2>1. SUFFICES ASSUME Init PROVE Queue!Init
    OBVIOUS
  <2>2. WaitingIds = <<>>
    <3>1. IInv /\ Len(pbuf) = 0
      BY <2>1, InitIInv DEF Init
    <3>2. WaitingIds \in Seq(Ids) /\ Len(WaitingIds) = 0
      BY <3>1, Waiting
    <3>3. QED
      BY <3>2, EmptySeq
  <2>3. executed = <<>> /\ refused = {}
    BY <2>1 DEF Init
  <2>4. QED
    BY <2>2, <2>3 DEF Queue!Init
<1>2. IInv /\ [Next]_vars => [Queue!Next]_Queue!vars
  <2>1. SUFFICES ASSUME IInv, [Next]_vars PROVE [Queue!Next]_Queue!vars
    OBVIOUS
  <2>2. CASE UNCHANGED vars
    BY <2>1, <2>2, QueueStutters DEF vars, threadVars, callerVars, Done
  <2>3. QED
    BY <2>1, <2>2, ThreadRefines, CallerRefines, InvokeRefines DEF Next
<1>3. QED
  BY <1>1, <1>2, Invariance, PTL DEF Spec, ImplementsQueue, Queue!Spec
=============================================================================

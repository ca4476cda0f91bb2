-------------------------- MODULE MsgLoggingProofs --------------------------
(***************************************************************************)
(* Proofs about message logging, for any channels, operators and size of   *)
(* the buffer: messages are written to the file of their session, files    *)
(* are open while they are used, a start loses no open file, and packets   *)
(* are not left waiting, but for the races that the properties name.       *)
(*                                                                         *)
(* The argument follows the order of the packets: the stop of a session    *)
(* comes in the buffer after the messages of the session, except those     *)
(* published while the operator was between the two steps of the stop, and *)
(* a channel that was not started over a pending stop has at most one.     *)
(***************************************************************************)
EXTENDS MsgLogging, SequenceTheorems, TLAPS

-----------------------------------------------------------------------------
(* The invariant. *)

(* An operator is at a place of starting or stopping channel c. *)
At(c, place) == \E o \in Operators : chan[o] = c /\ pc[o] = place

(* An operator that is starting or stopping a channel has its mutex. *)
Places ==
    /\ \A c \in Channels : pc[c] \in {"idle", "commit", "submit"} /\ chan[c] = c
    /\ \A o \in Operators : pc[o] # "idle" => owner[chan[o]] = o

(* The file is that of a session that has begun. *)
Started(c) == observed[c] \/ At(c, "observe")

(* The state of a channel while it is being started or stopped. *)
Phases ==
    \A c \in Channels :
      /\ At(c, "open") \/ At(c, "observe") => ~isLogging[c] /\ ~observed[c]
      /\ At(c, "open") => session[c] < MaxSessions
      /\ At(c, "mark") => ~isLogging[c] /\ observed[c]
      /\ At(c, "alloc") \/ At(c, "remove") => isLogging[c]
      /\ isLogging[c] => observed[c]
      /\ observed[c] => isLogging[c] \/ At(c, "mark")
      /\ Started(c) => session[c] > 0

(* A packet of the buffer that stops channel c. *)
Stop(i, c) == ChannelOf(pbuf[i].id) = c /\ IsStop(pbuf[i].id)
Stopping(c) == \E i \in 1..Len(pbuf) : Stop(i, c)

(* The packet being handled is the first. *)
Busy ==
    /\ \A i \in 1..Len(pbuf) :
         pbuf[i].state = "busy" <=> i = 1 /\ stage \in {"handle", "free"}
    /\ stage \in {"handle", "free"} => pbuf # <<>>

(* Packets differ, and the last session of a channel has a stop packet only *)
(* once it is being stopped.                                                *)
Numbered ==
    /\ \A i, j \in 1..Len(pbuf) : pbuf[i].id = pbuf[j].id => i = j
    /\ \A i \in 1..Len(pbuf) :
         LET id == pbuf[i].id
             c == ChannelOf(id) IN
         /\ IsStop(id) => /\ SessionOf(id) <= session[c]
                          /\ SessionOf(id) = session[c] /\ Started(c) => At(c, "remove")
         /\ ~IsStop(id) => id[4] <= messages[c]

(* Who has a packet to commit has one in the buffer. *)
Held ==
    \A a \in Actors : pc[a] \in {"remove", "commit"} =>
      /\ \E i \in 1..Len(pbuf) : pbuf[i].id = held[a] /\ pbuf[i].state = "alloc"
      /\ ChannelOf(held[a]) = chan[a] /\ (IsStop(held[a]) <=> a \in Operators)

(* A channel started with no stop pending has none until it is stopped.     *)
Stops ==
    \A c \in Channels \ restarted : Started(c) =>
      /\ c \notin dropped
      /\ \A i \in 1..Len(pbuf) : Stop(i, c) => At(c, "remove") /\ pbuf[i].state = "alloc"

(* Its file is open from the start to the stop packet, and no sync is due   *)
(* after that, unless a message came late.                                  *)
Files ==
    \A c \in Channels \ restarted :
      /\ Started(c) => file[c] = session[c]
      /\ ~Started(c) /\ file[c] # 0 => c \in dropped \/ Stopping(c)
      /\ stage = "free" /\ Stop(1, c) => file[c] = 0 /\ ~syncDue[c]
      /\ syncDue[c] /\ (\A id \in late : ChannelOf(id) # c) =>
           file[c] = session[c] /\ file[c] # 0 /\ ~At(c, "observe")

(* Its messages are of the session that its file is open for, and come      *)
(* before its stop packet.                                                  *)
Messages ==
    \A i \in 1..Len(pbuf) :
      LET id == pbuf[i].id
          c == ChannelOf(id) IN
      ~IsStop(id) /\ id \notin late /\ c \notin restarted =>
        /\ file[c] = session[c] /\ SessionOf(id) = session[c]
        /\ \A j \in 1..i : ~Stop(j, c)
        /\ ~At(c, "observe")
        /\ observed[c] \/ c \in dropped \/ Stopping(c)

(* A packet that could be claimed is not left by a work that ends. *)
Looked ==
    CanClaim(pbuf) /\ ~missed /\ stage \in {"idle", "return"} =>
      queued \/ \E a \in Actors : pc[a] = "submit"

Control == TypeOK /\ Places /\ Phases
Order == Busy /\ Numbered /\ Held /\ Stops /\ Files /\ Messages
LInv == Control /\ Order /\ Looked

-----------------------------------------------------------------------------
(* What the operations of the buffer do. *)

States == {"alloc", "ready", "busy"}
Packets == [id : Ids, state : States]

(* Marking a packet leaves the others as they are. *)
LEMMA MarkPacket ==
    ASSUME NEW b \in Seq(Packets), NEW id, NEW s \in States
    PROVE  /\ Mark(b, id, s) \in Seq(Packets)
           /\ Len(Mark(b, id, s)) = Len(b)
           /\ \A i \in 1..Len(b) :
                /\ Mark(b, id, s)[i].id = b[i].id
                /\ Mark(b, id, s)[i].state = IF b[i].id = id THEN s ELSE b[i].state
<1>1. \A i \in 1..Len(b) : b[i] \in Packets
  OBVIOUS
<1>2. \A i \in 1..Len(b) : [b[i] EXCEPT !.state = s] \in Packets
  BY <1>1 DEF Packets
<1>3. QED
  BY <1>1, <1>2 DEF Mark, Packets

(* The place in the buffer of the packet that is at place i once the packet *)
(* at place n is gone; 0 stands for none.                                   *)
From(i, n) == IF n = 0 \/ i < n THEN i ELSE i + 1
Left(b, n) == IF n = 0 THEN Len(b) ELSE Len(b) - 1

(* Packets keep their order. *)
LEMMA FromKeepsOrder ==
    ASSUME NEW b \in Seq(Packets), NEW n \in 0..Len(b)
    PROVE  /\ Left(b, n) \in Nat
           /\ \A i \in 1..Left(b, n) : From(i, n) \in 1..Len(b) /\ From(i, n) # n
           /\ \A i, j \in 1..Left(b, n) : From(i, n) = From(j, n) => i = j
           /\ \A i, j \in 1..Left(b, n) : i <= j => From(i, n) <= From(j, n)
           /\ \A j \in 1..Len(b) \ {n} : \E i \in 1..Left(b, n) : From(i, n) = j
<1>1. Len(b) \in Nat
  OBVIOUS
<1>2. /\ Left(b, n) \in Nat
      /\ \A i \in 1..Left(b, n) : From(i, n) \in 1..Len(b) /\ From(i, n) # n
      /\ \A i, j \in 1..Left(b, n) : From(i, n) = From(j, n) => i = j
      /\ \A i, j \in 1..Left(b, n) : i <= j => From(i, n) <= From(j, n)
  BY <1>1 DEF From, Left
<1>3. ASSUME NEW j \in 1..Len(b) \ {n}
      PROVE  \E i \in 1..Left(b, n) : From(i, n) = j
  <2> DEFINE i == IF n = 0 \/ j < n THEN j ELSE j - 1
  <2>1. i \in 1..Left(b, n) /\ From(i, n) = j
    BY <1>1 DEF From, Left
  <2>2. QED
    BY <2>1
<1>4. QED
  BY <1>2, <1>3

(* The buffer in which a packet was allocated: it is at the end, and the    *)
(* packet that made room for it could be claimed.                           *)
LEMMA Allocated ==
    ASSUME NEW b \in Seq(Packets), NEW id \in Ids, CanOverwrite(b, Capacity), Len(b) <= Capacity
    PROVE  LET r == AllocOverwriting(b, id, Capacity) IN
           /\ r \in Seq(Packets) /\ Len(r) <= Capacity
           /\ CanClaim(r) => CanClaim(b)
           /\ \E n \in 0..Len(b) :
                /\ Len(r) = Left(b, n) + 1
                /\ r[Len(r)] = Packet(id)
                /\ \A i \in 1..Left(b, n) : r[i] = b[From(i, n)]
                /\ n # 0 => b[n].state = "ready" /\ Overwritten(b, Capacity) = {b[n].id}
                /\ n = 0 => Overwritten(b, Capacity) = {}
<1> DEFINE r == AllocOverwriting(b, id, Capacity)
<1>1. Capacity \in Nat \ {0, 1} /\ Len(b) \in Nat /\ Packet(id) \in Packets
  BY LoggingAssumption DEF Packet, Packets, States
<1>2. CASE HasRoom(b, Capacity)
  <2>1. r = Append(b, Packet(id)) /\ Overwritten(b, Capacity) = {}
    BY <1>2 DEF AllocOverwriting, Alloc, Overwritten
  <2>2. /\ r \in Seq(Packets) /\ Len(r) = Len(b) + 1 /\ r[Len(r)] = Packet(id)
        /\ \A i \in 1..Len(b) : r[i] = b[i]
    BY <1>1, <2>1
  <2>3. Len(r) <= Capacity
    BY <1>1, <1>2, <2>2 DEF HasRoom
  <2>4. CanClaim(r) => CanClaim(b)
    <3> SUFFICES ASSUME CanClaim(r) PROVE CanClaim(b)
      OBVIOUS
    <3> HIDE DEF r
    <3>1. r[NextToClaim(r)].state = "ready" /\ NextToClaim(r) \in {1, 2}
      BY DEF CanClaim, NextToClaim
    <3>2. Packet(id).state = "alloc"
      BY DEF Packet
    <3>3. NextToClaim(r) # Len(r)
      BY <2>2, <3>1, <3>2
    <3>4. Len(b) # 0 /\ b # <<>> /\ r # <<>>
      BY <1>1, <2>2, <3>1, <3>3 DEF NextToClaim
    <3>5. r[1] = b[1] /\ NextToClaim(r) = 2 => Len(b) > 1 /\ r[2] = b[2]
      BY <1>1, <2>2, <3>3, <3>4
    <3>6. NextToClaim(b) = NextToClaim(r) /\ b[NextToClaim(b)] = r[NextToClaim(r)]
      <4>1. r[1] = b[1]
        BY <1>1, <2>2, <3>4
      <4>2. CASE b[1].state # "busy"
        BY <3>4, <4>1, <4>2 DEF NextToClaim
      <4>3. CASE b[1].state = "busy"
        <5>1. NextToClaim(r) = 2
          BY <3>1, <3>4, <4>1, <4>3 DEF NextToClaim
        <5>2. QED
          BY <3>4, <3>5, <4>1, <4>3, <5>1 DEF NextToClaim
      <4>4. QED
        BY <4>2, <4>3
    <3>7. QED
      BY <3>1, <3>6 DEF CanClaim
  <2> HIDE DEF r
  <2>5. 0 \in 0..Len(b) /\ Left(b, 0) = Len(b) /\ \A i \in 1..Len(b) : From(i, 0) = i
    BY <1>1 DEF Left, From
  <2>6. QED
    BY <2>1, <2>2, <2>3, <2>4, <2>5 DEF r
<1>3. CASE ~HasRoom(b, Capacity)
  <2> DEFINE n == NextToClaim(b)
             w == Without(b, n)
  <2>1. CanClaim(b)
    BY <1>3 DEF CanOverwrite
  <2>2. n \in 1..Len(b) /\ b[n].state = "ready"
    BY <1>1, <2>1 DEF CanClaim, NextToClaim
  <2>3. r = Append(w, Packet(id)) /\ Overwritten(b, Capacity) = {b[n].id}
    BY <1>3 DEF AllocOverwriting, Alloc, Overwritten, ClaimedId
  <2> HIDE DEF r, n
  <2>4. w \in Seq(Packets) /\ Len(w) = Len(b) - 1
        /\ \A i \in 1..Len(b) - 1 : w[i] = b[From(i, n)]
    <3>1. \A i \in 1..Len(b) - 1 : (IF i < n THEN b[i] ELSE b[i + 1]) \in Packets
      BY <1>1, <2>2
    <3>2. w \in [1..Len(b) - 1 -> Packets] /\ Len(b) - 1 \in Nat
      BY <1>1, <2>2, <3>1 DEF Without
    <3>3. QED
      BY <1>1, <2>2, <3>2 DEF Without, From
  <2> HIDE DEF w
  <2>5. /\ r \in Seq(Packets) /\ Len(r) = Len(b) /\ r[Len(r)] = Packet(id)
        /\ \A i \in 1..Len(b) - 1 : r[i] = b[From(i, n)]
    BY <1>1, <2>2, <2>3, <2>4
  <2>6. n \in 0..Len(b) /\ n # 0 /\ Left(b, n) = Len(b) - 1
    BY <1>1, <2>2 DEF Left
  <2>7. Len(r) = Left(b, n) + 1 /\ \A i \in 1..Left(b, n) : r[i] = b[From(i, n)]
    BY <1>1, <2>5, <2>6
  <2>8. \E m \in 0..Len(b) :
          /\ Len(r) = Left(b, m) + 1
          /\ r[Len(r)] = Packet(id)
          /\ \A i \in 1..Left(b, m) : r[i] = b[From(i, m)]
          /\ m # 0 => b[m].state = "ready" /\ Overwritten(b, Capacity) = {b[m].id}
          /\ m = 0 => Overwritten(b, Capacity) = {}
    BY <2>2, <2>3, <2>5, <2>6, <2>7
  <2>9. Len(r) <= Capacity
    BY <2>5
  <2>10. QED
    BY <2>1, <2>5, <2>8, <2>9 DEF r
<1>4. QED
  BY <1>2, <1>3

(* The buffer without its first packet. *)
LEMMA Freed ==
    ASSUME NEW b \in Seq(Packets), b # <<>>
    PROVE  /\ Free(b) \in Seq(Packets) /\ Len(Free(b)) = Left(b, 1) /\ 1 \in 0..Len(b)
           /\ \A i \in 1..Left(b, 1) : Free(b)[i] = b[From(i, 1)]
<1>1. Len(b) \in Nat \ {0}
  BY EmptySeq
<1>2. QED
  BY <1>1 DEF Free, Left, From

-----------------------------------------------------------------------------
(* What the steps do to the places of the operators and to the mutexes. *)

LockTypes ==
    /\ owner \in [Channels -> Operators \cup {Nobody}]
    /\ depth \in [Channels -> Nat]
    /\ \A c \in Channels : depth[c] = 0 <=> owner[c] = Nobody

(* A lock is taken, or taken once more. *)
LEMMA Locked ==
    ASSUME LockTypes, NEW o \in Operators, NEW c \in Channels, CanLock(o, c), Lock(o, c)
    PROVE  /\ LockTypes'
           /\ owner'[c] = o
           /\ \A d \in Channels \ {c} : owner'[d] = owner[d]
BY LoggingAssumption DEF LockTypes, CanLock, Lock

(* A lock is given back, or held once less. *)
LEMMA Unlocked ==
    ASSUME LockTypes, NEW c \in Channels, owner[c] # Nobody, Unlock(c)
    PROVE  /\ LockTypes'
           /\ \A d \in Channels \ {c} : owner'[d] = owner[d]
BY DEF LockTypes, Unlock

ActorTypes ==
    /\ pc \in [Actors -> {"idle", "open", "observe", "mark", "alloc", "remove", "commit", "submit"}]
    /\ chan \in [Actors -> Channels]

(* An operator moves to a place of channel c, where it is alone: it and     *)
(* nobody else had the mutex, or takes it.                                  *)
LEMMA OperatorMoves ==
    ASSUME ActorTypes, Places, NEW o \in Operators, NEW c \in Channels, NEW place, Goto(o, place),
           chan'[o] = c, \A a \in Actors \ {o} : chan'[a] = chan[a],
           \/ pc[o] = "idle" /\ owner[c] \in {Nobody, o}
           \/ pc[o] # "idle" /\ chan[o] = c,
           place # "idle" => owner'[c] = o,
           \A d \in Channels \ {c} : owner'[d] = owner[d]
    PROVE  /\ Places'
           /\ \A q : q # "idle" => (At(c, q)' <=> q = place)
           /\ \A q : q # "idle" => (At(c, q) <=> q = pc[o])
           /\ \A d \in Channels \ {c} : \A q : q # "idle" => (At(d, q)' <=> At(d, q))
<1>1. /\ Channels \subseteq Actors /\ Operators \subseteq Actors /\ o \notin Channels
      /\ Nobody \notin Operators
  BY LoggingAssumption DEF Actors
<1>2. pc'[o] = place /\ \A a \in Actors \ {o} : pc'[a] = pc[a]
  BY <1>1 DEF Goto, ActorTypes
<1>3. \A p \in Operators \ {o} : pc[p] # "idle" => chan[p] # c /\ owner'[chan[p]] = p
  BY <1>1 DEF Places, ActorTypes
<1>4. Places'
  <2>1. \A d \in Channels : pc'[d] \in {"idle", "commit", "submit"} /\ chan'[d] = d
    BY <1>1, <1>2 DEF Places
  <2>2. \A p \in Operators : pc'[p] # "idle" => owner'[chan'[p]] = p
    BY <1>1, <1>2, <1>3
  <2>3. QED
    BY <2>1, <2>2 DEF Places
<1>5. \A q : q # "idle" => (At(c, q)' <=> q = place)
  BY <1>1, <1>2, <1>3 DEF At
<1>6. \A q : q # "idle" => (At(c, q) <=> q = pc[o])
  BY <1>1, <1>3 DEF At
<1>7. \A d \in Channels \ {c} : \A q : q # "idle" => (At(d, q)' <=> At(d, q))
  BY <1>1, <1>2 DEF At
<1>8. QED
  BY <1>4, <1>5, <1>6, <1>7

(* A channel moves, or nobody does: the operators stay. *)
LEMMA OperatorsStay ==
    ASSUME ActorTypes, Places, UNCHANGED <<chan, owner>>,
           \A o \in Operators : pc'[o] = pc[o],
           \A c \in Channels : pc'[c] \in {"idle", "commit", "submit"}
    PROVE  /\ Places'
           /\ \A d \in Channels : \A q : At(d, q)' <=> At(d, q)
<1>1. Channels \subseteq Actors /\ Operators \subseteq Actors
  BY DEF Actors
<1>2. QED
  BY <1>1 DEF Places, At

-----------------------------------------------------------------------------
(* Types, places and phases are kept by every step. *)

(* Channel c may be in the phase of an operator at the place. *)
PhaseFits(c, place) ==
    /\ place \in {"open", "observe"} => ~isLogging[c] /\ ~observed[c]
    /\ place = "open" => session[c] < MaxSessions
    /\ place = "mark" => ~isLogging[c] /\ observed[c]
    /\ place \in {"alloc", "remove"} => isLogging[c]
    /\ isLogging[c] => observed[c]
    /\ observed[c] => isLogging[c] \/ place = "mark"
    /\ observed[c] \/ place = "observe" => session[c] > 0

(* An operator moves: the phase of its channel changes, that of the others  *)
(* does not.                                                                *)
LEMMA PhasesMove ==
    ASSUME Phases, NEW c \in Channels, NEW place, PhaseFits(c, place)',
           \A q : q # "idle" => (At(c, q)' <=> q = place),
           \A d \in Channels \ {c} : \A q : q # "idle" => (At(d, q)' <=> At(d, q)),
           \A d \in Channels \ {c} : /\ isLogging'[d] = isLogging[d]
                                     /\ observed'[d] = observed[d]
                                     /\ session'[d] = session[d]
    PROVE  Phases'
<1> SUFFICES ASSUME NEW d \in Channels
             PROVE  (/\ At(d, "open") \/ At(d, "observe") => ~isLogging[d] /\ ~observed[d]
                     /\ At(d, "open") => session[d] < MaxSessions
                     /\ At(d, "mark") => ~isLogging[d] /\ observed[d]
                     /\ At(d, "alloc") \/ At(d, "remove") => isLogging[d]
                     /\ isLogging[d] => observed[d]
                     /\ observed[d] => isLogging[d] \/ At(d, "mark")
                     /\ Started(d) => session[d] > 0)'
  BY DEF Phases
<1>1. CASE d = c
  BY <1>1 DEF Started, PhaseFits
<1>2. CASE d # c
  BY <1>2 DEF Started, Phases
<1>3. QED
  BY <1>1, <1>2

(* Types of some variables follow from Control. *)
LEMMA ControlTypes ==
    ASSUME Control
    PROVE  /\ LockTypes /\ ActorTypes
           /\ \A o \in Operators : chan[o] \in Channels
           /\ \A o \in Operators : pc[o] # "idle" => At(chan[o], pc[o]) /\ owner[chan[o]] = o
           /\ Channels \subseteq Actors /\ Operators \subseteq Actors
           /\ Operators \cap Channels = {} /\ Nobody \notin Operators
           /\ MaxSessions \in Nat /\ MaxMessages \in Nat
BY LoggingAssumption DEF Control, TypeOK, LockTypes, ActorTypes, Actors, At, Places

(* The parts of Control that OperatorMoves and PhasesMove need. *)
LEMMA ControlParts ==
    ASSUME Control
    PROVE  TypeOK /\ Places /\ Phases /\ LockTypes /\ ActorTypes
BY ControlTypes DEF Control

(* msg_logging_start() takes the mutex, or has it already. *)
LEMMA StartEnterKeepsControl ==
    ASSUME Control, NEW o \in Operators, NEW c \in Channels, StartEnter(o, c)
    PROVE  Control'
<1>1. LockTypes' /\ owner'[c] = o /\ \A d \in Channels \ {c} : owner'[d] = owner[d]
  BY ControlTypes, Locked DEF StartEnter
<1>2. /\ chan'[o] = c /\ \A a \in Actors \ {o} : chan'[a] = chan[a]
      /\ pc[o] = "idle" /\ owner[c] \in {Nobody, o} /\ Goto(o, "open")
  BY ControlTypes DEF StartEnter, CanLock, ActorTypes
<1>3. /\ Places'
      /\ \A q : q # "idle" => (At(c, q)' <=> q = "open")
      /\ \A q : q # "idle" => (At(c, q) <=> q = pc[o])
      /\ \A d \in Channels \ {c} : \A q : q # "idle" => (At(d, q)' <=> At(d, q))
  BY <1>1, <1>2, ControlParts, OperatorMoves
<1>4. TypeOK'
  BY <1>1, ControlParts, ControlTypes DEF TypeOK, StartEnter, Goto, LockTypes, workVars, ghostVars
<1>5. Phases'
  <2>1. UNCHANGED <<isLogging, observed, session>> /\ ~isLogging[c] /\ session[c] < MaxSessions
    BY DEF StartEnter, ghostVars
  <2>2. ~observed[c]
    BY <1>2, <1>3, <2>1 DEF Control, Phases
  <2>3. PhaseFits(c, "open")'
    BY <2>1, <2>2 DEF PhaseFits
  <2>4. QED
    BY <1>3, <2>1, <2>3, ControlParts, PhasesMove
<1>6. QED
  BY <1>3, <1>4, <1>5 DEF Control

(* The files are opened, or one of them is not. *)
LEMMA StartOpenKeepsControl ==
    ASSUME Control, NEW o \in Operators, StartOpen(o)
    PROVE  Control'
<1> SUFFICES ASSUME NEW c \in Channels, c = chan[o] PROVE Control'
  BY ControlTypes
<1>1. /\ c \in Channels /\ owner[c] = o /\ owner[c] # Nobody /\ pc[o] = "open" /\ At(c, "open")
      /\ UNCHANGED <<isLogging, observed, chan>>
  BY ControlTypes DEF StartOpen
<1>2. ~isLogging[c] /\ ~observed[c] /\ session[c] < MaxSessions /\ session[c] \in Nat
  BY <1>1, ControlParts DEF Phases, TypeOK
<1> SUFFICES ASSUME NEW place \in {"observe", "idle"}, Goto(o, place),
                    place = "observe" =>
                      /\ file' = [file EXCEPT ![c] = session[c] + 1]
                      /\ session' = [session EXCEPT ![c] = @ + 1]
                      /\ UNCHANGED <<owner, depth>>,
                    place = "idle" =>
                      /\ file' = [file EXCEPT ![c] = 0]
                      /\ Unlock(c) /\ UNCHANGED session
             PROVE  Control'
  BY DEF StartOpen, StartFailed
<1>3. LockTypes' /\ (place = "observe" => owner'[c] = o) /\ \A d \in Channels \ {c} : owner'[d] = owner[d]
  BY <1>1, ControlTypes, Unlocked DEF LockTypes
<1>4. /\ Places'
      /\ \A q : q # "idle" => (At(c, q)' <=> q = place)
      /\ \A d \in Channels \ {c} : \A q : q # "idle" => (At(d, q)' <=> At(d, q))
  <2>1. /\ chan'[o] = c /\ \A a \in Actors \ {o} : chan'[a] = chan[a]
        /\ pc[o] # "idle" /\ chan[o] = c /\ (place # "idle" => owner'[c] = o)
    BY <1>1, <1>3
  <2>2. QED
    BY <1>1, <1>3, <2>1, ControlParts, OperatorMoves
<1>5. TypeOK'
  <2>1. session' \in [Channels -> 0..MaxSessions] /\ file' \in [Channels -> 0..MaxSessions]
    <3>1. session[c] + 1 \in 0..MaxSessions /\ 0 \in 0..MaxSessions
      BY <1>2, ControlTypes
    <3>2. session \in [Channels -> 0..MaxSessions] /\ file \in [Channels -> 0..MaxSessions]
      BY ControlParts DEF TypeOK
    <3>3. QED
      BY <1>1, <3>1, <3>2
  <2>2. restarted' \subseteq Channels
    BY <1>1, ControlParts DEF TypeOK, StartOpen
  <2>3. QED
    BY <1>3, <2>1, <2>2, ControlParts, ControlTypes DEF TypeOK, StartOpen, Goto, LockTypes, workVars
<1>6. Phases'
  <2>1. /\ \A d \in Channels \ {c} : session'[d] = session[d]
        /\ place = "observe" => session'[c] > 0
    BY <1>1, <1>2, ControlParts DEF TypeOK
  <2>2. \A d \in Channels \ {c} : /\ isLogging'[d] = isLogging[d]
                                  /\ observed'[d] = observed[d]
                                  /\ session'[d] = session[d]
    BY <1>1, <2>1
  <2>3. ~isLogging'[c] /\ ~observed'[c]
    BY <1>1, <1>2
  <2>4. PhaseFits(c, place)'
    BY <2>1, <2>3 DEF PhaseFits
  <2>5. QED
    BY <1>1, <1>4, <2>2, <2>4, ControlParts, PhasesMove
<1>7. QED
  BY <1>4, <1>5, <1>6 DEF Control

(* The channels are observed one after the other. *)
LEMMA StartObserveKeepsControl ==
    ASSUME Control, NEW o \in Operators, StartObserve(o)
    PROVE  Control'
<1> SUFFICES ASSUME NEW c \in Channels, c = chan[o] PROVE Control'
  BY ControlTypes
<1>1. /\ c \in Channels /\ owner[c] = o /\ owner[c] # Nobody /\ pc[o] = "observe" /\ At(c, "observe")
      /\ UNCHANGED <<isLogging, session, chan>>
  BY ControlTypes DEF StartObserve, ghostVars
<1>2. ~isLogging[c] /\ ~observed[c] /\ session[c] > 0
  BY <1>1, ControlParts DEF Phases, Started
<1> SUFFICES ASSUME NEW place \in {"mark", "idle"}, Goto(o, place),
                    place = "mark" =>
                      /\ observed' = [observed EXCEPT ![c] = TRUE]
                      /\ UNCHANGED <<owner, depth, file>>,
                    place = "idle" =>
                      /\ file' = [file EXCEPT ![c] = 0]
                      /\ Unlock(c) /\ UNCHANGED observed
             PROVE  Control'
  BY DEF StartObserve, StartFailed
<1>3. LockTypes' /\ (place = "mark" => owner'[c] = o) /\ \A d \in Channels \ {c} : owner'[d] = owner[d]
  BY <1>1, ControlTypes, Unlocked DEF LockTypes
<1>4. /\ Places'
      /\ \A q : q # "idle" => (At(c, q)' <=> q = place)
      /\ \A d \in Channels \ {c} : \A q : q # "idle" => (At(d, q)' <=> At(d, q))
  <2>1. /\ chan'[o] = c /\ \A a \in Actors \ {o} : chan'[a] = chan[a]
        /\ pc[o] # "idle" /\ chan[o] = c /\ (place # "idle" => owner'[c] = o)
    BY <1>1, <1>3
  <2>2. QED
    BY <1>1, <1>3, <2>1, ControlParts, OperatorMoves
<1>5. TypeOK'
  <2>1. observed' \in [Channels -> BOOLEAN] /\ file' \in [Channels -> 0..MaxSessions]
    <3>1. /\ 0 \in 0..MaxSessions /\ TRUE \in BOOLEAN
          /\ observed \in [Channels -> BOOLEAN] /\ file \in [Channels -> 0..MaxSessions]
      BY ControlTypes, ControlParts DEF TypeOK
    <3>2. QED
      BY <1>1, <3>1
  <2>2. QED
    BY <1>1, <1>3, <2>1, ControlParts, ControlTypes
       DEF TypeOK, StartObserve, Goto, LockTypes, workVars, ghostVars
<1>6. Phases'
  <2>1. /\ \A d \in Channels \ {c} : observed'[d] = observed[d]
        /\ place = "mark" => observed'[c]
        /\ place = "idle" => ~observed'[c]
    BY <1>1, <1>2, ControlParts DEF TypeOK
  <2>2. \A d \in Channels \ {c} : /\ isLogging'[d] = isLogging[d]
                                  /\ observed'[d] = observed[d]
                                  /\ session'[d] = session[d]
    BY <1>1, <2>1
  <2>3. ~isLogging'[c] /\ session'[c] > 0
    BY <1>1, <1>2
  <2>4. PhaseFits(c, place)'
    BY <2>1, <2>3 DEF PhaseFits
  <2>5. QED
    BY <1>1, <1>4, <2>2, <2>4, ControlParts, PhasesMove
<1>7. QED
  BY <1>4, <1>5, <1>6 DEF Control

(* The caller of msg_logging_start() leaves, with the mutex released. *)
LEMMA StartReturnKeepsControl ==
    ASSUME Control, NEW o \in Operators, StartReturn(o)
    PROVE  Control'
<1> SUFFICES ASSUME NEW c \in Channels, c = chan[o] PROVE Control'
  BY ControlTypes
<1>1. /\ c \in Channels /\ owner[c] = o /\ owner[c] # Nobody /\ pc[o] = "mark" /\ At(c, "mark")
      /\ UNCHANGED <<observed, session, chan>> /\ Unlock(c) /\ Goto(o, "idle")
      /\ isLogging' = [isLogging EXCEPT ![c] = TRUE]
  BY ControlTypes DEF StartReturn, ghostVars
<1>2. observed[c] /\ session[c] > 0
  BY <1>1, ControlParts DEF Phases, Started
<1>3. LockTypes' /\ \A d \in Channels \ {c} : owner'[d] = owner[d]
  BY <1>1, ControlTypes, Unlocked
<1>4. /\ Places'
      /\ \A q : q # "idle" => (At(c, q)' <=> q = "idle")
      /\ \A d \in Channels \ {c} : \A q : q # "idle" => (At(d, q)' <=> At(d, q))
  BY <1>1, <1>3, ControlParts, OperatorMoves
<1>5. isLogging \in [Channels -> BOOLEAN] /\ isLogging' \in [Channels -> BOOLEAN]
  BY <1>1, ControlParts DEF TypeOK
<1>6. TypeOK'
  <2>1. UNCHANGED <<file, observed, syncDue, pbuf, queued, stage, chan, held,
                    session, messages, late, restarted, dropped, missed>>
    BY DEF StartReturn, workVars, ghostVars
  <2>2. pc' \in [Actors -> {"idle", "open", "observe", "mark", "alloc", "remove", "commit", "submit"}]
    BY <1>1, ControlParts DEF Goto, ActorTypes
  <2>3. QED
    BY <1>3, <1>5, <2>1, <2>2, ControlParts DEF TypeOK, LockTypes
<1>7. Phases'
  <2>1. isLogging'[c] /\ \A d \in Channels \ {c} : isLogging'[d] = isLogging[d]
    BY <1>1, <1>5
  <2>2. \A d \in Channels \ {c} : /\ isLogging'[d] = isLogging[d]
                                  /\ observed'[d] = observed[d]
                                  /\ session'[d] = session[d]
    BY <1>1, <2>1
  <2>3. observed'[c] /\ session'[c] > 0
    BY <1>1, <1>2
  <2>4. PhaseFits(c, "idle")'
    BY <2>1, <2>3 DEF PhaseFits
  <2>5. QED
    BY <1>1, <1>4, <2>2, <2>4, ControlParts, PhasesMove
<1>8. QED
  BY <1>4, <1>6, <1>7 DEF Control

(* msg_logging_stop() looks at the flag and takes the mutex, or finds it stopped. *)
LEMMA StopEnterKeepsControl ==
    ASSUME Control, NEW o \in Operators, NEW c \in Channels, StopEnter(o, c)
    PROVE  Control'
<1>1. LockTypes' /\ owner'[c] = o /\ \A d \in Channels \ {c} : owner'[d] = owner[d]
  BY ControlTypes, Locked DEF StopEnter
<1>2. /\ chan'[o] = c /\ \A a \in Actors \ {o} : chan'[a] = chan[a]
      /\ pc[o] = "idle" /\ owner[c] \in {Nobody, o} /\ Goto(o, "alloc")
  BY ControlTypes DEF StopEnter, CanLock, ActorTypes
<1>3. /\ Places'
      /\ \A q : q # "idle" => (At(c, q)' <=> q = "alloc")
      /\ \A d \in Channels \ {c} : \A q : q # "idle" => (At(d, q)' <=> At(d, q))
  BY <1>1, <1>2, ControlParts, OperatorMoves
<1>4. TypeOK'
  BY <1>1, ControlParts, ControlTypes DEF TypeOK, StopEnter, Goto, LockTypes, workVars, ghostVars
<1>5. Phases'
  <2>1. UNCHANGED <<isLogging, observed, session>> /\ isLogging[c]
    BY DEF StopEnter, ghostVars
  <2>2. observed[c] /\ session[c] > 0
    BY <2>1, ControlParts DEF Phases, Started
  <2>3. PhaseFits(c, "alloc")'
    BY <2>1, <2>2 DEF PhaseFits
  <2>4. QED
    BY <1>3, <2>1, <2>3, ControlParts, PhasesMove
<1>6. QED
  BY <1>3, <1>4, <1>5 DEF Control

(* A packet allocated is of the types of the variables that hold it. *)
LEMMA PacketTypes ==
    ASSUME Control, NEW a \in Actors, NEW id \in Ids, CanOverwrite(pbuf, Capacity), PacketAlloc(a, id)
    PROVE  /\ pbuf' \in Seq(Packets) /\ Len(pbuf') <= Capacity
           /\ held' \in [Actors -> Ids \cup {<<>>}]
           /\ dropped' \subseteq Channels
<1>1. pbuf \in Seq(Packets) /\ Len(pbuf) <= Capacity
  BY ControlParts DEF TypeOK, Packets, States
<1>2. pbuf' \in Seq(Packets) /\ Len(pbuf') <= Capacity
  BY <1>1, Allocated DEF PacketAlloc
<1>3. held' \in [Actors -> Ids \cup {<<>>}]
  BY ControlParts DEF TypeOK, PacketAlloc
<1>4. \A x \in Ids : ChannelOf(x) \in Channels
  BY DEF Ids, DataIds, StopIds, ChannelOf
<1>5. Overwritten(pbuf, Capacity) \subseteq Ids
  <2>1. PICK n \in 0..Len(pbuf) :
          /\ n # 0 => Overwritten(pbuf, Capacity) = {pbuf[n].id}
          /\ n = 0 => Overwritten(pbuf, Capacity) = {}
    BY <1>1, Allocated
  <2>2. n # 0 => pbuf[n] \in Packets
    BY <1>1
  <2>3. QED
    BY <2>1, <2>2 DEF Packets
<1>6. dropped' \subseteq Channels
  BY <1>4, <1>5, ControlParts DEF TypeOK, PacketAlloc
<1>7. QED
  BY <1>2, <1>3, <1>6

(* The packet of the stop is allocated, in place of older ones if it must be. *)
LEMMA StopAllocKeepsControl ==
    ASSUME Control, NEW o \in Operators, StopAlloc(o)
    PROVE  Control'
<1> SUFFICES ASSUME NEW c \in Channels, c = chan[o] PROVE Control'
  BY ControlTypes
<1>1. /\ owner[c] = o /\ owner[c] # Nobody /\ pc[o] = "alloc" /\ At(c, "alloc")
      /\ UNCHANGED <<isLogging, file, observed, syncDue, queued, stage, chan,
                     session, messages, late, restarted, missed>>
  BY ControlTypes DEF StopAlloc, workVars
<1>2. isLogging[c] /\ observed[c] /\ session[c] \in 1..MaxSessions
  <2>1. isLogging[c] /\ observed[c] /\ session[c] > 0
    BY <1>1, ControlParts DEF Phases, Started
  <2>2. session[c] \in 0..MaxSessions
    BY ControlParts DEF TypeOK
  <2>3. QED
    BY <2>1, <2>2, ControlTypes
<1> DEFINE id == <<c, "stop", session[c], 0>>
<1>3. id \in Ids /\ o \in Actors
  BY <1>2, ControlTypes DEF Ids, StopIds
<1> SUFFICES ASSUME NEW place \in {"remove", "idle"}, Goto(o, place),
                    place = "remove" =>
                      /\ CanOverwrite(pbuf, Capacity)
                      /\ PacketAlloc(o, id)
                      /\ UNCHANGED <<owner, depth>>,
                    place = "idle" =>
                      /\ Unlock(c) /\ UNCHANGED <<pbuf, held, dropped>>
             PROVE  Control'
  BY DEF StopAlloc
<1>4. LockTypes' /\ (place = "remove" => owner'[c] = o) /\ \A d \in Channels \ {c} : owner'[d] = owner[d]
  BY <1>1, ControlTypes, Unlocked DEF LockTypes
<1>5. /\ Places'
      /\ \A q : q # "idle" => (At(c, q)' <=> q = place)
      /\ \A d \in Channels \ {c} : \A q : q # "idle" => (At(d, q)' <=> At(d, q))
  <2>1. /\ chan'[o] = c /\ \A a \in Actors \ {o} : chan'[a] = chan[a]
        /\ pc[o] # "idle" /\ chan[o] = c /\ (place # "idle" => owner'[c] = o)
    BY <1>1, <1>4
  <2>2. QED
    BY <1>1, <1>4, <2>1, ControlParts, OperatorMoves
<1>6. TypeOK'
  <2> HIDE DEF id
  <2>1. /\ pbuf' \in Seq([id : Ids, state : {"alloc", "ready", "busy"}]) /\ Len(pbuf') <= Capacity
        /\ held' \in [Actors -> Ids \cup {<<>>}] /\ dropped' \subseteq Channels
    <3>1. CASE place = "remove"
      BY <1>3, <3>1, PacketTypes DEF Packets, States
    <3>2. CASE place = "idle"
      BY <3>2, ControlParts DEF TypeOK
    <3>3. QED
      BY <3>1, <3>2
  <2>2. pc' \in [Actors -> {"idle", "open", "observe", "mark", "alloc", "remove", "commit", "submit"}]
    BY <1>1, ControlParts DEF Goto, ActorTypes
  <2>3. QED
    BY <1>1, <1>4, <2>1, <2>2, ControlParts DEF TypeOK, LockTypes
<1>7. Phases'
  <2>1. isLogging'[c] /\ observed'[c] /\ session'[c] > 0
    BY <1>1, <1>2
  <2>2. PhaseFits(c, place)'
    BY <2>1 DEF PhaseFits
  <2>3. QED
    BY <1>1, <1>5, <2>2, ControlParts, PhasesMove
<1>8. QED
  BY <1>5, <1>6, <1>7 DEF Control

(* The observers are removed one after the other. *)
LEMMA StopRemoveKeepsControl ==
    ASSUME Control, NEW o \in Operators, StopRemove(o)
    PROVE  Control'
<1> SUFFICES ASSUME NEW c \in Channels, c = chan[o] PROVE Control'
  BY ControlTypes
<1>1. /\ owner[c] = o /\ pc[o] = "remove" /\ Goto(o, "commit")
      /\ observed' = [observed EXCEPT ![c] = FALSE]
      /\ isLogging' = [isLogging EXCEPT ![c] = FALSE]
      /\ UNCHANGED <<owner, depth, file, syncDue, pbuf, queued, stage, chan, held,
                     session, messages, late, restarted, dropped, missed>>
  BY ControlTypes DEF StopRemove, workVars, ghostVars
<1>2. /\ Places'
      /\ \A q : q # "idle" => (At(c, q)' <=> q = "commit")
      /\ \A d \in Channels \ {c} : \A q : q # "idle" => (At(d, q)' <=> At(d, q))
  BY <1>1, ControlParts, OperatorMoves
<1>3. /\ observed \in [Channels -> BOOLEAN] /\ observed' \in [Channels -> BOOLEAN]
      /\ isLogging \in [Channels -> BOOLEAN] /\ isLogging' \in [Channels -> BOOLEAN]
  BY <1>1, ControlParts DEF TypeOK
<1>4. TypeOK'
  <2>1. pc' \in [Actors -> {"idle", "open", "observe", "mark", "alloc", "remove", "commit", "submit"}]
    BY <1>1, ControlParts DEF Goto, ActorTypes
  <2>2. QED
    BY <1>1, <1>3, <2>1, ControlParts DEF TypeOK
<1>5. Phases'
  <2>1. /\ ~isLogging'[c] /\ ~observed'[c]
        /\ \A d \in Channels \ {c} : isLogging'[d] = isLogging[d] /\ observed'[d] = observed[d]
    BY <1>1, <1>3
  <2>2. PhaseFits(c, "commit")'
    BY <2>1 DEF PhaseFits
  <2>3. QED
    BY <1>1, <1>2, <2>1, <2>2, ControlParts, PhasesMove
<1>6. QED
  BY <1>2, <1>4, <1>5 DEF Control

(* A publisher, or an operator whose stop packet is complete, moves on. *)
LEMMA ActorMoves ==
    ASSUME Control, NEW a \in Actors, NEW place \in {"submit", "idle"}, pc[a] \in {"commit", "submit"},
           Goto(a, place), UNCHANGED <<chan, owner, isLogging, observed, session>>
    PROVE  /\ Places' /\ Phases'
           /\ pc' \in [Actors -> {"idle", "open", "observe", "mark", "alloc", "remove", "commit", "submit"}]
           /\ \A d \in Channels : \A q : q \notin {"idle", "commit", "submit"} => (At(d, q)' <=> At(d, q))
           /\ \A b \in Actors \ {a} : pc'[b] = pc[b]
           /\ pc'[a] = place
<1>1. /\ pc' \in [Actors -> {"idle", "open", "observe", "mark", "alloc", "remove", "commit", "submit"}]
      /\ \A b \in Actors \ {a} : pc'[b] = pc[b]
      /\ pc'[a] = place
  BY ControlParts DEF Goto, ActorTypes
<1>2. Places'
  BY <1>1, ControlParts, ControlTypes DEF Places
<1>3. \A d \in Channels : \A q : q \notin {"idle", "commit", "submit"} => (At(d, q)' <=> At(d, q))
  <2> SUFFICES ASSUME NEW d \in Channels, NEW q, q \notin {"idle", "commit", "submit"}
               PROVE  At(d, q)' <=> At(d, q)
    OBVIOUS
  <2>1. \A o \in Operators : pc'[o] = q <=> pc[o] = q
    BY <1>1, ControlTypes
  <2>2. QED
    BY <2>1 DEF At
<1>4. Phases'
  BY <1>3, ControlParts DEF Phases, Started
<1>5. QED
  BY <1>1, <1>2, <1>3, <1>4

(* A packet is committed by whoever allocated it. *)
LEMMA CommitPacketKeepsControl ==
    ASSUME Control, NEW a \in Actors, CommitPacket(a)
    PROVE  Control'
<1>1. /\ pc[a] = "commit" /\ Goto(a, "submit") /\ pbuf' = Mark(pbuf, held[a], "ready")
      /\ UNCHANGED <<owner, depth, isLogging, file, observed, syncDue, queued, stage, chan, held,
                     session, messages, late, restarted, dropped, missed>>
  BY DEF CommitPacket, channelVars, workVars, ghostVars, Commit
<1>2. /\ Places' /\ Phases'
      /\ pc' \in [Actors -> {"idle", "open", "observe", "mark", "alloc", "remove", "commit", "submit"}]
  BY <1>1, ActorMoves
<1>3. pbuf' \in Seq(Packets) /\ Len(pbuf') = Len(pbuf)
  BY <1>1, ControlParts, MarkPacket DEF TypeOK, Packets, States
<1>4. TypeOK'
  BY <1>1, <1>2, <1>3, ControlParts DEF TypeOK, Packets, States
<1>5. QED
  BY <1>2, <1>4 DEF Control

(* The work is submitted by the publisher or the caller of the stop. *)
LEMMA SubmitWorkKeepsControl ==
    ASSUME Control, NEW a \in Actors, SubmitWork(a)
    PROVE  Control'
<1>1. /\ pc[a] = "submit" /\ Goto(a, "idle")
      /\ UNCHANGED <<owner, depth, isLogging, file, observed, syncDue, pbuf, stage, chan, held,
                     session, messages, late, restarted, dropped>>
      /\ queued' \in BOOLEAN /\ missed' \in BOOLEAN
  BY DEF SubmitWork, channelVars
<1>2. /\ Places' /\ Phases'
      /\ pc' \in [Actors -> {"idle", "open", "observe", "mark", "alloc", "remove", "commit", "submit"}]
  BY <1>1, ActorMoves
<1>3. TypeOK'
  BY <1>1, <1>2, ControlParts DEF TypeOK
<1>4. QED
  BY <1>2, <1>3 DEF Control

(* Nobody moves in a step of the work queue, or the publisher of a message. *)
LEMMA NobodyMoves ==
    ASSUME Control, UNCHANGED <<owner, chan, isLogging, observed, session>>,
           \A o \in Operators : pc'[o] = pc[o],
           \A c \in Channels : pc'[c] \in {"idle", "commit", "submit"}
    PROVE  /\ Places' /\ Phases'
           /\ \A d \in Channels : \A q : At(d, q)' <=> At(d, q)
<1>1. Places' /\ \A d \in Channels : \A q : At(d, q)' <=> At(d, q)
  BY ControlParts, OperatorsStay
<1>2. Phases'
  BY <1>1, ControlParts DEF Phases, Started
<1>3. QED
  BY <1>1, <1>2

(* A message published gets an identity, and a place for its packet. *)
LEMMA PublishKeepsControl ==
    ASSUME Control, NEW c \in Channels, Publish(c)
    PROVE  Control'
<1> DEFINE id == <<c, "data", session[c], messages[c] + 1>>
<1>1. /\ pc[c] = "idle" /\ observed[c] /\ messages[c] < MaxMessages
      /\ messages' = [messages EXCEPT ![c] = @ + 1]
      /\ UNCHANGED <<owner, depth, isLogging, file, observed, syncDue, queued, stage, chan,
                     session, restarted, missed>>
  BY DEF Publish, channelVars, workVars
<1>2. messages[c] + 1 \in 1..MaxMessages /\ session[c] \in 1..MaxSessions
  <2>1. session[c] > 0
    BY <1>1, ControlParts DEF Phases, Started
  <2>2. session[c] \in 0..MaxSessions /\ messages[c] \in 0..MaxMessages
    BY ControlParts DEF TypeOK
  <2>3. QED
    BY <1>1, <2>1, <2>2, ControlTypes
<1>3. id \in DataIds /\ id \in Ids /\ c \in Actors
  BY <1>2, ControlTypes DEF Ids, DataIds
<1>4. messages' \in [Channels -> 0..MaxMessages]
  <2>1. messages \in [Channels -> 0..MaxMessages] /\ messages[c] + 1 \in 0..MaxMessages
    BY <1>2, ControlTypes, ControlParts DEF TypeOK
  <2>2. QED
    BY <1>1, <2>1
<1>5. CASE CanOverwrite(pbuf, Capacity)
  <2>1. /\ PacketAlloc(c, id) /\ Goto(c, "commit")
        /\ late' \in {late, late \cup {id}}
    BY <1>5 DEF Publish
  <2>2. /\ pc' \in [Actors -> {"idle", "open", "observe", "mark", "alloc", "remove", "commit", "submit"}]
        /\ \A o \in Operators : pc'[o] = pc[o]
        /\ \A d \in Channels : pc'[d] \in {"idle", "commit", "submit"}
    BY <1>1, <2>1, ControlParts, ControlTypes DEF Goto, ActorTypes, Places
  <2> HIDE DEF id
  <2>3. late' \subseteq DataIds
    BY <1>3, <2>1, ControlParts DEF TypeOK
  <2>4. /\ pbuf' \in Seq([id : Ids, state : {"alloc", "ready", "busy"}]) /\ Len(pbuf') <= Capacity
        /\ held' \in [Actors -> Ids \cup {<<>>}] /\ dropped' \subseteq Channels
    BY <1>3, <1>5, <2>1, PacketTypes DEF Packets, States
  <2>5. TypeOK'
    BY <1>1, <1>4, <2>2, <2>3, <2>4, ControlParts DEF TypeOK
  <2>6. QED
    BY <1>1, <2>2, <2>5, NobodyMoves DEF Control
<1>6. CASE ~CanOverwrite(pbuf, Capacity)
  <2>1. UNCHANGED <<pbuf, held, late, dropped, pc>>
    BY <1>6 DEF Publish
  <2>2. TypeOK'
    BY <1>1, <1>4, <2>1, ControlParts DEF TypeOK
  <2>3. QED
    BY <1>1, <2>1, <2>2, ControlParts, NobodyMoves DEF Control, Places
<1>7. QED
  BY <1>5, <1>6

(* The works change the buffer, the file and the sync. *)
LEMMA WorkKeepsControl ==
    ASSUME Control, Busy, Work \/ (\E c \in Channels : SyncWork(c)) \/ UNCHANGED vars
    PROVE  /\ Control'
           /\ \A d \in Channels : \A q : At(d, q)' <=> At(d, q)
           /\ UNCHANGED <<owner, depth, isLogging, observed, pc, chan, held, session, messages,
                          late, restarted, dropped>>
<1>1. UNCHANGED <<owner, depth, isLogging, observed, pc, chan, held, session, messages,
                  late, restarted, dropped>>
  BY DEF Work, WorkStart, WorkClaim, WorkWrite, WorkClose, WorkFree, WorkReturn, SyncWork,
         vars, channelVars, workVars, actorVars, ghostVars
<1>2. Places' /\ Phases' /\ \A d \in Channels : \A q : At(d, q)' <=> At(d, q)
  BY <1>1, ControlParts, NobodyMoves DEF Places
<1>3. pbuf \in Seq(Packets) /\ \A i \in 1..Len(pbuf) : pbuf[i] \in Packets
  <2>1. pbuf \in Seq(Packets)
    BY ControlParts DEF TypeOK, Packets, States
  <2>2. QED
    BY <2>1
<1>4. pbuf' \in Seq(Packets) /\ Len(pbuf') <= Len(pbuf)
  <2>1. CASE WorkClaim /\ CanClaim(pbuf)
    BY <1>3, <2>1, MarkPacket DEF WorkClaim, Claim, States
  <2>2. CASE WorkFree
    <3>1. pbuf # <<>> /\ pbuf' = Free(pbuf)
      BY <2>2 DEF WorkFree, Busy
    <3>2. QED
      BY <1>3, <3>1, Freed DEF Left
  <2>3. CASE ~(WorkClaim /\ CanClaim(pbuf)) /\ ~WorkFree
    BY <1>3, <2>3 DEF Work, WorkStart, WorkClaim, WorkWrite, WorkClose, WorkReturn, SyncWork, vars
  <2>4. QED
    BY <2>1, <2>2, <2>3
<1>5. /\ stage' \in {"idle", "claim", "handle", "free", "return"}
      /\ queued' \in BOOLEAN /\ missed' \in BOOLEAN
  <2>1. queued \in BOOLEAN /\ missed \in BOOLEAN /\ stage \in {"idle", "claim", "handle", "free", "return"}
    BY ControlParts DEF TypeOK
  <2>2. QED
    BY <2>1 DEF Work, WorkStart, WorkClaim, WorkWrite, WorkClose, WorkFree, WorkReturn, SyncWork,
           vars, workVars, ghostVars
<1>6. file' \in [Channels -> 0..MaxSessions] /\ syncDue' \in [Channels -> BOOLEAN]
  <2>1. /\ file \in [Channels -> 0..MaxSessions] /\ syncDue \in [Channels -> BOOLEAN]
        /\ 0 \in 0..MaxSessions /\ TRUE \in BOOLEAN /\ FALSE \in BOOLEAN
    BY ControlParts, ControlTypes DEF TypeOK
  <2>2. CASE WorkWrite
    BY <2>1, <2>2 DEF WorkWrite
  <2>3. CASE WorkClose
    BY <2>1, <2>3 DEF WorkClose
  <2>4. CASE \E c \in Channels : SyncWork(c)
    BY <2>1, <2>4 DEF SyncWork
  <2>5. CASE WorkStart \/ WorkClaim \/ WorkFree \/ WorkReturn \/ UNCHANGED vars
    BY <2>1, <2>5 DEF WorkStart, WorkClaim, WorkFree, WorkReturn, vars, channelVars
  <2>6. QED
    BY <2>2, <2>3, <2>4, <2>5 DEF Work
<1>7. TypeOK'
  <2>1. /\ pbuf' \in Seq([id : Ids, state : {"alloc", "ready", "busy"}])
        /\ Len(pbuf') <= Capacity
    BY <1>3, <1>4, ControlParts, LoggingAssumption DEF TypeOK, Packets, States
  <2>2. QED
    BY <1>1, <1>5, <1>6, <2>1, ControlParts DEF TypeOK
<1>8. QED
  BY <1>1, <1>2, <1>7 DEF Control

(* Every step keeps types, places and phases. *)
LEMMA StepKeepsControl ==
    ASSUME Control, Busy, [Next]_vars
    PROVE  Control'
<1>1. CASE Work \/ (\E c \in Channels : SyncWork(c)) \/ UNCHANGED vars
  BY <1>1, WorkKeepsControl
<1>2. CASE \E c \in Channels : Publish(c)
  BY <1>2, PublishKeepsControl
<1>3. CASE \E o \in Operators : Operator(o)
  BY <1>3, StartEnterKeepsControl, StopEnterKeepsControl, StartOpenKeepsControl,
     StartObserveKeepsControl, StartReturnKeepsControl, StopAllocKeepsControl,
     StopRemoveKeepsControl DEF Operator
<1>4. CASE \E a \in Actors : CommitPacket(a) \/ SubmitWork(a)
  BY <1>4, CommitPacketKeepsControl, SubmitWorkKeepsControl
<1>5. QED
  BY <1>1, <1>2, <1>3, <1>4 DEF Next

-----------------------------------------------------------------------------
(* The order of the packets and the state of the files are kept by every    *)
(* step.                                                                    *)

(* A sync due on channel c is for the file of its last session. *)
SyncFits(c) ==
    syncDue[c] /\ (\A id \in late : ChannelOf(id) # c) =>
      file[c] = session[c] /\ file[c] # 0 /\ ~At(c, "observe")

(* What packets and types of packets are. *)
LEMMA PacketFacts ==
    ASSUME Control
    PROVE  /\ pbuf \in Seq(Packets) /\ Len(pbuf) \in Nat
           /\ \A i \in 1..Len(pbuf) : /\ pbuf[i].id \in Ids /\ pbuf[i].state \in States
                                      /\ ChannelOf(pbuf[i].id) \in Channels
                                      /\ SessionOf(pbuf[i].id) \in Nat /\ pbuf[i].id[4] \in Nat
           /\ session \in [Channels -> Nat] /\ messages \in [Channels -> Nat]
           /\ file \in [Channels -> Nat]
<1>1. pbuf \in Seq(Packets)
  BY ControlParts DEF TypeOK, Packets, States
<1>2. \A i \in 1..Len(pbuf) : pbuf[i] \in Packets
  BY <1>1
<1>3. \A id \in Ids : ChannelOf(id) \in Channels /\ SessionOf(id) \in Nat /\ id[4] \in Nat
  <2> SUFFICES ASSUME NEW id \in Ids
               PROVE  ChannelOf(id) \in Channels /\ SessionOf(id) \in Nat /\ id[4] \in Nat
    OBVIOUS
  <2>1. CASE id \in DataIds
    BY <2>1, ControlTypes DEF DataIds, ChannelOf, SessionOf
  <2>2. CASE id \in StopIds
    BY <2>2, ControlTypes DEF StopIds, ChannelOf, SessionOf
  <2>3. QED
    BY <2>1, <2>2 DEF Ids
<1>4. session \in [Channels -> Nat] /\ messages \in [Channels -> Nat] /\ file \in [Channels -> Nat]
  BY ControlParts, ControlTypes DEF TypeOK
<1>5. \A i \in 1..Len(pbuf) : pbuf[i].id \in Ids /\ pbuf[i].state \in States
  BY <1>2 DEF Packets
<1>6. QED
  BY <1>1, <1>3, <1>4, <1>5

(* A step that leaves the packets and the sessions as they are. *)
LEMMA QuietKeepsOrder ==
    ASSUME Control, Order,
           \A c \in Channels, q \in {"observe", "remove"} : At(c, q)' <=> At(c, q),
           UNCHANGED <<pbuf, observed, file, session, late, restarted, dropped>>,
           \A c \in Channels : messages[c] <= messages'[c] /\ messages'[c] \in Nat,
           stage' \in {"handle", "free"} <=> stage \in {"handle", "free"},
           \A c \in Channels \ restarted :
             /\ stage' = "free" /\ Stop(1, c) => file[c] = 0 /\ ~syncDue'[c]
             /\ syncDue'[c] => SyncFits(c)' ,
           \A a \in Actors : pc'[a] \in {"remove", "commit"} =>
             pc[a] \in {"remove", "commit"} /\ chan'[a] = chan[a] /\ held'[a] = held[a]
    PROVE  Order'
<1>1. Busy'
  BY DEF Order, Busy
<1>2. \A c \in Channels : Started(c)' <=> Started(c)
  BY DEF Started
<1>3. \A i, c : Stop(i, c)' <=> Stop(i, c)
  BY DEF Stop
<1>4. Numbered'
  <2>1. \A i, j \in 1..Len(pbuf) : pbuf[i].id = pbuf[j].id => i = j
    BY DEF Order, Numbered
  <2>2. ASSUME NEW i \in 1..Len(pbuf), NEW id \in Ids, id = pbuf[i].id,
               NEW c \in Channels, c = ChannelOf(id)
        PROVE  /\ IsStop(id) => /\ SessionOf(id) <= session[c]
                                /\ SessionOf(id) = session[c] /\ Started(c)' => At(c, "remove")'
               /\ ~IsStop(id) => id[4] <= messages'[c]
    <3>1. /\ IsStop(id) => /\ SessionOf(id) <= session[c]
                           /\ SessionOf(id) = session[c] /\ Started(c) => At(c, "remove")
          /\ ~IsStop(id) => id[4] <= messages[c]
      BY <2>2 DEF Order, Numbered
    <3>2. /\ Started(c)' <=> Started(c)
          /\ At(c, "remove")' <=> At(c, "remove")
          /\ messages[c] <= messages'[c] /\ messages'[c] \in Nat /\ messages[c] \in Nat
          /\ id[4] \in Nat
      BY <1>2, <2>2, PacketFacts
    <3>3. QED
      BY <3>1, <3>2
  <2>3. \A i \in 1..Len(pbuf) : pbuf[i].id \in Ids /\ ChannelOf(pbuf[i].id) \in Channels
    BY PacketFacts
  <2>4. QED
    BY <2>1, <2>2, <2>3 DEF Numbered
<1>5. Held'
  BY DEF Order, Held
<1>6. Stops'
  BY <1>2, <1>3 DEF Order, Stops
<1>7. Files'
  <2>1. \A c \in Channels : Stopping(c)' <=> Stopping(c)
    BY <1>3 DEF Stopping
  <2>2. QED
    BY <1>2, <1>3, <2>1 DEF Order, Files, SyncFits
<1>8. Messages'
  <2>1. \A c \in Channels : Stopping(c)' <=> Stopping(c)
    BY <1>3 DEF Stopping
  <2>2. QED
    BY <1>3, <2>1, PacketFacts DEF Order, Messages
<1>9. QED
  BY <1>1, <1>4, <1>5, <1>6, <1>7, <1>8 DEF Order

(* An operator moves between places where it has no packet, and has not     *)
(* opened the file.                                                         *)
LEMMA QuietMove ==
    ASSUME Control, NEW o \in Operators, NEW place, Goto(o, place),
           place \notin {"observe", "remove", "commit"}, pc[o] \notin {"observe", "remove"},
           \A a \in Actors \ {o} : chan'[a] = chan[a], held' = held
    PROVE  /\ \A c \in Channels, q \in {"observe", "remove"} : At(c, q)' <=> At(c, q)
           /\ \A a \in Actors : pc'[a] \in {"remove", "commit"} =>
                pc[a] \in {"remove", "commit"} /\ chan'[a] = chan[a] /\ held'[a] = held[a]
<1>1. pc'[o] = place /\ \A a \in Actors \ {o} : pc'[a] = pc[a]
  BY ControlParts, ControlTypes DEF Goto, ActorTypes
<1>2. \A a \in Actors : pc'[a] \in {"remove", "commit"} =>
        pc[a] \in {"remove", "commit"} /\ chan'[a] = chan[a] /\ held'[a] = held[a]
  BY <1>1
<1>3. ASSUME NEW c \in Channels, NEW q \in {"observe", "remove"}
      PROVE  At(c, q)' <=> At(c, q)
  <2>1. \A p \in Operators : chan'[p] = c /\ pc'[p] = q <=> chan[p] = c /\ pc[p] = q
    BY <1>1, ControlTypes
  <2>2. QED
    BY <2>1 DEF At
<1>4. QED
  BY <1>2, <1>3

(* The steps that change neither the files nor the packets. *)
LEMMA OperatorKeepsOrder ==
    ASSUME Control, Order, NEW o \in Operators,
           \/ \E c \in Channels : StartEnter(o, c) \/ StopEnter(o, c)
           \/ StartReturn(o)
           \/ StopAlloc(o) /\ ~CanOverwrite(pbuf, Capacity)
    PROVE  Order'
<1>1. /\ UNCHANGED <<pbuf, observed, file, syncDue, session, messages, late, restarted, dropped,
                     stage, held>>
      /\ \E place \in {"open", "alloc", "idle"} : Goto(o, place)
      /\ pc[o] \in {"idle", "mark", "alloc"}
      /\ \A a \in Actors \ {o} : chan'[a] = chan[a]
  BY ControlTypes DEF StartEnter, StopEnter, StartReturn, StopAlloc, workVars, ghostVars, ActorTypes
<1>2. /\ \A c \in Channels, q \in {"observe", "remove"} : At(c, q)' <=> At(c, q)
      /\ \A a \in Actors : pc'[a] \in {"remove", "commit"} =>
           pc[a] \in {"remove", "commit"} /\ chan'[a] = chan[a] /\ held'[a] = held[a]
  BY <1>1, QuietMove
<1>3. \A c \in Channels : messages[c] <= messages'[c] /\ messages'[c] \in Nat
  BY <1>1, PacketFacts
<1>4. \A c \in Channels \ restarted : SyncFits(c)' /\
         (stage = "free" /\ Stop(1, c) => file[c] = 0 /\ ~syncDue[c])
  BY <1>1, <1>2 DEF Order, Files, SyncFits
<1>5. QED
  BY <1>1, <1>2, <1>3, <1>4, QuietKeepsOrder

(* A message is lost, when nothing can be overwritten. *)
LEMMA LostKeepsOrder ==
    ASSUME Control, Order, NEW c \in Channels, Publish(c), ~CanOverwrite(pbuf, Capacity)
    PROVE  Order'
<1>1. /\ UNCHANGED <<pbuf, observed, file, syncDue, session, late, restarted, dropped,
                     stage, held, pc, chan>>
      /\ messages' = [messages EXCEPT ![c] = @ + 1]
  BY DEF Publish, channelVars, workVars
<1>2. \A d \in Channels, q \in {"observe", "remove"} : At(d, q)' <=> At(d, q)
  BY <1>1 DEF At
<1>3. \A d \in Channels : messages[d] <= messages'[d] /\ messages'[d] \in Nat
  BY <1>1, PacketFacts
<1>4. \A d \in Channels \ restarted : SyncFits(d)' /\
         (stage = "free" /\ Stop(1, d) => file[d] = 0 /\ ~syncDue[d])
  BY <1>1, <1>2 DEF Order, Files, SyncFits
<1>5. QED
  BY <1>1, <1>2, <1>3, <1>4, QuietKeepsOrder

(* The submission of the work. *)
LEMMA SubmitWorkKeepsOrder ==
    ASSUME Control, Order, NEW a \in Actors, SubmitWork(a)
    PROVE  Order'
<1>1. /\ UNCHANGED <<owner, isLogging, pbuf, observed, file, syncDue, session, messages, late,
                     restarted, dropped, stage, held, chan>>
      /\ pc[a] = "submit" /\ Goto(a, "idle")
  BY DEF SubmitWork, channelVars
<1>2. /\ \A d \in Channels : \A q : q \notin {"idle", "commit", "submit"} => (At(d, q)' <=> At(d, q))
      /\ \A b \in Actors \ {a} : pc'[b] = pc[b]
      /\ pc'[a] = "idle"
  BY <1>1, ActorMoves
<1>3. \A d \in Channels : messages[d] <= messages'[d] /\ messages'[d] \in Nat
  BY <1>1, PacketFacts
<1>4. \A d \in Channels \ restarted : SyncFits(d)' /\
         (stage = "free" /\ Stop(1, d) => file[d] = 0 /\ ~syncDue[d])
  BY <1>1, <1>2 DEF Order, Files, SyncFits
<1>5. \A b \in Actors : pc'[b] \in {"remove", "commit"} =>
        pc[b] \in {"remove", "commit"} /\ chan'[b] = chan[b] /\ held'[b] = held[b]
  BY <1>1, <1>2
<1>6. QED
  BY <1>1, <1>2, <1>3, <1>4, <1>5, QuietKeepsOrder

(* The steps of the work that leave the packets and the file. *)
LEMMA WorkKeepsOrder ==
    ASSUME Control, Order,
           \/ WorkStart \/ WorkWrite \/ WorkReturn \/ UNCHANGED vars
           \/ WorkClaim /\ ~CanClaim(pbuf)
           \/ \E c \in Channels : SyncWork(c)
    PROVE  Order'
<1>1. /\ UNCHANGED <<pbuf, observed, file, session, messages, late, restarted, dropped,
                     held, pc, chan>>
      /\ stage' \in {"handle", "free"} <=> stage \in {"handle", "free"}
  BY DEF WorkStart, WorkClaim, WorkWrite, WorkReturn, SyncWork,
         vars, channelVars, workVars, actorVars, ghostVars
<1>2. \A d \in Channels, q \in {"observe", "remove"} : At(d, q)' <=> At(d, q)
  BY <1>1 DEF At
<1>3. \A d \in Channels : messages[d] <= messages'[d] /\ messages'[d] \in Nat
  BY <1>1, PacketFacts
<1>4. ASSUME NEW d \in Channels \ restarted
      PROVE  /\ stage' = "free" /\ Stop(1, d) => file[d] = 0 /\ ~syncDue'[d]
             /\ syncDue'[d] => SyncFits(d)'
  <2>1. /\ stage = "free" /\ Stop(1, d) => file[d] = 0 /\ ~syncDue[d]
        /\ SyncFits(d)
    BY DEF Order, Files, SyncFits
  <2>2. syncDue \in [Channels -> BOOLEAN]
    BY ControlParts DEF TypeOK
  <2>3. CASE WorkWrite
    <3> DEFINE c == ChannelOf(pbuf[1].id)
    <3>1. /\ stage = "handle" /\ ~IsStop(pbuf[1].id) /\ stage' = "free" /\ c \in Channels
          /\ pbuf # <<>> /\ 1 \in 1..Len(pbuf)
      <4>1. stage = "handle" /\ ~IsStop(pbuf[1].id) /\ stage' = "free" /\ pbuf # <<>>
        BY <2>3 DEF WorkWrite, Claimed, Order, Busy
      <4>2. 1 \in 1..Len(pbuf)
        BY <4>1, PacketFacts, EmptySeq
      <4>3. QED
        BY <4>1, <4>2, PacketFacts
    <3>2. ~Stop(1, d)
      BY <3>1 DEF Stop
    <3>3. CASE d = c /\ syncDue'[d] /\ (\A id \in late : ChannelOf(id) # d) /\ file[d] # 0
      <4>1. pbuf[1].id \notin late
        BY <3>3
      <4>2. file[d] = session[d] /\ ~At(d, "observe")
        BY <3>1, <3>3, <4>1 DEF Order, Messages
      <4>3. QED
        BY <1>1, <1>2, <3>2, <3>3, <4>2 DEF SyncFits
    <3>4. CASE ~(d = c /\ syncDue'[d] /\ (\A id \in late : ChannelOf(id) # d) /\ file[d] # 0)
      <4>1. CASE UNCHANGED syncDue
        BY <1>1, <1>2, <2>1, <3>2, <4>1 DEF SyncFits
      <4>2. CASE file[c] # 0 /\ syncDue' = [syncDue EXCEPT ![c] = TRUE]
        <5>1. CASE d = c
          BY <1>1, <3>2, <3>4, <4>2, <5>1 DEF SyncFits
        <5>2. CASE d # c
          <6>1. syncDue'[d] = syncDue[d]
            BY <2>2, <4>2, <5>2
          <6>2. QED
            BY <1>1, <1>2, <2>1, <3>2, <6>1 DEF SyncFits
        <5>3. QED
          BY <5>1, <5>2
      <4>3. QED
        BY <2>3, <4>1, <4>2 DEF WorkWrite, Claimed
    <3>5. QED
      BY <3>3, <3>4
  <2>4. CASE \E c \in Channels : SyncWork(c)
    <3>1. syncDue'[d] => syncDue[d]
      BY <2>2, <2>4 DEF SyncWork
    <3>2. stage' = stage
      BY <2>4 DEF SyncWork, workVars
    <3>3. QED
      BY <1>1, <1>2, <2>1, <3>1, <3>2 DEF SyncFits
  <2>5. CASE WorkStart \/ WorkReturn \/ UNCHANGED vars \/ (WorkClaim /\ ~CanClaim(pbuf))
    <3>1. UNCHANGED syncDue /\ (stage' = "free" => stage = "free")
      BY <2>5 DEF WorkStart, WorkReturn, WorkClaim, vars, channelVars, workVars
    <3>2. QED
      BY <1>1, <1>2, <2>1, <3>1 DEF SyncFits
  <2>6. QED
    BY <2>3, <2>4, <2>5
<1>5. \A b \in Actors : pc'[b] \in {"remove", "commit"} =>
        pc[b] \in {"remove", "commit"} /\ chan'[b] = chan[b] /\ held'[b] = held[b]
  BY <1>1
<1>6. QED
  BY <1>1, <1>2, <1>3, <1>4, <1>5, QuietKeepsOrder

(* The stop of a session closes the file, after the messages of the session *)
(* were handled.                                                            *)
LEMMA WorkCloseKeepsOrder ==
    ASSUME Control, Order, WorkClose
    PROVE  Order'
<1> SUFFICES ASSUME NEW c \in Channels, c = ChannelOf(pbuf[1].id), 1 \in 1..Len(pbuf), pbuf # <<>>
             PROVE  Order'
  <2>1. pbuf # <<>>
    BY DEF WorkClose, Order, Busy
  <2>2. 1 \in 1..Len(pbuf)
    BY <2>1, PacketFacts, EmptySeq
  <2>3. QED
    BY <2>1, <2>2, PacketFacts
<1>1. /\ stage = "handle" /\ IsStop(pbuf[1].id) /\ stage' = "free"
      /\ file' = [file EXCEPT ![c] = 0] /\ syncDue' = [syncDue EXCEPT ![c] = FALSE]
      /\ UNCHANGED <<pbuf, observed, session, messages, late, restarted, dropped, held, pc, chan>>
  BY DEF WorkClose, Claimed, actorVars, ghostVars
<1>2. /\ file'[c] = 0 /\ ~syncDue'[c]
      /\ \A d \in Channels \ {c} : file'[d] = file[d] /\ syncDue'[d] = syncDue[d]
  BY <1>1, PacketFacts, ControlParts DEF TypeOK
<1>3. /\ \A d \in Channels : \A q : At(d, q)' <=> At(d, q)
      /\ \A d \in Channels : (Started(d)' <=> Started(d)) /\ (Stopping(d)' <=> Stopping(d))
      /\ \A i, d : Stop(i, d)' <=> Stop(i, d)
  BY <1>1 DEF At, Started, Stopping, Stop
<1>4. Stop(1, c) /\ pbuf[1].state = "busy"
  BY <1>1 DEF Stop, Order, Busy
<1>5. c \notin restarted => ~Started(c)
  BY <1>4 DEF Order, Stops
<1>6. Busy' /\ Held'
  BY <1>1 DEF Order, Busy, Held
<1>7. Numbered'
  BY <1>1, <1>3, PacketFacts DEF Order, Numbered
<1>8. Stops'
  BY <1>1, <1>3 DEF Order, Stops
<1>9. Files'
  <2>1. ASSUME NEW d \in Channels \ restarted, d # c
        PROVE  /\ Started(d) => file'[d] = session[d]
               /\ ~Started(d) /\ file'[d] # 0 => d \in dropped \/ Stopping(d)
               /\ ~Stop(1, d)
               /\ syncDue'[d] /\ (\A id \in late : ChannelOf(id) # d) =>
                    file'[d] = session[d] /\ file'[d] # 0 /\ ~At(d, "observe")
    BY <1>2, <2>1 DEF Order, Files, Stop
  <2>2. QED
    BY <1>1, <1>2, <1>3, <1>5, <2>1 DEF Files
<1>10. Messages'
  <2>1. \A i \in 1..Len(pbuf) : 1 \in 1..i
    BY PacketFacts
  <2>2. QED
    BY <1>1, <1>2, <1>3, <1>4, <2>1, PacketFacts DEF Order, Messages
<1>11. QED
  BY <1>6, <1>7, <1>8, <1>9, <1>10 DEF Order

(* The start of a channel opens its file, or fails. *)
LEMMA StartOpenKeepsOrder ==
    ASSUME Control, Order, NEW o \in Operators, StartOpen(o)
    PROVE  Order'
<1> SUFFICES ASSUME NEW c \in Channels, c = chan[o], NEW place \in {"observe", "idle"}, Goto(o, place),
                    place = "observe" =>
                      /\ file' = [file EXCEPT ![c] = session[c] + 1]
                      /\ session' = [session EXCEPT ![c] = @ + 1],
                    place = "idle" =>
                      /\ file' = [file EXCEPT ![c] = 0]
                      /\ session' = session
             PROVE  Order'
  BY ControlTypes DEF StartOpen, StartFailed
<1>1. /\ pc[o] = "open" /\ At(c, "open") /\ owner[c] = o
      /\ UNCHANGED <<observed, syncDue, pbuf, stage, chan, held, messages, late, dropped>>
      /\ restarted' = IF StopPending(c) \/ c \in dropped THEN restarted \cup {c} ELSE restarted
      /\ \A d \in Channels \ {c} : owner'[d] = owner[d]
      /\ place = "observe" => owner' = owner
  <2>1. \A d \in Channels \ {c} : owner'[d] = owner[d]
    BY ControlTypes DEF StartOpen, StartFailed, Unlock, LockTypes
  <2>2. place = "observe" => owner' = owner
    BY ControlTypes DEF StartOpen, StartFailed, Goto, ActorTypes
  <2>3. QED
    BY <2>1, <2>2, ControlTypes DEF StartOpen, workVars
<1>2. /\ \A q : q # "idle" => (At(c, q)' <=> q = place)
      /\ \A q : q # "idle" => (At(c, q) <=> q = "open")
      /\ \A d \in Channels \ {c} : \A q : q # "idle" => (At(d, q)' <=> At(d, q))
  <2>1. /\ chan'[o] = c /\ \A a \in Actors \ {o} : chan'[a] = chan[a]
        /\ pc[o] # "idle" /\ chan[o] = c /\ (place # "idle" => owner'[c] = o)
    BY <1>1
  <2>2. QED
    BY <1>1, <2>1, ControlParts, OperatorMoves
<1>3. /\ ~Started(c) /\ (Started(c)' <=> place = "observe")
      /\ \A d \in Channels \ {c} : Started(d)' <=> Started(d)
  <2>1. ~observed[c]
    BY <1>1, ControlParts DEF Phases
  <2>2. QED
    BY <1>1, <1>2, <2>1 DEF Started
<1>4. /\ \A i, d : Stop(i, d)' <=> Stop(i, d)
      /\ \A d : Stopping(d)' <=> Stopping(d)
  BY <1>1 DEF Stop, Stopping
<1>5. /\ \A d \in Channels \ {c} : file'[d] = file[d] /\ session'[d] = session[d]
      /\ place = "observe" => file'[c] = session'[c] /\ session'[c] = session[c] + 1
      /\ place = "idle" => file'[c] = 0 /\ session'[c] = session[c]
  BY PacketFacts
<1>6. c \notin restarted' => ~Stopping(c) /\ c \notin dropped /\ c \notin restarted
  BY <1>1 DEF StopPending, Stopping, Stop
<1>7. /\ \A d \in Channels \ {c} : d \in restarted' <=> d \in restarted
      /\ restarted \subseteq restarted'
  BY <1>1
<1>8. c \notin restarted' => file[c] = 0
  BY <1>3, <1>6 DEF Order, Files
<1>9. c \notin restarted' /\ syncDue[c] => \E id \in late : ChannelOf(id) = c
  BY <1>6, <1>8 DEF Order, Files
<1>10. c \notin restarted' =>
         \A i \in 1..Len(pbuf) : ~IsStop(pbuf[i].id) /\ pbuf[i].id \notin late => ChannelOf(pbuf[i].id) # c
  BY <1>3, <1>6 DEF Order, Messages, Started
<1>11. Busy'
  BY <1>1 DEF Order, Busy
<1>12. Held'
  <2>1. \A a \in Actors : pc'[a] \in {"remove", "commit"} => pc[a] = pc'[a]
    BY ControlParts, ControlTypes DEF Goto, ActorTypes
  <2>2. QED
    BY <1>1, <2>1 DEF Order, Held
<1>13. Numbered'
  <2>1. ASSUME NEW i \in 1..Len(pbuf), IsStop(pbuf[i].id),
               NEW d \in Channels, d = ChannelOf(pbuf[i].id)
        PROVE  /\ SessionOf(pbuf[i].id) <= session'[d]
               /\ SessionOf(pbuf[i].id) = session'[d] /\ Started(d)' => At(d, "remove")'
    <3>1. /\ SessionOf(pbuf[i].id) <= session[d]
          /\ SessionOf(pbuf[i].id) = session[d] /\ Started(d) => At(d, "remove")
      BY <2>1 DEF Order, Numbered
    <3>2. CASE d = c
      BY <1>3, <1>5, <3>1, <3>2, PacketFacts
    <3>3. CASE d # c
      BY <1>2, <1>3, <1>5, <3>1, <3>3
    <3>4. QED
      BY <3>2, <3>3
  <2>2. QED
    BY <1>1, <2>1, PacketFacts DEF Order, Numbered
<1>14. Stops'
  <2>1. ASSUME NEW d \in Channels \ restarted', Started(d)'
        PROVE  /\ d \notin dropped
               /\ \A i \in 1..Len(pbuf) : Stop(i, d) => At(d, "remove")' /\ pbuf[i].state = "alloc"
    <3>1. CASE d = c
      BY <1>6, <3>1 DEF Stopping
    <3>2. CASE d # c
      BY <1>2, <1>3, <1>7, <2>1, <3>2 DEF Order, Stops
    <3>3. QED
      BY <3>1, <3>2
  <2>2. QED
    BY <1>1, <1>4, <2>1 DEF Stops
<1>15. Files'
  <2>1. ASSUME NEW d \in Channels \ restarted'
        PROVE  /\ Started(d)' => file'[d] = session'[d]
               /\ ~Started(d)' /\ file'[d] # 0 => d \in dropped \/ Stopping(d)
               /\ stage = "free" /\ Stop(1, d) => file'[d] = 0 /\ ~syncDue[d]
               /\ syncDue[d] /\ (\A id \in late : ChannelOf(id) # d) =>
                    file'[d] = session'[d] /\ file'[d] # 0 /\ ~At(d, "observe")'
    <3>1. CASE d = c
      <4>1. stage = "free" => ~Stop(1, d)
        <5>1. stage = "free" => 1 \in 1..Len(pbuf)
          BY PacketFacts, EmptySeq DEF Order, Busy
        <5>2. QED
          BY <1>6, <3>1, <5>1 DEF Stopping
      <4>2. QED
        BY <1>3, <1>5, <1>9, <3>1, <4>1
    <3>2. CASE d # c
      BY <1>2, <1>3, <1>5, <1>7, <3>2 DEF Order, Files
    <3>3. QED
      BY <3>1, <3>2
  <2>2. QED
    BY <1>1, <1>4, <2>1 DEF Files
<1>16. Messages'
  <2>1. ASSUME NEW i \in 1..Len(pbuf), ~IsStop(pbuf[i].id), pbuf[i].id \notin late,
               NEW d \in Channels \ restarted', d = ChannelOf(pbuf[i].id)
        PROVE  /\ file'[d] = session'[d] /\ SessionOf(pbuf[i].id) = session'[d]
               /\ \A j \in 1..i : ~Stop(j, d)'
               /\ ~At(d, "observe")'
               /\ observed[d] \/ d \in dropped \/ Stopping(d)'
    <3>1. d # c
      BY <1>10, <2>1
    <3>2. QED
      BY <1>2, <1>4, <1>5, <1>7, <2>1, <3>1 DEF Order, Messages
  <2>2. QED
    BY <1>1, <2>1, PacketFacts DEF Messages
<1>17. QED
  BY <1>11, <1>12, <1>13, <1>14, <1>15, <1>16 DEF Order

(* The channel is observed from now on, or its start fails. *)
LEMMA StartObserveKeepsOrder ==
    ASSUME Control, Order, NEW o \in Operators, StartObserve(o)
    PROVE  Order'
<1> SUFFICES ASSUME NEW c \in Channels, c = chan[o], NEW place \in {"mark", "idle"}, Goto(o, place),
                    place = "mark" =>
                      /\ observed' = [observed EXCEPT ![c] = TRUE]
                      /\ file' = file,
                    place = "idle" =>
                      /\ file' = [file EXCEPT ![c] = 0]
                      /\ observed' = observed
             PROVE  Order'
  BY ControlTypes DEF StartObserve, StartFailed
<1>1. /\ pc[o] = "observe" /\ At(c, "observe") /\ owner[c] = o
      /\ UNCHANGED <<syncDue, pbuf, stage, chan, held, session, messages, late, restarted, dropped>>
      /\ \A d \in Channels \ {c} : owner'[d] = owner[d]
      /\ place = "mark" => owner' = owner
  <2>1. \A d \in Channels \ {c} : owner'[d] = owner[d]
    BY ControlTypes DEF StartObserve, StartFailed, Unlock, LockTypes
  <2>2. place = "mark" => owner' = owner
    BY ControlTypes DEF StartObserve, StartFailed, Goto, ActorTypes
  <2>3. QED
    BY <2>1, <2>2, ControlTypes DEF StartObserve, workVars, ghostVars
<1>2. /\ \A q : q # "idle" => (At(c, q)' <=> q = place)
      /\ \A q : q # "idle" => (At(c, q) <=> q = "observe")
      /\ \A d \in Channels \ {c} : \A q : q # "idle" => (At(d, q)' <=> At(d, q))
  <2>1. /\ chan'[o] = c /\ \A a \in Actors \ {o} : chan'[a] = chan[a]
        /\ pc[o] # "idle" /\ chan[o] = c /\ (place # "idle" => owner'[c] = o)
    BY <1>1
  <2>2. QED
    BY <1>1, <2>1, ControlParts, OperatorMoves
<1>3. /\ file[c] = session[c] \/ c \in restarted
      /\ place = "mark" => observed'[c] /\ file'[c] = file[c]
      /\ place = "idle" => ~observed'[c] /\ file'[c] = 0
      /\ \A d \in Channels \ {c} : observed'[d] = observed[d] /\ file'[d] = file[d]
  <2>1. ~observed[c]
    BY <1>1, ControlParts DEF Phases
  <2>2. observed \in [Channels -> BOOLEAN]
    BY ControlParts DEF TypeOK
  <2>3. file[c] = session[c] \/ c \in restarted
    BY <1>1 DEF Order, Files, Started
  <2>4. QED
    BY <2>1, <2>2, <2>3, PacketFacts
<1>4. /\ Started(c) /\ (Started(c)' => place = "mark")
      /\ place = "mark" => Started(c)'
      /\ \A d \in Channels \ {c} : Started(d)' <=> Started(d)
  BY <1>1, <1>2, <1>3 DEF Started
<1>5. /\ \A i, d : Stop(i, d)' <=> Stop(i, d)
      /\ \A d : Stopping(d)' <=> Stopping(d)
  BY <1>1 DEF Stop, Stopping
<1>6. c \notin restarted => \A i \in 1..Len(pbuf) : ~Stop(i, c)
  BY <1>2, <1>4 DEF Order, Stops
<1>7. c \notin restarted /\ syncDue[c] => \E id \in late : ChannelOf(id) = c
  BY <1>2 DEF Order, Files
<1>8. c \notin restarted =>
        \A i \in 1..Len(pbuf) : ~IsStop(pbuf[i].id) /\ pbuf[i].id \notin late => ChannelOf(pbuf[i].id) # c
  BY <1>2 DEF Order, Messages
<1>9. Busy'
  BY <1>1 DEF Order, Busy
<1>10. Held'
  <2>1. \A a \in Actors : pc'[a] \in {"remove", "commit"} => pc[a] = pc'[a]
    BY ControlParts, ControlTypes DEF Goto, ActorTypes
  <2>2. QED
    BY <1>1, <2>1 DEF Order, Held
<1>11. Numbered'
  <2>1. ASSUME NEW i \in 1..Len(pbuf), IsStop(pbuf[i].id),
               NEW d \in Channels, d = ChannelOf(pbuf[i].id)
        PROVE  /\ SessionOf(pbuf[i].id) <= session[d]
               /\ SessionOf(pbuf[i].id) = session[d] /\ Started(d)' => At(d, "remove")'
    BY <1>2, <1>4, <2>1 DEF Order, Numbered
  <2>2. QED
    BY <1>1, <2>1, PacketFacts DEF Order, Numbered
<1>12. Stops'
  <2>1. ASSUME NEW d \in Channels \ restarted, Started(d)'
        PROVE  /\ d \notin dropped
               /\ \A i \in 1..Len(pbuf) : Stop(i, d)' => At(d, "remove")' /\ pbuf[i].state = "alloc"
    BY <1>2, <1>4, <1>5, <1>6, <2>1 DEF Order, Stops
  <2>2. QED
    BY <1>1, <2>1 DEF Stops
<1>13. Files'
  <2>1. ASSUME NEW d \in Channels \ restarted
        PROVE  /\ Started(d)' => file'[d] = session[d]
               /\ ~Started(d)' /\ file'[d] # 0 => d \in dropped \/ Stopping(d)'
               /\ stage = "free" /\ Stop(1, d)' => file'[d] = 0 /\ ~syncDue[d]
               /\ syncDue[d] /\ (\A id \in late : ChannelOf(id) # d) =>
                    file'[d] = session[d] /\ file'[d] # 0 /\ ~At(d, "observe")'
    <3>1. CASE d = c
      <4>1. stage = "free" => ~Stop(1, d)
        <5>1. stage = "free" => 1 \in 1..Len(pbuf)
          BY PacketFacts, EmptySeq DEF Order, Busy
        <5>2. QED
          BY <1>6, <3>1, <5>1
      <4>2. QED
        BY <1>3, <1>4, <1>5, <1>7, <3>1, <4>1
    <3>2. CASE d # c
      BY <1>2, <1>3, <1>4, <1>5, <3>2 DEF Order, Files
    <3>3. QED
      BY <3>1, <3>2
  <2>2. QED
    BY <1>1, <2>1 DEF Files
<1>14. Messages'
  <2>1. ASSUME NEW i \in 1..Len(pbuf), ~IsStop(pbuf[i].id), pbuf[i].id \notin late,
               NEW d \in Channels \ restarted, d = ChannelOf(pbuf[i].id)
        PROVE  /\ file'[d] = session[d] /\ SessionOf(pbuf[i].id) = session[d]
               /\ \A j \in 1..i : ~Stop(j, d)'
               /\ ~At(d, "observe")'
               /\ observed'[d] \/ d \in dropped \/ Stopping(d)'
    <3>1. d # c
      BY <1>8, <2>1
    <3>2. QED
      BY <1>2, <1>3, <1>5, <2>1, <3>1 DEF Order, Messages
  <2>2. QED
    BY <1>1, <2>1, PacketFacts DEF Messages
<1>15. QED
  BY <1>9, <1>10, <1>11, <1>12, <1>13, <1>14 DEF Order

(* The channel is not observed any more: its stop packet is in the buffer. *)
LEMMA StopRemoveKeepsOrder ==
    ASSUME Control, Order, NEW o \in Operators, StopRemove(o)
    PROVE  Order'
<1> SUFFICES ASSUME NEW c \in Channels, c = chan[o]
             PROVE  Order'
  BY ControlTypes
<1>1. /\ pc[o] = "remove" /\ At(c, "remove") /\ owner[c] = o /\ Goto(o, "commit")
      /\ observed' = [observed EXCEPT ![c] = FALSE]
      /\ UNCHANGED <<owner, file, syncDue, pbuf, stage, chan, held, session, messages, late,
                     restarted, dropped>>
  BY ControlTypes DEF StopRemove, workVars, ghostVars
<1>2. /\ \A q : q # "idle" => (At(c, q)' <=> q = "commit")
      /\ \A q : q # "idle" => (At(c, q) <=> q = "remove")
      /\ \A d \in Channels \ {c} : \A q : q # "idle" => (At(d, q)' <=> At(d, q))
  BY <1>1, ControlParts, OperatorMoves
<1>3. ~observed'[c] /\ \A d \in Channels \ {c} : observed'[d] = observed[d]
  BY <1>1, ControlParts DEF TypeOK
<1>4. ~Started(c)' /\ \A d \in Channels \ {c} : Started(d)' <=> Started(d)
  BY <1>2, <1>3 DEF Started
<1>5. /\ \A i, d : Stop(i, d)' <=> Stop(i, d)
      /\ \A d : Stopping(d)' <=> Stopping(d)
  BY <1>1 DEF Stop, Stopping
<1>6. Stopping(c)
  <2>1. PICK i \in 1..Len(pbuf) : pbuf[i].id = held[o]
    BY <1>1, ControlTypes DEF Order, Held
  <2>2. ChannelOf(held[o]) = c /\ IsStop(held[o])
    BY <1>1, ControlTypes DEF Order, Held
  <2>3. QED
    BY <2>1, <2>2 DEF Stopping, Stop
<1>7. Busy'
  BY <1>1 DEF Order, Busy
<1>8. Held'
  <2>1. \A a \in Actors : pc'[a] \in {"remove", "commit"} => pc[a] \in {"remove", "commit"}
    BY <1>1, ControlParts, ControlTypes DEF Goto, ActorTypes
  <2>2. QED
    BY <1>1, <2>1 DEF Order, Held
<1>9. Numbered'
  <2>1. ASSUME NEW i \in 1..Len(pbuf), IsStop(pbuf[i].id),
               NEW d \in Channels, d = ChannelOf(pbuf[i].id)
        PROVE  /\ SessionOf(pbuf[i].id) <= session[d]
               /\ SessionOf(pbuf[i].id) = session[d] /\ Started(d)' => At(d, "remove")'
    BY <1>2, <1>4, <2>1 DEF Order, Numbered
  <2>2. QED
    BY <1>1, <2>1, PacketFacts DEF Order, Numbered
<1>10. Stops'
  <2>1. ASSUME NEW d \in Channels \ restarted, Started(d)'
        PROVE  /\ d \notin dropped
               /\ \A i \in 1..Len(pbuf) : Stop(i, d)' => At(d, "remove")' /\ pbuf[i].state = "alloc"
    BY <1>2, <1>4, <1>5, <2>1 DEF Order, Stops
  <2>2. QED
    BY <1>1, <2>1 DEF Stops
<1>11. Files'
  <2>1. ASSUME NEW d \in Channels \ restarted
        PROVE  /\ Started(d)' => file[d] = session[d]
               /\ ~Started(d)' /\ file[d] # 0 => d \in dropped \/ Stopping(d)'
               /\ stage = "free" /\ Stop(1, d)' => file[d] = 0 /\ ~syncDue[d]
               /\ syncDue[d] /\ (\A id \in late : ChannelOf(id) # d) =>
                    file[d] = session[d] /\ file[d] # 0 /\ ~At(d, "observe")'
    BY <1>2, <1>4, <1>5, <1>6 DEF Order, Files
  <2>2. QED
    BY <1>1, <2>1 DEF Files
<1>12. Messages'
  <2>1. ASSUME NEW i \in 1..Len(pbuf), ~IsStop(pbuf[i].id), pbuf[i].id \notin late,
               NEW d \in Channels \ restarted, d = ChannelOf(pbuf[i].id)
        PROVE  /\ file[d] = session[d] /\ SessionOf(pbuf[i].id) = session[d]
               /\ \A j \in 1..i : ~Stop(j, d)'
               /\ ~At(d, "observe")'
               /\ observed'[d] \/ d \in dropped \/ Stopping(d)'
    BY <1>2, <1>3, <1>5, <1>6, <2>1 DEF Order, Messages
  <2>2. QED
    BY <1>1, <2>1, PacketFacts DEF Messages
<1>13. QED
  BY <1>7, <1>8, <1>9, <1>10, <1>11, <1>12 DEF Order

(* A packet is marked, that is no stop of a channel that is logged. *)
LEMMA MarkKeepsOrder ==
    ASSUME Control, Order, NEW id, NEW s \in States, pbuf' = Mark(pbuf, id, s),
           \A c \in Channels, q \in {"observe", "remove"} : At(c, q)' <=> At(c, q),
           UNCHANGED <<observed, file, syncDue, session, messages, late, restarted, dropped>>,
           stage' = "free" => stage = "free",
           \A c \in Channels \ restarted, i \in 1..Len(pbuf) :
             Started(c) /\ Stop(i, c) => pbuf[i].id # id
    PROVE  Numbered' /\ Stops' /\ Files' /\ Messages'
<1>1. /\ Len(pbuf') = Len(pbuf)
      /\ \A i \in 1..Len(pbuf) : pbuf'[i].id = pbuf[i].id
      /\ \A i \in 1..Len(pbuf) : pbuf[i].id # id => pbuf'[i].state = pbuf[i].state
  BY PacketFacts, MarkPacket
<1>2. \A c \in Channels : Started(c)' <=> Started(c)
  BY DEF Started
<1>3. \A i \in 1..Len(pbuf) : \A c : Stop(i, c)' <=> Stop(i, c)
  BY <1>1 DEF Stop
<1>4. \A c : Stopping(c)' <=> Stopping(c)
  BY <1>1, <1>3 DEF Stopping
<1>5. Numbered'
  <2>1. ASSUME NEW i \in 1..Len(pbuf), IsStop(pbuf[i].id),
               NEW d \in Channels, d = ChannelOf(pbuf[i].id)
        PROVE  /\ SessionOf(pbuf[i].id) <= session[d]
               /\ SessionOf(pbuf[i].id) = session[d] /\ Started(d)' => At(d, "remove")'
    BY <1>2, <2>1 DEF Order, Numbered
  <2>2. \A i, j \in 1..Len(pbuf) : pbuf[i].id = pbuf[j].id => i = j
    BY DEF Order, Numbered
  <2>3. \A i \in 1..Len(pbuf) : ~IsStop(pbuf[i].id) => pbuf[i].id[4] <= messages[ChannelOf(pbuf[i].id)]
    BY DEF Order, Numbered
  <2>4. QED
    BY <1>1, <2>1, <2>2, <2>3, PacketFacts DEF Numbered
<1>6. Stops'
  <2>1. ASSUME NEW d \in Channels \ restarted, Started(d)'
        PROVE  /\ d \notin dropped
               /\ \A i \in 1..Len(pbuf) : Stop(i, d)' => At(d, "remove")' /\ pbuf'[i].state = "alloc"
    <3>1. Started(d)
      BY <1>2, <2>1
    <3>2. QED
      BY <1>1, <1>3, <3>1 DEF Order, Stops
  <2>2. QED
    BY <1>1, <2>1 DEF Stops
<1>7. Files'
  <2>1. stage = "free" => 1 \in 1..Len(pbuf)
    BY PacketFacts, EmptySeq DEF Order, Busy
  <2>2. ASSUME NEW d \in Channels \ restarted
        PROVE  /\ Started(d)' => file[d] = session[d]
               /\ ~Started(d)' /\ file[d] # 0 => d \in dropped \/ Stopping(d)'
               /\ stage' = "free" /\ Stop(1, d)' => file[d] = 0 /\ ~syncDue[d]
               /\ syncDue[d] /\ (\A x \in late : ChannelOf(x) # d) =>
                    file[d] = session[d] /\ file[d] # 0 /\ ~At(d, "observe")'
    BY <1>2, <1>3, <1>4, <2>1 DEF Order, Files
  <2>3. QED
    BY <2>2 DEF Files
<1>8. Messages'
  <2>1. ASSUME NEW i \in 1..Len(pbuf), ~IsStop(pbuf[i].id), pbuf[i].id \notin late,
               NEW d \in Channels \ restarted, d = ChannelOf(pbuf[i].id)
        PROVE  /\ file[d] = session[d] /\ SessionOf(pbuf[i].id) = session[d]
               /\ \A j \in 1..i : ~Stop(j, d)'
               /\ ~At(d, "observe")'
               /\ observed[d] \/ d \in dropped \/ Stopping(d)'
    <3>1. \A j \in 1..i : j \in 1..Len(pbuf)
      BY PacketFacts
    <3>2. QED
      BY <1>3, <1>4, <2>1, <3>1 DEF Order, Messages
  <2>2. QED
    BY <1>1, <2>1, PacketFacts DEF Messages
<1>9. QED
  BY <1>5, <1>6, <1>7, <1>8

(* Two actors that have a packet to commit have different ones. *)
LEMMA HeldDiffer ==
    ASSUME Control, Order, NEW a \in Actors, NEW b \in Actors, a # b,
           pc[a] \in {"remove", "commit"}, pc[b] \in {"remove", "commit"}
    PROVE  held[a] # held[b]
<1> SUFFICES ASSUME held[a] = held[b] PROVE FALSE
  OBVIOUS
<1>1. chan[a] = chan[b] /\ (a \in Operators <=> b \in Operators)
  BY DEF Order, Held
<1>2. CASE a \in Operators
  BY <1>1, <1>2, ControlTypes
<1>3. CASE a \notin Operators
  BY <1>1, <1>3, ControlParts DEF Actors, Places
<1>4. QED
  BY <1>2, <1>3

(* To commit a packet changes neither its place nor its kind. *)
LEMMA CommitPacketKeepsOrder ==
    ASSUME Control, Order, NEW a \in Actors, CommitPacket(a)
    PROVE  Order'
<1>1. /\ pc[a] = "commit" /\ Goto(a, "submit") /\ pbuf' = Mark(pbuf, held[a], "ready")
      /\ UNCHANGED <<owner, isLogging, file, observed, syncDue, stage, chan, held,
                     session, messages, late, restarted, dropped>>
  BY DEF CommitPacket, channelVars, workVars, ghostVars, Commit
<1>2. /\ \A d \in Channels : \A q : q \notin {"idle", "commit", "submit"} => (At(d, q)' <=> At(d, q))
      /\ \A b \in Actors \ {a} : pc'[b] = pc[b]
      /\ pc'[a] = "submit"
  BY <1>1, ActorMoves
<1> SUFFICES ASSUME NEW id, id = held[a]
             PROVE  Order'
  OBVIOUS
<1>3. /\ Len(pbuf') = Len(pbuf)
      /\ \A i \in 1..Len(pbuf) : /\ pbuf'[i].id = pbuf[i].id
                                 /\ pbuf'[i].state = IF pbuf[i].id = id THEN "ready" ELSE pbuf[i].state
  BY <1>1, PacketFacts, MarkPacket DEF States
<1>4. PICK n \in 1..Len(pbuf) : pbuf[n].id = id /\ pbuf[n].state = "alloc"
  BY <1>1 DEF Order, Held
<1>5. \A i \in 1..Len(pbuf) : pbuf[i].id = id <=> i = n
  BY <1>4 DEF Order, Numbered
<1>6. Busy'
  <2>1. \A i \in 1..Len(pbuf) : pbuf'[i].state = "busy" <=> pbuf[i].state = "busy"
    BY <1>3, <1>4, <1>5
  <2>2. pbuf # <<>> => pbuf' # <<>>
    <3>1. pbuf # <<>> => 1 \in 1..Len(pbuf')
      BY <1>3, PacketFacts, EmptySeq
    <3>2. QED
      BY <3>1
  <2>3. QED
    BY <1>1, <1>3, <2>1, <2>2 DEF Order, Busy
<1>7. Held'
  <2>1. ASSUME NEW b \in Actors, pc'[b] \in {"remove", "commit"}
        PROVE  /\ \E i \in 1..Len(pbuf) : pbuf'[i].id = held[b] /\ pbuf'[i].state = "alloc"
               /\ ChannelOf(held[b]) = chan[b] /\ (IsStop(held[b]) <=> b \in Operators)
    <3>1. b # a /\ pc[b] \in {"remove", "commit"}
      BY <1>2, <2>1
    <3>2. held[b] # id
      BY <1>1, <3>1, HeldDiffer
    <3>3. QED
      BY <1>3, <3>1, <3>2 DEF Order, Held
  <2>2. QED
    BY <1>1, <1>3, <2>1 DEF Held
<1>8. ASSUME NEW c \in Channels \ restarted, NEW i \in 1..Len(pbuf), Started(c), Stop(i, c)
      PROVE  pbuf[i].id # id
  <2> SUFFICES ASSUME pbuf[i].id = id PROVE FALSE
    OBVIOUS
  <2>1. At(c, "remove") /\ ChannelOf(id) = c /\ IsStop(id)
    BY <1>8 DEF Order, Stops, Stop
  <2>2. a \in Operators /\ chan[a] = c
    BY <1>1, <2>1 DEF Order, Held
  <2>3. QED
    BY <1>1, <2>1, <2>2, ControlTypes DEF At
<1>9. Numbered' /\ Stops' /\ Files' /\ Messages'
  BY <1>1, <1>2, <1>8, MarkKeepsOrder DEF States
<1>10. QED
  BY <1>6, <1>7, <1>9 DEF Order

(* The work claims the oldest packet, which nobody overwrites from then on. *)
LEMMA WorkClaimKeepsOrder ==
    ASSUME Control, Order, WorkClaim, CanClaim(pbuf)
    PROVE  Order'
<1>1. /\ stage = "claim" /\ stage' = "handle" /\ pbuf' = Mark(pbuf, ClaimedId(pbuf), "busy")
      /\ UNCHANGED <<pc, file, observed, syncDue, chan, held,
                     session, messages, late, restarted, dropped>>
  BY DEF WorkClaim, Claim, channelVars, actorVars, ghostVars
<1>2. \A d \in Channels : \A q : At(d, q)' <=> At(d, q)
  BY <1>1 DEF At
<1>3. 1 \in 1..Len(pbuf) /\ pbuf # <<>> /\ pbuf[1].state = "ready" /\ ClaimedId(pbuf) = pbuf[1].id
  <2>1. pbuf # <<>>
    BY DEF CanClaim, NextToClaim
  <2>2. 1 \in 1..Len(pbuf)
    BY <2>1, PacketFacts, EmptySeq
  <2>3. pbuf[1].state # "busy"
    BY <1>1, <2>2 DEF Order, Busy
  <2>4. QED
    BY <2>1, <2>2, <2>3 DEF CanClaim, NextToClaim, ClaimedId
<1> SUFFICES ASSUME NEW id, id = pbuf[1].id
             PROVE  Order'
  OBVIOUS
<1>4. /\ Len(pbuf') = Len(pbuf)
      /\ \A i \in 1..Len(pbuf) : /\ pbuf'[i].id = pbuf[i].id
                                 /\ pbuf'[i].state = IF pbuf[i].id = id THEN "busy" ELSE pbuf[i].state
  <2>1. pbuf' = Mark(pbuf, id, "busy") /\ "busy" \in States
    BY <1>1, <1>3 DEF States
  <2>2. QED
    BY <2>1, PacketFacts, MarkPacket
<1>5. \A i \in 1..Len(pbuf) : pbuf[i].id = id <=> i = 1
  BY <1>3 DEF Order, Numbered
<1>6. Busy'
  <2>1. \A i \in 1..Len(pbuf) : pbuf'[i].state = "busy" <=> i = 1
    BY <1>1, <1>4, <1>5 DEF Order, Busy
  <2>2. pbuf' # <<>>
    BY <1>3, <1>4
  <2>3. QED
    BY <1>1, <1>4, <2>1, <2>2 DEF Busy
<1>7. Held'
  <2>1. ASSUME NEW b \in Actors, pc[b] \in {"remove", "commit"}
        PROVE  \E i \in 1..Len(pbuf) : pbuf'[i].id = held[b] /\ pbuf'[i].state = "alloc"
    <3>1. PICK i \in 1..Len(pbuf) : pbuf[i].id = held[b] /\ pbuf[i].state = "alloc"
      BY <2>1 DEF Order, Held
    <3>2. QED
      BY <1>3, <1>4, <1>5, <3>1
  <2>2. QED
    BY <1>1, <1>4, <2>1 DEF Order, Held
<1>8. \A c \in Channels \ restarted, i \in 1..Len(pbuf) : Started(c) /\ Stop(i, c) => pbuf[i].id # id
  BY <1>3, <1>5 DEF Order, Stops
<1>9. Numbered' /\ Stops' /\ Files' /\ Messages'
  BY <1>1, <1>2, <1>3, <1>8, MarkKeepsOrder DEF States
<1>10. QED
  BY <1>6, <1>7, <1>9 DEF Order

(* The packet that was handled is freed. *)
LEMMA WorkFreeKeepsOrder ==
    ASSUME Control, Order, WorkFree
    PROVE  Order'
<1>1. /\ stage = "free" /\ stage' = "return" /\ pbuf' = Free(pbuf)
      /\ UNCHANGED <<pc, file, observed, syncDue, chan, held,
                     session, messages, late, restarted, dropped>>
  BY DEF WorkFree, channelVars, actorVars, ghostVars
<1>2. \A d \in Channels : \A q : At(d, q)' <=> At(d, q)
  BY <1>1 DEF At
<1>3. \A d \in Channels : Started(d)' <=> Started(d)
  BY <1>1, <1>2 DEF Started
<1>4. /\ pbuf # <<>> /\ 1 \in 1..Len(pbuf) /\ pbuf[1].state = "busy"
      /\ Len(pbuf') = Len(pbuf) - 1 /\ Len(pbuf) \in Nat
      /\ \A i \in 1..Len(pbuf') : i + 1 \in 1..Len(pbuf) /\ pbuf'[i] = pbuf[i + 1]
  <2>1. pbuf # <<>>
    BY <1>1 DEF Order, Busy
  <2>2. 1 \in 1..Len(pbuf)
    BY <2>1, PacketFacts, EmptySeq
  <2>3. /\ Len(pbuf') = Len(pbuf) - 1 /\ Len(pbuf) \in Nat
        /\ \A i \in 1..Len(pbuf') : i + 1 \in 1..Len(pbuf) /\ pbuf'[i] = pbuf[i + 1]
    BY <1>1, <2>1, PacketFacts, Freed DEF Left, From
  <2>4. QED
    BY <1>1, <2>1, <2>2, <2>3 DEF Order, Busy
<1>5. \A d : \A i \in 1..Len(pbuf') : Stop(i, d)' <=> Stop(i + 1, d)
  BY <1>4 DEF Stop
<1>6. \A d : Stopping(d) => Stopping(d)' \/ Stop(1, d)
  <2> SUFFICES ASSUME NEW d, Stopping(d), ~Stop(1, d) PROVE Stopping(d)'
    OBVIOUS
  <2>1. PICK j \in 1..Len(pbuf) : Stop(j, d)
    BY DEF Stopping
  <2>2. j - 1 \in 1..Len(pbuf') /\ (j - 1) + 1 = j
    BY <1>4, <2>1
  <2>3. Stop(j - 1, d)'
    BY <1>4, <2>1, <2>2 DEF Stop
  <2>4. QED
    BY <2>2, <2>3 DEF Stopping
<1>7. Busy'
  <2>1. \A i \in 1..Len(pbuf') : pbuf'[i].state # "busy"
    BY <1>4 DEF Order, Busy
  <2>2. QED
    BY <1>1, <2>1 DEF Busy
<1>8. Held'
  <2>1. ASSUME NEW b \in Actors, pc[b] \in {"remove", "commit"}
        PROVE  \E i \in 1..Len(pbuf') : pbuf'[i].id = held[b] /\ pbuf'[i].state = "alloc"
    <3>1. PICK j \in 1..Len(pbuf) : pbuf[j].id = held[b] /\ pbuf[j].state = "alloc"
      BY <2>1 DEF Order, Held
    <3>2. j - 1 \in 1..Len(pbuf') /\ (j - 1) + 1 = j
      BY <1>4, <3>1
    <3>3. pbuf'[j - 1] = pbuf[j]
      BY <1>4, <3>2
    <3>4. QED
      BY <3>1, <3>2, <3>3
  <2>2. QED
    BY <1>1, <2>1 DEF Order, Held
<1>9. Numbered'
  <2>1. ASSUME NEW i \in 1..Len(pbuf'), NEW j \in 1..Len(pbuf'), pbuf'[i].id = pbuf'[j].id
        PROVE  i = j
    <3>1. i + 1 = j + 1
      BY <1>4, <2>1 DEF Order, Numbered
    <3>2. QED
      BY <1>4, <3>1
  <2>2. ASSUME NEW i \in 1..Len(pbuf'), NEW d \in Channels, d = ChannelOf(pbuf'[i].id)
        PROVE  /\ IsStop(pbuf'[i].id) =>
                    /\ SessionOf(pbuf'[i].id) <= session[d]
                    /\ SessionOf(pbuf'[i].id) = session[d] /\ Started(d)' => At(d, "remove")'
               /\ ~IsStop(pbuf'[i].id) => pbuf'[i].id[4] <= messages[d]
    BY <1>2, <1>3, <1>4, <2>2 DEF Order, Numbered
  <2>3. \A i \in 1..Len(pbuf') : ChannelOf(pbuf'[i].id) \in Channels
    BY <1>4, PacketFacts
  <2>4. QED
    BY <1>1, <2>1, <2>2, <2>3 DEF Numbered
<1>10. Stops'
  <2>1. ASSUME NEW d \in Channels \ restarted, Started(d)'
        PROVE  /\ d \notin dropped
               /\ \A i \in 1..Len(pbuf') : Stop(i, d)' => At(d, "remove")' /\ pbuf'[i].state = "alloc"
    BY <1>2, <1>3, <1>4, <1>5, <2>1 DEF Order, Stops
  <2>2. QED
    BY <1>1, <2>1 DEF Stops
<1>11. Files'
  <2>1. ASSUME NEW d \in Channels \ restarted
        PROVE  /\ Started(d)' => file[d] = session[d]
               /\ ~Started(d)' /\ file[d] # 0 => d \in dropped \/ Stopping(d)'
               /\ syncDue[d] /\ (\A id \in late : ChannelOf(id) # d) =>
                    file[d] = session[d] /\ file[d] # 0 /\ ~At(d, "observe")'
    <3>1. Stop(1, d) => file[d] = 0
      BY <1>1 DEF Order, Files
    <3>2. QED
      BY <1>2, <1>3, <1>6, <3>1 DEF Order, Files
  <2>2. QED
    BY <1>1, <2>1 DEF Files
<1>12. Messages'
  <2>1. ASSUME NEW i \in 1..Len(pbuf'), ~IsStop(pbuf'[i].id), pbuf'[i].id \notin late,
               NEW d \in Channels \ restarted, d = ChannelOf(pbuf'[i].id)
        PROVE  /\ file[d] = session[d] /\ SessionOf(pbuf'[i].id) = session[d]
               /\ \A j \in 1..i : ~Stop(j, d)'
               /\ ~At(d, "observe")'
               /\ observed[d] \/ d \in dropped \/ Stopping(d)'
    <3>1. i + 1 \in 1..Len(pbuf) /\ pbuf'[i] = pbuf[i + 1]
      BY <1>4
    <3>2. /\ file[d] = session[d] /\ SessionOf(pbuf'[i].id) = session[d]
          /\ \A j \in 1..(i + 1) : ~Stop(j, d)
          /\ ~At(d, "observe")
          /\ observed[d] \/ d \in dropped \/ Stopping(d)
      BY <2>1, <3>1 DEF Order, Messages
    <3>3. ~Stop(1, d)
      BY <3>2
    <3>4. \A j \in 1..i : j \in 1..Len(pbuf') /\ j + 1 \in 1..(i + 1)
      BY <1>4
    <3>5. \A j \in 1..i : ~Stop(j, d)'
      BY <1>5, <3>2, <3>4
    <3>6. QED
      BY <1>2, <1>6, <3>2, <3>3, <3>5
  <2>2. \A i \in 1..Len(pbuf') : ChannelOf(pbuf'[i].id) \in Channels
    BY <1>4, PacketFacts
  <2>3. QED
    BY <1>1, <2>1, <2>2 DEF Messages
<1>13. QED
  BY <1>7, <1>8, <1>9, <1>10, <1>11, <1>12 DEF Order

(* A packet of channel c is allocated: a stop packet of the session that is *)
(* being stopped, or a message of the session that the channel is in.       *)
LEMMA AllocKeepsOrder ==
    ASSUME Control, Order, NEW a \in Actors, NEW c \in Channels, NEW id \in Ids,
           CanOverwrite(pbuf, Capacity), PacketAlloc(a, id), c = ChannelOf(id), chan[a] = c,
           UNCHANGED <<observed, file, syncDue, session, restarted, stage, chan>>,
           late \subseteq late',
           \A d \in Channels : messages[d] <= messages'[d] /\ messages'[d] \in Nat,
           \A d \in Channels : At(d, "observe")' <=> At(d, "observe"),
           \A d \in Channels : At(d, "remove") => At(d, "remove")',
           \A b \in Actors \ {a} : pc'[b] = pc[b],
           pc[a] \notin {"remove", "commit"},
           IsStop(id) <=> a \in Operators,
           SessionOf(id) = session[c],
           \A i \in 1..Len(pbuf) : pbuf[i].id # id,
           IsStop(id) => At(c, "remove")',
           ~IsStop(id) => /\ id[4] <= messages'[c] /\ observed[c] /\ ~At(c, "observe")
                          /\ id \notin late' => ~At(c, "remove")
    PROVE  Order'
<1>1. pbuf \in Seq(Packets) /\ Len(pbuf) <= Capacity /\ Len(pbuf) \in Nat
  BY ControlParts, PacketFacts DEF TypeOK
<1>2. PICK n \in 0..Len(pbuf) :
        /\ Len(pbuf') = Left(pbuf, n) + 1
        /\ pbuf'[Len(pbuf')] = Packet(id)
        /\ \A i \in 1..Left(pbuf, n) : pbuf'[i] = pbuf[From(i, n)]
        /\ n # 0 => pbuf[n].state = "ready" /\ Overwritten(pbuf, Capacity) = {pbuf[n].id}
        /\ n = 0 => Overwritten(pbuf, Capacity) = {}
  BY <1>1, Allocated DEF PacketAlloc
<1> SUFFICES ASSUME NEW k \in Nat, k = Left(pbuf, n),
                    \A i \in 1..k : From(i, n) \in 1..Len(pbuf) /\ From(i, n) # n,
                    \A i, j \in 1..k : From(i, n) = From(j, n) => i = j,
                    \A i, j \in 1..k : i <= j => From(i, n) <= From(j, n),
                    \A j \in 1..Len(pbuf) \ {n} : \E i \in 1..k : From(i, n) = j
             PROVE  Order'
  BY <1>1, FromKeepsOrder
<1>3. /\ Len(pbuf') = k + 1
      /\ pbuf'[k + 1].id = id /\ pbuf'[k + 1].state = "alloc"
      /\ \A i \in 1..k : pbuf'[i] = pbuf[From(i, n)]
      /\ \A i \in 1..Len(pbuf') : i \in 1..k \/ i = k + 1
      /\ \A i \in 1..k : i \in 1..Len(pbuf')
      /\ k + 1 \in 1..Len(pbuf')
  BY <1>2 DEF Packet
<1>4. \A d : d \in dropped' <=> d \in dropped \/ (n # 0 /\ Stop(n, d))
  <2>1. CASE n = 0
    BY <1>2, <2>1 DEF PacketAlloc
  <2>2. CASE n # 0
    <3>1. dropped' = dropped \cup {ChannelOf(x) : x \in {y \in {pbuf[n].id} : IsStop(y)}}
      BY <1>2, <2>2 DEF PacketAlloc
    <3>2. QED
      BY <2>2, <3>1 DEF Stop
  <2>3. QED
    BY <2>1, <2>2
<1>5. /\ \A d : \A i \in 1..k : Stop(i, d)' <=> Stop(From(i, n), d)
      /\ \A d : Stop(k + 1, d)' <=> IsStop(id) /\ d = c
  BY <1>3 DEF Stop
<1>6. \A d : Stopping(d) => Stopping(d)' \/ d \in dropped'
  <2> SUFFICES ASSUME NEW d, Stopping(d), d \notin dropped' PROVE Stopping(d)'
    OBVIOUS
  <2>1. PICK j \in 1..Len(pbuf) : Stop(j, d)
    BY DEF Stopping
  <2>2. j # n
    BY <1>4, <2>1
  <2>3. PICK i \in 1..k : From(i, n) = j
    BY <2>2
  <2>4. Stop(i, d)' /\ i \in 1..Len(pbuf')
    BY <1>3, <1>5, <2>1, <2>3
  <2>5. QED
    BY <2>4 DEF Stopping
<1>7. \A d \in Channels : Started(d)' <=> Started(d)
  BY DEF Started
<1>8. stage \in {"handle", "free"} =>
        /\ 1 \in 1..k /\ From(1, n) = 1
        /\ \A i \in 1..k : From(i, n) = 1 => i = 1
  <2> SUFFICES ASSUME stage \in {"handle", "free"}
               PROVE  /\ 1 \in 1..k /\ From(1, n) = 1
                      /\ \A i \in 1..k : From(i, n) = 1 => i = 1
    OBVIOUS
  <2>1. 1 \in 1..Len(pbuf)
    BY <1>1, EmptySeq DEF Order, Busy
  <2>2. pbuf[1].state = "busy"
    BY <2>1 DEF Order, Busy
  <2>3. n # 1
    BY <1>2, <2>2
  <2>4. PICK i \in 1..k : From(i, n) = 1
    BY <2>1, <2>3
  <2>5. i = 1
    BY <2>3, <2>4 DEF From
  <2>6. QED
    BY <2>4, <2>5
<1>9. Busy'
  <2>1. ASSUME NEW i \in 1..k
        PROVE  pbuf'[i].state = "busy" <=> i = 1 /\ stage \in {"handle", "free"}
    <3>1. pbuf'[i].state = "busy" <=> From(i, n) = 1 /\ stage \in {"handle", "free"}
      BY <1>3 DEF Order, Busy
    <3>2. QED
      BY <1>8, <3>1
  <2>2. stage \in {"handle", "free"} => k + 1 # 1
    BY <1>8
  <2>3. pbuf' # <<>>
    BY <1>3
  <2>4. \A i \in 1..Len(pbuf') : pbuf'[i].state = "busy" <=> i = 1 /\ stage \in {"handle", "free"}
    BY <1>3, <2>1, <2>2
  <2>5. QED
    BY <2>3, <2>4 DEF Busy
<1>10. Held'
  <2>1. held'[a] = id /\ \A b \in Actors \ {a} : held'[b] = held[b]
    BY ControlParts DEF PacketAlloc, TypeOK
  <2>2. ASSUME NEW b \in Actors \ {a}, pc[b] \in {"remove", "commit"}
        PROVE  \E i \in 1..Len(pbuf') : pbuf'[i].id = held[b] /\ pbuf'[i].state = "alloc"
    <3>1. PICK j \in 1..Len(pbuf) : pbuf[j].id = held[b] /\ pbuf[j].state = "alloc"
      BY <2>2 DEF Order, Held
    <3>2. j # n
      BY <1>2, <3>1
    <3>3. PICK i \in 1..k : From(i, n) = j
      BY <3>2
    <3>4. QED
      BY <1>3, <3>1, <3>3
  <2>3. ASSUME NEW b \in Actors, pc'[b] \in {"remove", "commit"}
        PROVE  /\ \E i \in 1..Len(pbuf') : pbuf'[i].id = held'[b] /\ pbuf'[i].state = "alloc"
               /\ ChannelOf(held'[b]) = chan[b] /\ (IsStop(held'[b]) <=> b \in Operators)
    <3>1. CASE b = a
      BY <1>3, <2>1, <3>1
    <3>2. CASE b # a
      BY <2>1, <2>2, <2>3, <3>2 DEF Order, Held
    <3>3. QED
      BY <3>1, <3>2
  <2>4. QED
    BY <2>3 DEF Held
<1>11. ASSUME NEW i \in 1..k
       PROVE  ChannelOf(pbuf'[i].id) \in Channels /\ pbuf'[i].id # id
  <2>1. From(i, n) \in 1..Len(pbuf) /\ pbuf'[i] = pbuf[From(i, n)]
    BY <1>3
  <2>2. QED
    BY <2>1, PacketFacts
<1>12. Numbered'
  <2>1. ASSUME NEW i \in 1..Len(pbuf'), NEW j \in 1..Len(pbuf'), pbuf'[i].id = pbuf'[j].id
        PROVE  i = j
    <3>1. CASE i \in 1..k /\ j \in 1..k
      <4>1. /\ From(i, n) \in 1..Len(pbuf) /\ pbuf'[i] = pbuf[From(i, n)]
            /\ From(j, n) \in 1..Len(pbuf) /\ pbuf'[j] = pbuf[From(j, n)]
        BY <1>3, <3>1
      <4>2. pbuf[From(i, n)].id = pbuf[From(j, n)].id
        BY <2>1, <4>1
      <4>3. From(i, n) = From(j, n)
        BY <4>1, <4>2 DEF Order, Numbered
      <4>4. QED
        BY <3>1, <4>3
    <3>2. CASE i = k + 1 \/ j = k + 1
      BY <1>3, <1>11, <2>1, <3>2
    <3>3. QED
      BY <1>3, <3>1, <3>2
  <2>2. ASSUME NEW i \in 1..Len(pbuf'), NEW d \in Channels, d = ChannelOf(pbuf'[i].id)
        PROVE  /\ IsStop(pbuf'[i].id) =>
                    /\ SessionOf(pbuf'[i].id) <= session[d]
                    /\ SessionOf(pbuf'[i].id) = session[d] /\ Started(d)' => At(d, "remove")'
               /\ ~IsStop(pbuf'[i].id) => pbuf'[i].id[4] <= messages'[d]
    <3>1. CASE i \in 1..k
      <4>1. /\ IsStop(pbuf'[i].id) =>
                 /\ SessionOf(pbuf'[i].id) <= session[d]
                 /\ SessionOf(pbuf'[i].id) = session[d] /\ Started(d) => At(d, "remove")
            /\ ~IsStop(pbuf'[i].id) => pbuf'[i].id[4] <= messages[d]
        BY <1>3, <2>2, <3>1 DEF Order, Numbered
      <4>2. pbuf'[i].id[4] \in Nat /\ messages[d] \in Nat
        BY <1>3, <3>1, PacketFacts
      <4>3. QED
        BY <1>7, <4>1, <4>2
    <3>2. CASE i = k + 1
      BY <1>3, <2>2, <3>2, PacketFacts
    <3>3. QED
      BY <1>3, <3>1, <3>2
  <2>3. \A i \in 1..Len(pbuf') : ChannelOf(pbuf'[i].id) \in Channels
    BY <1>3, <1>11
  <2>4. QED
    BY <2>1, <2>2, <2>3 DEF Numbered
<1>13. Stops'
  <2>1. ASSUME NEW d \in Channels \ restarted, Started(d)'
        PROVE  /\ d \notin dropped'
               /\ \A i \in 1..Len(pbuf') : Stop(i, d)' => At(d, "remove")' /\ pbuf'[i].state = "alloc"
    <3>1. /\ d \notin dropped
          /\ \A i \in 1..Len(pbuf) : Stop(i, d) => At(d, "remove") /\ pbuf[i].state = "alloc"
      BY <1>7, <2>1 DEF Order, Stops
    <3>2. d \notin dropped'
      BY <1>2, <1>4, <3>1
    <3>3. \A i \in 1..k : Stop(i, d)' => At(d, "remove")' /\ pbuf'[i].state = "alloc"
      BY <1>3, <1>5, <3>1
    <3>4. Stop(k + 1, d)' => At(d, "remove")' /\ pbuf'[k + 1].state = "alloc"
      BY <1>3, <1>5
    <3>5. QED
      BY <1>3, <3>2, <3>3, <3>4
  <2>2. QED
    BY <2>1 DEF Stops
<1>14. Files'
  <2>1. ASSUME NEW d \in Channels \ restarted
        PROVE  /\ Started(d)' => file[d] = session[d]
               /\ ~Started(d)' /\ file[d] # 0 => d \in dropped' \/ Stopping(d)'
               /\ stage = "free" /\ Stop(1, d)' => file[d] = 0 /\ ~syncDue[d]
               /\ syncDue[d] /\ (\A x \in late' : ChannelOf(x) # d) =>
                    file[d] = session[d] /\ file[d] # 0 /\ ~At(d, "observe")'
    <3>1. stage = "free" /\ Stop(1, d)' => file[d] = 0 /\ ~syncDue[d]
      BY <1>5, <1>8 DEF Order, Files
    <3>2. ~Started(d)' /\ file[d] # 0 => d \in dropped' \/ Stopping(d)'
      BY <1>4, <1>6, <1>7 DEF Order, Files
    <3>3. Started(d)' => file[d] = session[d]
      BY <1>7 DEF Order, Files
    <3>4. syncDue[d] /\ (\A x \in late' : ChannelOf(x) # d) =>
            file[d] = session[d] /\ file[d] # 0 /\ ~At(d, "observe")'
      BY DEF Order, Files
    <3>5. QED
      BY <3>1, <3>2, <3>3, <3>4
  <2>2. QED
    BY <2>1 DEF Files
<1>15. Messages'
  <2>1. ASSUME NEW i \in 1..Len(pbuf'), ~IsStop(pbuf'[i].id), pbuf'[i].id \notin late',
               NEW d \in Channels \ restarted, d = ChannelOf(pbuf'[i].id)
        PROVE  /\ file[d] = session[d] /\ SessionOf(pbuf'[i].id) = session[d]
               /\ \A j \in 1..i : ~Stop(j, d)'
               /\ ~At(d, "observe")'
               /\ observed[d] \/ d \in dropped' \/ Stopping(d)'
    <3>1. CASE i \in 1..k
      <4>1. pbuf'[i].id \notin late
        BY <2>1
      <4>2. /\ file[d] = session[d] /\ SessionOf(pbuf'[i].id) = session[d]
            /\ \A j \in 1..From(i, n) : ~Stop(j, d)
            /\ ~At(d, "observe")
            /\ observed[d] \/ d \in dropped \/ Stopping(d)
        BY <1>3, <2>1, <3>1, <4>1 DEF Order, Messages
      <4>3. \A j \in 1..i : j \in 1..k /\ From(j, n) \in 1..From(i, n)
        BY <3>1
      <4>4. \A j \in 1..i : ~Stop(j, d)'
        BY <1>5, <4>2, <4>3
      <4>5. QED
        BY <1>4, <1>6, <4>2, <4>4
    <3>2. CASE i = k + 1
      <4>1. /\ d = c /\ ~IsStop(id) /\ observed[c] /\ ~At(c, "observe") /\ ~At(c, "remove")
            /\ SessionOf(pbuf'[i].id) = session[d]
        BY <1>3, <2>1, <3>2
      <4>2. Started(d)
        BY <4>1 DEF Started
      <4>3. file[d] = session[d] /\ \A j \in 1..Len(pbuf) : ~Stop(j, d)
        BY <4>1, <4>2 DEF Order, Files, Stops
      <4>4. \A j \in 1..i : j \in 1..k \/ j = k + 1
        BY <3>2
      <4>5. \A j \in 1..i : ~Stop(j, d)'
        BY <1>5, <4>1, <4>3, <4>4
      <4>6. QED
        BY <4>1, <4>3, <4>5
    <3>3. QED
      BY <1>3, <3>1, <3>2
  <2>2. \A i \in 1..Len(pbuf') : ChannelOf(pbuf'[i].id) \in Channels
    BY <1>3, <1>11
  <2>3. QED
    BY <2>1, <2>2 DEF Messages
<1>16. QED
  BY <1>9, <1>10, <1>12, <1>13, <1>14, <1>15 DEF Order

(* The packet of a stop comes after all messages of its session. *)
LEMMA StopAllocKeepsOrder ==
    ASSUME Control, Order, NEW o \in Operators, StopAlloc(o), CanOverwrite(pbuf, Capacity)
    PROVE  Order'
<1> SUFFICES ASSUME NEW c \in Channels, c = chan[o]
             PROVE  Order'
  BY ControlTypes
<1> DEFINE id == <<c, "stop", session[c], 0>>
<1>1. /\ pc[o] = "alloc" /\ At(c, "alloc") /\ owner[c] = o
      /\ PacketAlloc(o, id) /\ Goto(o, "remove")
      /\ UNCHANGED <<owner, observed, file, syncDue, session, messages, late, restarted, stage, chan>>
  BY ControlTypes DEF StopAlloc, workVars
<1>2. /\ \A q : q # "idle" => (At(c, q)' <=> q = "remove")
      /\ \A q : q # "idle" => (At(c, q) <=> q = "alloc")
      /\ \A d \in Channels \ {c} : \A q : q # "idle" => (At(d, q)' <=> At(d, q))
  BY <1>1, ControlParts, OperatorMoves
<1>3. observed[c] /\ session[c] \in 1..MaxSessions
  <2>1. observed[c] /\ session[c] > 0
    BY <1>1, ControlParts DEF Phases, Started
  <2>2. session[c] \in 0..MaxSessions
    BY ControlParts DEF TypeOK
  <2>3. QED
    BY <2>1, <2>2, ControlTypes
<1>4. /\ id \in Ids /\ o \in Actors
      /\ ChannelOf(id) = c /\ IsStop(id) /\ SessionOf(id) = session[c]
  BY <1>3, ControlTypes DEF Ids, StopIds, ChannelOf, IsStop, SessionOf
<1>5. \A i \in 1..Len(pbuf) : pbuf[i].id # id
  <2> SUFFICES ASSUME NEW i \in 1..Len(pbuf), pbuf[i].id = id PROVE FALSE
    OBVIOUS
  <2> HIDE DEF id
  <2>1. At(c, "remove")
    BY <1>3, <1>4 DEF Order, Numbered, Started
  <2>2. QED
    BY <1>2, <2>1
<1>6. \A b \in Actors \ {o} : pc'[b] = pc[b]
  BY <1>1, ControlParts DEF Goto, ActorTypes
<1>7. /\ \A d \in Channels : At(d, "observe")' <=> At(d, "observe")
      /\ \A d \in Channels : At(d, "remove") => At(d, "remove")'
      /\ At(c, "remove")'
  BY <1>2
<1>8. \A d \in Channels : messages[d] <= messages'[d] /\ messages'[d] \in Nat
  BY <1>1, PacketFacts
<1> HIDE DEF id
<1>9. QED
  BY <1>1, <1>4, <1>5, <1>6, <1>7, <1>8, AllocKeepsOrder

(* The packet of a message comes after those that are there already. *)
LEMMA PublishKeepsOrder ==
    ASSUME Control, Order, NEW c \in Channels, Publish(c), CanOverwrite(pbuf, Capacity)
    PROVE  Order'
<1> DEFINE id == <<c, "data", session[c], messages[c] + 1>>
<1>1. /\ pc[c] = "idle" /\ observed[c] /\ messages[c] < MaxMessages
      /\ messages' = [messages EXCEPT ![c] = @ + 1]
      /\ PacketAlloc(c, id) /\ Goto(c, "commit")
      /\ late' = IF \E o \in Operators : pc[o] = "remove" /\ chan[o] = c THEN late \cup {id} ELSE late
      /\ UNCHANGED <<owner, observed, file, syncDue, session, restarted, stage, chan>>
  BY DEF Publish, channelVars, workVars
<1>2. \A b \in Actors \ {c} : pc'[b] = pc[b]
  BY <1>1, ControlParts DEF Goto, ActorTypes
<1>3. \A d \in Channels : \A q : At(d, q)' <=> At(d, q)
  <2>1. \A o \in Operators : pc'[o] = pc[o]
    BY <1>2, ControlTypes
  <2>2. QED
    BY <1>1, <2>1 DEF At
<1>4. messages[c] + 1 \in 1..MaxMessages /\ session[c] \in 1..MaxSessions
  <2>1. session[c] > 0
    BY <1>1, ControlParts DEF Phases, Started
  <2>2. session[c] \in 0..MaxSessions /\ messages[c] \in 0..MaxMessages
    BY ControlParts DEF TypeOK
  <2>3. QED
    BY <1>1, <2>1, <2>2, ControlTypes
<1>5. /\ id \in Ids /\ c \in Actors /\ c \notin Operators
      /\ ChannelOf(id) = c /\ ~IsStop(id) /\ SessionOf(id) = session[c] /\ id[4] = messages[c] + 1
  <2>1. id \in DataIds
    BY <1>4 DEF DataIds
  <2>2. QED
    BY <2>1, ControlTypes DEF Ids, ChannelOf, IsStop, SessionOf
<1> HIDE DEF id
<1>6. \A d \in Channels : messages[d] <= messages'[d] /\ messages'[d] \in Nat
  BY <1>1, PacketFacts
<1>7. messages'[c] = messages[c] + 1 /\ messages[c] \in Nat
  BY <1>1, PacketFacts
<1>8. \A i \in 1..Len(pbuf) : pbuf[i].id # id
  <2> SUFFICES ASSUME NEW i \in 1..Len(pbuf), pbuf[i].id = id PROVE FALSE
    OBVIOUS
  <2>1. id[4] <= messages[c]
    BY <1>5 DEF Order, Numbered
  <2>2. QED
    BY <1>5, <1>7, <2>1
<1>9. ~At(c, "observe")
  BY <1>1, ControlParts DEF Phases
<1>10. late \subseteq late' /\ (id \notin late' => ~At(c, "remove"))
  BY <1>1 DEF At
<1>11. chan[c] = c
  BY ControlParts DEF Places
<1>12. /\ \A d \in Channels : At(d, "observe")' <=> At(d, "observe")
       /\ \A d \in Channels : At(d, "remove") => At(d, "remove")'
  BY <1>3
<1>13. id[4] <= messages'[c]
  BY <1>5, <1>7
<1>14. QED
  BY <1>1, <1>2, <1>5, <1>6, <1>8, <1>9, <1>10, <1>11, <1>12, <1>13, AllocKeepsOrder

-----------------------------------------------------------------------------
(* The work is on its way while a packet can be claimed. *)

(* The steps that neither complete a packet nor use the work. *)
LEMMA OthersKeepLooked ==
    ASSUME Control, Looked, UNCHANGED <<queued, stage, missed>>,
           CanClaim(pbuf)' => CanClaim(pbuf),
           \A a \in Actors : pc[a] = "submit" => pc'[a] = "submit"
    PROVE  Looked'
BY DEF Looked

(* A packet to be claimed is in the buffer. *)
LEMMA ClaimedCounts ==
    ASSUME NEW b \in Seq(Packets), CanClaim(b)
    PROVE  CountIn(b, {"ready"}) # {}
<1>1. b # <<>> /\ Len(b) \in Nat
  BY DEF CanClaim, NextToClaim
<1>2. Len(b) > 0
  BY <1>1, EmptySeq
<1>3. NextToClaim(b) \in 1..Len(b) /\ b[NextToClaim(b)].state = "ready"
  BY <1>1, <1>2 DEF CanClaim, NextToClaim
<1>4. QED
  BY <1>3 DEF CountIn

(* Every step keeps what the actor has looked at. *)
LEMMA StepKeepsLooked ==
    ASSUME Control, Control', Order, Looked, [Next]_vars
    PROVE  Looked'
<1>1. ASSUME NEW o \in Operators, NEW place \in {"open", "observe", "mark", "alloc", "remove", "commit", "idle"},
             Goto(o, place), pc[o] # "submit"
      PROVE  \A a \in Actors : pc[a] = "submit" => pc'[a] = "submit"
  BY <1>1, ControlParts DEF Goto, ActorTypes
<1>2. ASSUME NEW a \in Actors, NEW id \in Ids, CanOverwrite(pbuf, Capacity), PacketAlloc(a, id)
      PROVE  CanClaim(pbuf)' => CanClaim(pbuf)
  <2>1. pbuf \in Seq(Packets) /\ Len(pbuf) <= Capacity
    BY ControlParts, PacketFacts DEF TypeOK
  <2>2. QED
    BY <1>2, <2>1, Allocated DEF PacketAlloc
<1>3. ASSUME NEW o \in Operators, Operator(o)
      PROVE  Looked'
  <2>1. CASE ~StopAlloc(o)
    <3>1. /\ UNCHANGED <<queued, stage, missed, pbuf>> /\ pc[o] # "submit"
          /\ \E place \in {"open", "observe", "mark", "alloc", "commit", "idle"} : Goto(o, place)
      BY <1>3, <2>1 DEF Operator, StartEnter, StartOpen, StartObserve, StartReturn, StopEnter,
         StopRemove, StartFailed, workVars, ghostVars
    <3>2. QED
      BY <1>1, <3>1, OthersKeepLooked
  <2>2. CASE StopAlloc(o)
    <3>1. /\ UNCHANGED <<queued, stage, missed>> /\ pc[o] = "alloc"
          /\ Goto(o, "remove") \/ Goto(o, "idle")
      BY <2>2 DEF StopAlloc, workVars
    <3>2. CanClaim(pbuf)' => CanClaim(pbuf)
      <4>1. CASE ~CanOverwrite(pbuf, Capacity)
        BY <2>2, <4>1 DEF StopAlloc
      <4>2. CASE CanOverwrite(pbuf, Capacity)
        <5>1. PacketAlloc(o, <<chan[o], "stop", session[chan[o]], 0>>)
          BY <2>2, <4>2 DEF StopAlloc
        <5>2. chan[o] \in Channels /\ session[chan[o]] > 0 /\ session[chan[o]] \in 0..MaxSessions
          <6>1. chan[o] \in Channels /\ At(chan[o], "alloc")
            BY <3>1, ControlTypes
          <6>2. isLogging[chan[o]] /\ observed[chan[o]]
            BY <6>1, ControlParts DEF Phases
          <6>3. session[chan[o]] > 0
            BY <6>1, <6>2, ControlParts DEF Phases, Started
          <6>4. QED
            BY <6>1, <6>3, ControlParts DEF TypeOK
        <5>3. <<chan[o], "stop", session[chan[o]], 0>> \in Ids /\ o \in Actors
          BY <5>2, ControlTypes DEF Ids, StopIds
        <5>4. QED
          BY <1>2, <4>2, <5>1, <5>3
      <4>3. QED
        BY <4>1, <4>2
    <3>3. QED
      BY <1>1, <3>1, <3>2, OthersKeepLooked
  <2>3. QED
    BY <2>1, <2>2
<1>4. ASSUME NEW c \in Channels, Publish(c)
      PROVE  Looked'
  <2>1. /\ UNCHANGED <<queued, stage, missed>>
        /\ \A a \in Actors : pc[a] = "submit" => pc'[a] = "submit"
    BY <1>4, ControlParts DEF Publish, workVars, Goto, ActorTypes
  <2>2. CanClaim(pbuf)' => CanClaim(pbuf)
    <3>1. CASE ~CanOverwrite(pbuf, Capacity)
      BY <1>4, <3>1 DEF Publish
    <3>2. CASE CanOverwrite(pbuf, Capacity)
      <4>1. PacketAlloc(c, <<c, "data", session[c], messages[c] + 1>>)
        BY <1>4, <3>2 DEF Publish
      <4>2. /\ session[c] > 0 /\ session[c] \in 0..MaxSessions
            /\ messages[c] < MaxMessages /\ messages[c] \in 0..MaxMessages
        BY <1>4, ControlTypes, ControlParts DEF TypeOK, Phases, Started, Publish
      <4>3. <<c, "data", session[c], messages[c] + 1>> \in DataIds
        BY <4>2, ControlTypes DEF DataIds
      <4>4. QED
        BY <1>2, <3>2, <4>1, <4>3, ControlTypes DEF Ids
    <3>3. QED
      BY <3>1, <3>2
  <2>3. QED
    BY <2>1, <2>2, OthersKeepLooked
<1>5. ASSUME NEW a \in Actors, CommitPacket(a)
      PROVE  Looked'
  <2>1. pc'[a] = "submit"
    BY <1>5, ControlParts DEF CommitPacket, Goto, ActorTypes
  <2>2. QED
    BY <2>1 DEF Looked
<1>6. ASSUME NEW a \in Actors, SubmitWork(a)
      PROVE  Looked'
  <2>1. /\ queued' = (queued \/ ~WorkIsPending)
        /\ missed' = (missed \/ (~queued /\ stage = "return"))
        /\ stage' = stage
    BY <1>6 DEF SubmitWork
  <2>2. stage = "idle" => queued'
    BY <2>1 DEF WorkIsPending
  <2>3. stage = "return" /\ ~missed' => queued'
    BY <2>1
  <2>4. QED
    BY <2>1, <2>2, <2>3 DEF Looked
<1>7. CASE Work
  <2>1. CASE WorkStart \/ WorkWrite \/ WorkClose
    BY <2>1 DEF WorkStart, WorkWrite, WorkClose, Looked
  <2>2. CASE WorkClaim
    BY <2>2 DEF WorkClaim, Looked
  <2>3. CASE WorkFree
    <3>1. pbuf' = Free(pbuf) /\ queued' = (queued \/ CountIn(Free(pbuf), {"ready"}) # {})
      BY <2>3 DEF WorkFree
    <3>2. pbuf' \in Seq(Packets)
      BY DEF Control, TypeOK, Packets, States
    <3>3. CanClaim(pbuf') => CountIn(pbuf', {"ready"}) # {}
      BY <3>2, ClaimedCounts
    <3>4. CanClaim(pbuf') => queued'
      BY <3>1, <3>3
    <3>5. QED
      BY <3>4 DEF Looked
  <2>4. CASE WorkReturn
    BY <2>4 DEF WorkReturn, Looked, actorVars, ghostVars
  <2>5. QED
    BY <1>7, <2>1, <2>2, <2>3, <2>4 DEF Work
<1>8. CASE (\E c \in Channels : SyncWork(c)) \/ UNCHANGED vars
  <2>1. UNCHANGED <<queued, stage, missed, pbuf, pc>>
    BY <1>8 DEF SyncWork, vars, workVars, actorVars, ghostVars
  <2>2. QED
    BY <2>1, OthersKeepLooked
<1>9. QED
  BY <1>3, <1>4, <1>5, <1>6, <1>7, <1>8 DEF Next

-----------------------------------------------------------------------------
(* The theorems. *)

(* The invariant holds at the start. *)
LEMMA InitLInv == Init => LInv
<1> SUFFICES ASSUME Init PROVE LInv
  OBVIOUS
<1>1. /\ pbuf = <<>> /\ Len(pbuf) = 0 /\ stage = "idle" /\ late = {}
      /\ \A a \in Actors : pc[a] = "idle"
  BY DEF Init
<1>2. Channels \subseteq Actors /\ Operators \subseteq Actors
  BY DEF Actors
<1>3. /\ \A c \in Channels : \A q : q # "idle" => ~At(c, q)
      /\ \A c \in Channels : ~isLogging[c] /\ ~observed[c] /\ file[c] = 0 /\ ~syncDue[c]
      /\ \A c \in Channels : ~Started(c)
  BY <1>1, <1>2 DEF At, Started, Init
<1>4. TypeOK
  <2>1. pbuf \in Seq([id : Ids, state : {"alloc", "ready", "busy"}]) /\ Len(pbuf) <= Capacity
    BY <1>1, LoggingAssumption
  <2>2. chan \in [Actors -> Channels]
    BY LoggingAssumption DEF Init, Actors
  <2>3. /\ owner \in [Channels -> Operators \cup {Nobody}] /\ depth \in [Channels -> Nat]
        /\ \A c \in Channels : depth[c] = 0 <=> owner[c] = Nobody
        /\ isLogging \in [Channels -> BOOLEAN]
        /\ observed \in [Channels -> BOOLEAN] /\ syncDue \in [Channels -> BOOLEAN]
    BY DEF Init
  <2>4. /\ file \in [Channels -> 0..MaxSessions] /\ session \in [Channels -> 0..MaxSessions]
        /\ messages \in [Channels -> 0..MaxMessages]
    BY LoggingAssumption DEF Init
  <2>5. /\ queued \in BOOLEAN /\ missed \in BOOLEAN
        /\ stage \in {"idle", "claim", "handle", "free", "return"}
        /\ pc \in [Actors -> {"idle", "open", "observe", "mark", "alloc", "remove", "commit", "submit"}]
        /\ held \in [Actors -> Ids \cup {<<>>}]
        /\ late \subseteq DataIds /\ restarted \subseteq Channels /\ dropped \subseteq Channels
    BY DEF Init
  <2>6. QED
    BY <2>1, <2>2, <2>3, <2>4, <2>5 DEF TypeOK
<1>5. Places
  BY <1>1, <1>2 DEF Init, Places
<1>6. Phases
  BY <1>3 DEF Phases
<1>7. Order
  BY <1>1, <1>3 DEF Order, Busy, Numbered, Held, Stops, Files, Messages
<1>8. Looked
  BY <1>1 DEF Looked, CanClaim, NextToClaim
<1>9. QED
  BY <1>4, <1>5, <1>6, <1>7, <1>8 DEF LInv, Control

(* Every step keeps the order of the packets. *)
LEMMA StepKeepsOrder ==
    ASSUME Control, Order, [Next]_vars
    PROVE  Order'
<1>1. CASE \/ WorkStart \/ WorkWrite \/ WorkReturn \/ UNCHANGED vars
           \/ WorkClaim /\ ~CanClaim(pbuf)
           \/ \E c \in Channels : SyncWork(c)
  BY <1>1, WorkKeepsOrder
<1>2. CASE WorkClaim /\ CanClaim(pbuf)
  BY <1>2, WorkClaimKeepsOrder
<1>3. CASE WorkClose
  BY <1>3, WorkCloseKeepsOrder
<1>4. CASE WorkFree
  BY <1>4, WorkFreeKeepsOrder
<1>5. CASE \E c \in Channels : Publish(c)
  BY <1>5, PublishKeepsOrder, LostKeepsOrder
<1>6. CASE \E o \in Operators : Operator(o)
  <2> SUFFICES ASSUME NEW o \in Operators, Operator(o) PROVE Order'
    BY <1>6
  <2>1. CASE \/ \E c \in Channels : StartEnter(o, c) \/ StopEnter(o, c)
             \/ StartReturn(o)
             \/ StopAlloc(o) /\ ~CanOverwrite(pbuf, Capacity)
    BY <2>1, OperatorKeepsOrder
  <2>2. CASE StopAlloc(o) /\ CanOverwrite(pbuf, Capacity)
    BY <2>2, StopAllocKeepsOrder
  <2>3. CASE StartOpen(o) \/ StartObserve(o) \/ StopRemove(o)
    BY <2>3, StartOpenKeepsOrder, StartObserveKeepsOrder, StopRemoveKeepsOrder
  <2>4. QED
    BY <2>1, <2>2, <2>3 DEF Operator
<1>7. CASE \E a \in Actors : CommitPacket(a) \/ SubmitWork(a)
  BY <1>7, CommitPacketKeepsOrder, SubmitWorkKeepsOrder
<1>8. QED
  BY <1>1, <1>2, <1>3, <1>4, <1>5, <1>6, <1>7 DEF Next, Work

(* The invariant holds, with the types of all variables. *)
THEOREM Invariance == Spec => []LInv
<1>1. LInv /\ [Next]_vars => LInv'
  <2> SUFFICES ASSUME LInv, [Next]_vars PROVE LInv'
    OBVIOUS
  <2>1. Control /\ Order /\ Looked /\ Busy
    BY DEF LInv, Order
  <2>2. Control'
    BY <2>1, StepKeepsControl
  <2>3. Order'
    BY <2>1, StepKeepsOrder
  <2>4. Looked'
    BY <2>1, <2>2, StepKeepsLooked
  <2>5. QED
    BY <2>2, <2>3, <2>4 DEF LInv
<1>2. QED
  BY InitLInv, <1>1, PTL DEF Spec

(* Every variable keeps its type: in particular the buffer never exceeds    *)
(* its capacity, and a mutex is free exactly when it is not held.           *)
THEOREM TypesHold == Spec => []TypeOK
<1>1. LInv => TypeOK
  BY DEF LInv, Control
<1>2. QED
  BY <1>1, Invariance, PTL

(* logging_work() runs, or is about to, while a packet can be claimed,      *)
(* unless the last test of k_work_is_pending() found it past its last look. *)
THEOREM StalledOnlyByRaceHolds == Spec => []StalledOnlyByRace
<1>1. LInv => StalledOnlyByRace
  BY DEF LInv, Looked, Control, TypeOK, StalledOnlyByRace, WorkIsPending
<1>2. QED
  BY <1>1, Invariance, PTL

(* A message is written to the file of its session, whatever stops and      *)
(* starts of its channel meanwhile, but for the named races.                *)
THEOREM InOwnFileHolds == Spec => []InOwnFile
<1>1. LInv => InOwnFile
  <2> SUFFICES ASSUME LInv, stage = "handle", ~IsStop(Claimed), Claimed \notin late,
                      ChannelOf(Claimed) \notin restarted
               PROVE  file[ChannelOf(Claimed)] = SessionOf(Claimed)
    BY DEF InOwnFile
  <2>1. Control /\ Order
    BY DEF LInv
  <2>2. 1 \in 1..Len(pbuf)
    BY <2>1, PacketFacts, EmptySeq DEF Order, Busy
  <2>3. QED
    BY <2>1, <2>2 DEF Order, Messages, Claimed
<1>2. QED
  BY <1>1, Invariance, PTL

(* A channel that is logged, or has a sync due, has the file of its last    *)
(* session open, but for the named races.                                   *)
THEOREM OpenWhileUsedHolds == Spec => []OpenWhileUsed
<1>1. LInv => OpenWhileUsed
  BY DEF LInv, Control, Phases, Order, Files, Started, OpenWhileUsed
<1>2. QED
  BY <1>1, Invariance, PTL

(* fs_open() in msg_chan_logging_start() loses an open file only while the  *)
(* last stop of the channel has not been processed.                         *)
THEOREM LeakOnlyAfterRaceHolds == Spec => LeakOnlyAfterRace
<1> DEFINE Leak == \A c \in Channels :
                     file[c] # 0 /\ file'[c] # file[c] /\ file'[c] # 0 => c \in restarted'
<1>1. LInv /\ [Next]_vars => [Leak]_vars
  <2> SUFFICES ASSUME LInv, Next, NEW c \in Channels, file[c] # 0, file'[c] # file[c], file'[c] # 0
               PROVE  c \in restarted'
    OBVIOUS
  <2>1. Control /\ Order
    BY DEF LInv
  <2>2. file \in [Channels -> Nat]
    BY <2>1, PacketFacts
  <2>3. CASE \E o \in Operators : StartOpen(o)
    <3>1. PICK o \in Operators : StartOpen(o)
      BY <2>3
    <3>2. chan[o] \in Channels /\ At(chan[o], "open") /\ pc[o] = "open"
      BY <2>1, <3>1, ControlTypes DEF StartOpen
    <3>3. c = chan[o]
      BY <2>2, <3>1, <3>2 DEF StartOpen
    <3>4. ~Started(c)
      <4>1. owner[c] = o /\ ~observed[c]
        BY <2>1, <3>2, <3>3, ControlTypes, ControlParts DEF Phases
      <4>2. ~At(c, "observe")
        BY <2>1, <3>2, <4>1, ControlTypes DEF At
      <4>3. QED
        BY <4>1, <4>2 DEF Started
    <3>5. c \in restarted \/ c \in dropped \/ Stopping(c)
      BY <2>1, <3>4 DEF Order, Files
    <3>6. QED
      BY <3>1, <3>3, <3>5 DEF StartOpen, StopPending, Stopping, Stop
  <2>4. CASE \E o \in Operators : StartObserve(o)
    BY <2>2, <2>4 DEF StartObserve
  <2>5. CASE WorkClose
    BY <2>2, <2>5 DEF WorkClose
  <2>6. CASE ~(\E o \in Operators : StartOpen(o) \/ StartObserve(o)) /\ ~WorkClose
    BY <2>6 DEF Next, Work, Operator, WorkStart, WorkClaim, WorkWrite, WorkFree, WorkReturn,
       Publish, SyncWork, StartEnter, StartReturn, StopEnter, StopAlloc, StopRemove,
       CommitPacket, SubmitWork, channelVars
  <2>7. QED
    BY <2>3, <2>4, <2>5, <2>6
<1>2. QED
  BY <1>1, Invariance, PTL DEF Spec, LeakOnlyAfterRace

=============================================================================

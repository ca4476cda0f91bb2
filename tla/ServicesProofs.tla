--------------------------- MODULE ServicesProofs ---------------------------
(***************************************************************************)
(* Proofs about the services that the components share and that do not     *)
(* interact in the models: telemetry, the end of a run with the file       *)
(* systems, and the calibration of sensors.  Each has its own              *)
(* specification, and the theorems are about the behaviours of each on its *)
(* own.                                                                    *)
(***************************************************************************)
EXTENDS Telemetry, System, Calibration, TLAPS

-----------------------------------------------------------------------------
(***************************************************************************)
(* Telemetry.  A frame is of one copy because the dictionary is: outside   *)
(* the publication of a group its entries are the last copy, and during it *)
(* those that the work has come to are.                                    *)
(***************************************************************************)

Steps == {"dormant", "copy", "set", "request"}

TelemetryTypes ==
    /\ data \in [Data -> Nat]
    /\ pub_data \in [Groups -> Seq(Nat)] /\ od \in [Groups -> Seq(Nat)]
    /\ \A g \in Groups : Len(pub_data[g]) = Len(Members[g]) /\ Len(od[g]) = Len(Members[g])
    /\ work = None \/ /\ work \in Groups \X Steps \X Nat
                      /\ work[3] \in Slots(work[1])
    /\ tpdo = None \/ /\ tpdo \in Groups \X Seq(Nat)
                      /\ Len(tpdo[2]) <= Len(Members[tpdo[1]])

(* The work writes the entries of the group. *)
Publishing(g) == work # None /\ work[1] = g /\ work[2] \in {"set", "request"}

(* It has still to come to the entry of member i. *)
Behind(g, i) == Publishing(g) /\ (work[3] < i \/ (work[3] = i /\ work[2] = "set"))

Entries == \A g \in Groups : \A i \in Slots(g) : od[g][i] = pub_data[g][i] \/ Behind(g, i)

Frame ==
    \A g \in Groups :
      tpdo # None /\ tpdo[1] = g /\ g \notin crossed =>
        /\ ~Publishing(g)
        /\ \A i \in 1..Len(tpdo[2]) : tpdo[2][i] = pub_data[g][i]

TelemetryInv == TelemetryTypes /\ Entries /\ Frame

(* The members of a group, and the data they stand for. *)
LEMMA MembersTypes ==
    /\ \A g \in Groups : /\ Members[g] \in Seq(Names) /\ Len(Members[g]) \in Nat
                         /\ Len(Members[g]) >= 1 /\ Slots(g) = 1..Len(Members[g])
    /\ \A name \in Names : Resolve(name) \in Data
<1>1. ASSUME NEW g \in Groups
      PROVE  /\ Members[g] \in Seq(Names) /\ Len(Members[g]) \in Nat
             /\ Len(Members[g]) >= 1 /\ Slots(g) = 1..Len(Members[g])
  <2>1. Members[g] \in Seq(Names) /\ Members[g] # <<>>
    BY TelemetryAssumption
  <2> QED BY <2>1 DEF Slots
<1>2. \A name \in Names : Resolve(name) \in Data
  BY TelemetryAssumption DEF Names, Resolve
<1> QED BY <1>1, <1>2

(* Nothing is marked for publication at the start. *)
LEMMA InitTelemetryInv == TelemetryInit => TelemetryInv
<1> SUFFICES ASSUME TelemetryInit PROVE TelemetryInv
  OBVIOUS
<1>1. /\ data = [d \in Data |-> 0] /\ pub_data = Zero /\ work = None /\ od = Zero /\ tpdo = None
  BY DEF TelemetryInit
<1>2. \A g \in Groups : Zero[g] \in Seq(Nat) /\ Len(Zero[g]) = Len(Members[g])
  BY MembersTypes DEF Zero
<1>3. Zero \in [Groups -> Seq(Nat)]
  BY <1>2 DEF Zero
<1>4. TelemetryTypes
  BY <1>1, <1>2, <1>3 DEF TelemetryTypes
<1>5. Entries /\ Frame
  BY <1>1 DEF Entries, Frame
<1> QED BY <1>4, <1>5 DEF TelemetryInv

(* What happens elsewhere leaves the publication as it is. *)
LEMMA ElsewhereKeeps ==
    ASSUME TelemetryInv, data' \in [Data -> Nat],
           UNCHANGED <<pub_data, work, od, tpdo, crossed>>
    PROVE  TelemetryInv'
<1>1. TelemetryTypes'
  BY DEF TelemetryInv, TelemetryTypes
<1>2. Entries'
  BY DEF TelemetryInv, Entries, Behind, Publishing
<1>3. Frame'
  BY DEF TelemetryInv, Frame, Publishing
<1> QED BY <1>1, <1>2, <1>3 DEF TelemetryInv

(* The work of a group's aggregation begins, to publish it or not, or goes  *)
(* dormant.                                                                 *)
LEMMA WorkStartKeeps ==
    ASSUME TelemetryInv, NEW g \in Groups, WorkDormant(g) \/ WorkPublish(g)
    PROVE  TelemetryInv'
<1> PICK step \in {"dormant", "copy"} : work' = <<g, step, 1>>
  BY DEF WorkDormant, WorkPublish
<1>1. work = None /\ UNCHANGED <<data, pub_data, od, tpdo, crossed>>
  BY DEF WorkDormant, WorkPublish, senderVars
<1>2. \A h \in Groups : ~Publishing(h) /\ ~Publishing(h)'
  BY <1>1 DEF Publishing
<1>3. TelemetryTypes'
  <2>1. work' \in Groups \X Steps \X Nat /\ work'[3] \in Slots(work'[1])
    BY <1>1, MembersTypes DEF Steps
  <2> QED BY <1>1, <2>1 DEF TelemetryInv, TelemetryTypes
<1>4. Entries'
  BY <1>1, <1>2 DEF TelemetryInv, Entries, Behind
<1>5. Frame'
  BY <1>1, <1>2 DEF TelemetryInv, Frame
<1> QED BY <1>3, <1>4, <1>5 DEF TelemetryInv

(* It returns, having gone dormant. *)
LEMMA WorkReturnKeeps ==
    ASSUME TelemetryInv, WorkReturn
    PROVE  TelemetryInv'
<1>1. /\ work # None /\ work[2] = "dormant" /\ work' = None
      /\ UNCHANGED <<data, pub_data, od, tpdo, crossed>>
  BY DEF WorkReturn, senderVars
<1>2. \A h \in Groups : ~Publishing(h) /\ ~Publishing(h)'
  BY <1>1 DEF Publishing
<1>3. TelemetryTypes' /\ Entries' /\ Frame'
  BY <1>1, <1>2 DEF TelemetryInv, TelemetryTypes, Entries, Behind, Frame
<1> QED BY <1>3 DEF TelemetryInv

(* The parts of the work's place. *)
LEMMA WorkPlace ==
    ASSUME TelemetryTypes, work # None
    PROVE  /\ work[1] \in Groups /\ work[2] \in Steps
           /\ work[3] \in Slots(work[1]) /\ work[3] \in 1..Len(Members[work[1]])
BY MembersTypes DEF TelemetryTypes

(* A copy sets all entries behind, and a frame of the group is crossed. *)
LEMMA GroupCopyKeeps ==
    ASSUME TelemetryInv, GroupCopy
    PROVE  TelemetryInv'
<1> DEFINE g == work[1]
           copy == [i \in Slots(g) |-> data[Resolve(Members[g][i])]]
<1>1. /\ work # None /\ pub_data' = [pub_data EXCEPT ![g] = copy]
      /\ work' = <<g, "set", 1>>
      /\ crossed' = IF tpdo # None /\ tpdo[1] = g THEN crossed \cup {g} ELSE crossed
      /\ UNCHANGED <<data, od, tpdo>>
  BY DEF GroupCopy, senderVars
<1>2. g \in Groups /\ TelemetryTypes /\ ~Publishing(g)
  BY <1>1, WorkPlace DEF TelemetryInv, GroupCopy, Publishing
<1>3. copy \in Seq(Nat) /\ Len(copy) = Len(Members[g])
  <2>1. \A i \in Slots(g) : data[Resolve(Members[g][i])] \in Nat
    BY <1>2, MembersTypes DEF TelemetryTypes
  <2> QED BY <2>1, <1>2, MembersTypes
<1> HIDE DEF copy
<1>4. TelemetryTypes'
  <2>1. pub_data' \in [Groups -> Seq(Nat)] /\ \A h \in Groups : Len(pub_data'[h]) = Len(Members[h])
    BY <1>1, <1>2, <1>3 DEF TelemetryTypes
  <2>2. work' \in Groups \X Steps \X Nat /\ work'[3] \in Slots(work'[1])
    BY <1>1, <1>2, MembersTypes DEF Steps
  <2> QED BY <1>1, <1>2, <2>1, <2>2 DEF TelemetryTypes
<1>5. \A h \in Groups : h # g => pub_data'[h] = pub_data[h] /\ ~Publishing(h) /\ ~Publishing(h)'
  BY <1>1, <1>2 DEF Publishing, TelemetryTypes
<1>6. \A i \in Slots(g) : Behind(g, i)'
  BY <1>1, <1>2, MembersTypes DEF Behind, Publishing, None
<1>7. Entries'
  BY <1>1, <1>5, <1>6 DEF TelemetryInv, Entries, Behind
<1>8. Frame'
  BY <1>1, <1>5 DEF TelemetryInv, Frame
<1> QED BY <1>4, <1>7, <1>8 DEF TelemetryInv

(* The work writes one entry. *)
LEMMA SetValueKeeps ==
    ASSUME TelemetryInv, SetValue
    PROVE  TelemetryInv'
<1> DEFINE g == work[1]
           i == work[3]
<1>1. /\ work # None /\ work[2] = "set" /\ work' = <<g, "request", i>>
      /\ od' = [od EXCEPT ![g][i] = pub_data[g][i]]
      /\ UNCHANGED <<data, pub_data, tpdo, crossed>>
  BY DEF SetValue, senderVars
<1>2. g \in Groups /\ i \in Slots(g) /\ i \in 1..Len(Members[g]) /\ TelemetryTypes
  BY <1>1, WorkPlace DEF TelemetryInv
<1>3. /\ od[g] \in Seq(Nat) /\ Len(od[g]) = Len(Members[g])
      /\ pub_data[g] \in Seq(Nat) /\ Len(pub_data[g]) = Len(Members[g])
      /\ Len(Members[g]) \in Nat
  BY <1>2, MembersTypes DEF TelemetryTypes
<1>4. od' = [od EXCEPT ![g] = [od[g] EXCEPT ![i] = pub_data[g][i]]] /\ DOMAIN od = Groups
  BY <1>1, <1>2 DEF TelemetryTypes
<1>5. TelemetryTypes'
  <2>1. [od[g] EXCEPT ![i] = pub_data[g][i]] \in Seq(Nat)
        /\ Len([od[g] EXCEPT ![i] = pub_data[g][i]]) = Len(od[g])
    BY <1>2, <1>3
  <2>2. od' \in [Groups -> Seq(Nat)] /\ \A h \in Groups : Len(od'[h]) = Len(Members[h])
    BY <1>2, <1>3, <1>4, <2>1 DEF TelemetryTypes
  <2>3. work' \in Groups \X Steps \X Nat /\ work'[3] \in Slots(work'[1])
    BY <1>1, <1>2 DEF Steps
  <2> QED BY <1>1, <1>2, <2>2, <2>3 DEF TelemetryTypes
<1>6. ASSUME NEW h \in Groups, NEW j \in Slots(h)
      PROVE  od'[h][j] = pub_data'[h][j] \/ Behind(h, j)'
  <2>1. CASE h = g /\ j = i
    BY <1>1, <1>2, <1>3, <1>4, <2>1
  <2>2. CASE ~(h = g /\ j = i)
    <3>1. od'[h][j] = od[h][j]
      BY <1>2, <1>3, <1>4, <2>2, MembersTypes
    <3>2. Behind(h, j) => Behind(h, j)'
      BY <1>1, <1>2, <2>2, MembersTypes DEF Behind, Publishing, None
    <3> QED BY <1>1, <3>1, <3>2 DEF TelemetryInv, Entries
  <2> QED BY <2>1, <2>2
<1>7. \A h \in Groups : Publishing(h)' <=> Publishing(h)
  BY <1>1 DEF Publishing, None
<1>8. Frame'
  BY <1>1, <1>7 DEF TelemetryInv, Frame
<1> QED BY <1>5, <1>6, <1>8 DEF TelemetryInv, Entries

(* A frame is requested, and the work comes to the next member or its end. *)
LEMMA RequestTPDOKeeps ==
    ASSUME TelemetryInv, RequestTPDO
    PROVE  TelemetryInv'
<1> DEFINE g == work[1]
           i == work[3]
<1>1. /\ work # None /\ work[2] = "request"
      /\ work' = IF i < Len(Members[g]) THEN <<g, "set", i + 1>> ELSE None
      /\ UNCHANGED <<data, pub_data, od, tpdo, crossed>>
  BY DEF RequestTPDO, senderVars
<1>2. g \in Groups /\ i \in 1..Len(Members[g]) /\ TelemetryTypes /\ Len(Members[g]) \in Nat
  BY <1>1, WorkPlace, MembersTypes DEF TelemetryInv
<1>3. TelemetryTypes'
  <2>1. CASE i < Len(Members[g])
    <3>1. work' \in Groups \X Steps \X Nat /\ work'[3] \in Slots(work'[1])
      BY <1>1, <1>2, <2>1, MembersTypes DEF Steps
    <3> QED BY <1>1, <1>2, <3>1 DEF TelemetryTypes
  <2>2. CASE ~(i < Len(Members[g]))
    BY <1>1, <1>2, <2>2 DEF TelemetryTypes
  <2> QED BY <2>1, <2>2
<1>4. ASSUME NEW h \in Groups, NEW j \in Slots(h), Behind(h, j)
      PROVE  Behind(h, j)'
  <2>1. h = g /\ j \in 1..Len(Members[g]) /\ i < j
    BY <1>1, <1>2, <1>4, MembersTypes DEF Behind, Publishing
  <2>2. work' = <<g, "set", i + 1>> /\ i + 1 <= j
    BY <1>1, <1>2, <2>1
  <2> QED BY <1>2, <2>1, <2>2 DEF Behind, Publishing, None
<1>5. \A h \in Groups : Publishing(h)' => Publishing(h)
  BY <1>1 DEF Publishing
<1>6. Entries'
  BY <1>1, <1>4 DEF TelemetryInv, Entries
<1>7. Frame'
  BY <1>1, <1>5 DEF TelemetryInv, Frame
<1> QED BY <1>3, <1>6, <1>7 DEF TelemetryInv

(* A frame is begun: it is crossed at once while its group is published,    *)
(* and otherwise the entries are the last copy.                             *)
LEMMA TpdoStartKeeps ==
    ASSUME TelemetryInv, NEW g \in Groups, TpdoStart(g)
    PROVE  TelemetryInv'
<1>1. /\ tpdo = None /\ tpdo' = <<g, <<>>>>
      /\ crossed' = IF Publishing(g) THEN crossed \cup {g} ELSE crossed \ {g}
      /\ UNCHANGED <<data, pub_data, work, od>>
  BY DEF TpdoStart, senderVars, workVars, Publishing
<1>2. tpdo' \in Groups \X Seq(Nat) /\ tpdo'[1] = g /\ tpdo'[2] = <<>> /\ Len(tpdo'[2]) = 0
  <2>1. <<>> \in Seq(Nat)
    OBVIOUS
  <2> QED BY <1>1, <2>1
<1>3. TelemetryTypes'
  <2>1. Len(tpdo'[2]) <= Len(Members[tpdo'[1]])
    BY <1>2, MembersTypes
  <2> QED BY <1>1, <1>2, <2>1 DEF TelemetryInv, TelemetryTypes
<1>4. Entries'
  BY <1>1 DEF TelemetryInv, Entries, Behind, Publishing
<1>5. Frame'
  BY <1>1, <1>2 DEF Frame, Publishing
<1> QED BY <1>3, <1>4, <1>5 DEF TelemetryInv

(* The next entry is read into the frame. *)
LEMMA TpdoReadKeeps ==
    ASSUME TelemetryInv, TpdoRead
    PROVE  TelemetryInv'
<1> DEFINE g == tpdo[1]
           n == Len(tpdo[2])
<1>1. /\ tpdo # None /\ n < Len(Members[g])
      /\ tpdo' = <<g, Append(tpdo[2], od[g][n + 1])>>
      /\ UNCHANGED <<data, pub_data, work, od, crossed>>
  BY DEF TpdoRead, senderVars, workVars
<1>2. /\ tpdo \in Groups \X Seq(Nat) /\ g \in Groups /\ tpdo[2] \in Seq(Nat) /\ n \in Nat
      /\ n + 1 \in Slots(g) /\ od[g][n + 1] \in Nat
  BY <1>1, MembersTypes DEF TelemetryInv, TelemetryTypes
<1>3. Append(tpdo[2], od[g][n + 1]) \in Seq(Nat)
  BY <1>2
<1>4. /\ tpdo'[1] = g /\ tpdo'[2] \in Seq(Nat) /\ Len(tpdo'[2]) = n + 1
      /\ \A i \in 1..n : tpdo'[2][i] = tpdo[2][i]
      /\ tpdo'[2][n + 1] = od[g][n + 1]
  BY <1>1, <1>2, <1>3
<1>5. TelemetryTypes'
  <2>1. tpdo' \in Groups \X Seq(Nat)
    BY <1>1, <1>2, <1>3
  <2>2. Len(tpdo'[2]) <= Len(Members[tpdo'[1]])
    <3>1. n + 1 <= Len(Members[g])
      BY <1>1, <1>2, MembersTypes
    <3> QED BY <1>4, <3>1
  <2> QED BY <1>1, <2>1, <2>2 DEF TelemetryInv, TelemetryTypes
<1>6. Entries'
  BY <1>1 DEF TelemetryInv, Entries, Behind, Publishing
<1>7. ASSUME g \notin crossed
      PROVE  ~Publishing(g) /\ \A i \in 1..Len(tpdo'[2]) : tpdo'[2][i] = pub_data[g][i]
  <2>1. ~Publishing(g) /\ \A i \in 1..n : tpdo[2][i] = pub_data[g][i]
    BY <1>1, <1>2, <1>7 DEF TelemetryInv, Frame
  <2>2. od[g][n + 1] = pub_data[g][n + 1]
    BY <1>2, <2>1 DEF TelemetryInv, Entries, Behind
  <2>3. Len(tpdo'[2]) = n + 1 /\ \A i \in 1..n + 1 : i \in 1..n \/ i = n + 1
    BY <1>2, <1>4
  <2> QED BY <1>4, <2>1, <2>2, <2>3
<1>8. Frame'
  BY <1>1, <1>4, <1>7 DEF Frame, Publishing
<1> QED BY <1>5, <1>6, <1>8 DEF TelemetryInv

(* The frame is sent. *)
LEMMA TpdoSendKeeps ==
    ASSUME TelemetryInv, TpdoSend
    PROVE  TelemetryInv'
<1>1. tpdo' = None /\ UNCHANGED <<data, pub_data, work, od>>
  BY DEF TpdoSend, senderVars, workVars
<1>2. TelemetryTypes'
  BY <1>1 DEF TelemetryInv, TelemetryTypes
<1>3. Entries' /\ Frame'
  BY <1>1 DEF TelemetryInv, Entries, Frame, Behind, Publishing
<1> QED BY <1>2, <1>3 DEF TelemetryInv

(* Every step of the telemetry keeps the invariant. *)
LEMMA TelemetryStepKeeps ==
    ASSUME TelemetryInv, [TelemetryNext]_telemetryVars
    PROVE  TelemetryInv'
<1>1. CASE UNCHANGED telemetryVars
  BY <1>1, ElsewhereKeeps DEF telemetryVars, senderVars, workVars, TelemetryInv, TelemetryTypes
<1>2. CASE \E name \in Names : InsertData(name) \/ Update(name) \/ UpdateAddr(name)
  <2> SUFFICES ASSUME NEW name \in Names,
                      InsertData(name) \/ Update(name) \/ UpdateAddr(name)
               PROVE  TelemetryInv'
    BY <1>2
  <2>1. UNCHANGED <<pub_data, work, od, tpdo, crossed>>
    BY DEF InsertData, Update, UpdateAddr, workVars
  <2>2. data' \in [Data -> Nat]
    BY MembersTypes DEF InsertData, Update, UpdateAddr, TelemetryInv, TelemetryTypes
  <2> QED BY <2>1, <2>2, ElsewhereKeeps
<1>3. CASE \E l \in Links : LinkGroup(l)
  BY <1>3, ElsewhereKeeps DEF LinkGroup, workVars, TelemetryInv, TelemetryTypes
<1>4. CASE \E g \in Groups : Work(g)
  BY <1>4, WorkStartKeeps, WorkReturnKeeps, GroupCopyKeeps, SetValueKeeps, RequestTPDOKeeps
    DEF Work, WorkGoesOn
<1>5. CASE \E g \in Groups : Tpdo(g)
  BY <1>5, TpdoStartKeeps, TpdoReadKeeps, TpdoSendKeeps DEF Tpdo
<1>6. CASE \E g \in Groups : Rpdo(g) \/ MsgWork(g)
  <2>1. UNCHANGED <<data, pub_data, work, od, tpdo, crossed>>
    BY <1>6 DEF Rpdo, RpdoReceive, OdWrite, MsgWork, MsgDormant, MsgPublish, MsgReturn,
                workVars, senderVars
  <2> QED BY <2>1, ElsewhereKeeps DEF TelemetryInv, TelemetryTypes
<1> QED BY <1>1, <1>2, <1>3, <1>4, <1>5, <1>6 DEF TelemetryNext

(* For any data, aliases, groups and members: a frame holds one copy of its *)
(* group, unless the publication of the group and the making of the frame   *)
(* overlapped, although neither takes the other's lock.                     *)
THEOREM FramesWholeHolds == TelemetrySpec => []FramesWhole
<1>1. TelemetryInv => FramesWhole
  <2> SUFFICES ASSUME TelemetryInv, NEW g \in Groups, tpdo # None, tpdo[1] = g, g \notin crossed
               PROVE  tpdo[2] = SubSeq(pub_data[g], 1, Len(tpdo[2]))
    BY DEF FramesWhole
  <2>1. /\ tpdo[2] \in Seq(Nat) /\ Len(tpdo[2]) \in Nat
        /\ pub_data[g] \in Seq(Nat) /\ Len(tpdo[2]) <= Len(pub_data[g])
        /\ \A i \in 1..Len(tpdo[2]) : tpdo[2][i] = pub_data[g][i]
    BY DEF TelemetryInv, TelemetryTypes, Frame
  <2> DEFINE n == Len(tpdo[2])
             copy == SubSeq(pub_data[g], 1, n)
  <2>2. copy \in Seq(Nat) /\ Len(copy) = n /\ \A i \in 1..n : copy[i] = pub_data[g][i]
    BY <2>1
  <2> QED BY <2>1, <2>2
<1> QED BY <1>1, InitTelemetryInv, TelemetryStepKeeps, PTL DEF TelemetrySpec

-----------------------------------------------------------------------------
(***************************************************************************)
(* The end of a run.  Whatever is still mounted, and has not refused, is   *)
(* still to be unmounted by everyone who ends the run; so the first of     *)
(* them who has nothing left to call leaves nothing mounted.               *)
(***************************************************************************)

SystemTypes ==
    /\ state \in {"up", "rebooting", "off"}
    /\ request \in [Callers -> {"none", "reset", "stopped", "shutdown"}]
    /\ todo \in [Callers -> Seq(ToSet(Handlers))]
    /\ hung \subseteq Callers /\ timer \in BOOLEAN /\ fired \in BOOLEAN
    /\ mounted \subseteq FileSystems
    /\ failures \in Nat

StillToUnmount ==
    \A t \in Callers :
      state = "up" /\ request[t] # "none" => mounted \ unmountFailed \subseteq ToSet(todo[t])

(* Who has not asked for the end has nothing to call. *)
NothingToCall == \A t \in Callers : request[t] = "none" => todo[t] = <<>>

SystemInv == SystemTypes /\ StillToUnmount /\ NothingToCall /\ CleanEnd

(* What is left of a sequence without its head. *)
LEMMA TailKeeps ==
    ASSUME NEW S, NEW q \in Seq(S), q # <<>>
    PROVE  /\ Head(q) \in ToSet(q) /\ Tail(q) \in Seq(S)
           /\ ToSet(q) \subseteq ToSet(Tail(q)) \cup {Head(q)}
<1>1. /\ Tail(q) \in Seq(S) /\ Len(Tail(q)) = Len(q) - 1 /\ Len(q) \in Nat /\ Len(q) >= 1
      /\ Head(q) = q[1] /\ \A i \in 1..Len(q) - 1 : Tail(q)[i] = q[i + 1]
  OBVIOUS
<1>2. /\ ToSet(q) = {q[i] : i \in 1..Len(q)}
      /\ ToSet(Tail(q)) = {Tail(q)[i] : i \in 1..Len(q) - 1}
  <2>1. DOMAIN q = 1..Len(q) /\ DOMAIN Tail(q) = 1..Len(q) - 1
    BY <1>1
  <2>2. /\ ToSet(q) = {q[i] : i \in DOMAIN q}
        /\ ToSet(Tail(q)) = {Tail(q)[i] : i \in DOMAIN Tail(q)}
    BY DEF ToSet
  <2> QED BY <2>1, <2>2
<1>3. ASSUME NEW i \in 1..Len(q) PROVE q[i] = Head(q) \/ q[i] \in ToSet(Tail(q))
  <2>1. CASE i = 1
    BY <1>1, <2>1
  <2>2. CASE i # 1
    <3>1. i - 1 \in 1..Len(q) - 1 /\ Tail(q)[i - 1] = q[i]
      BY <1>1, <2>2
    <3> QED BY <1>2, <3>1
  <2> QED BY <2>1, <2>2
<1> QED BY <1>1, <1>2, <1>3

(* Nobody has called the handlers at boot. *)
LEMMA InitSystemInv == SystemInit => SystemInv
<1> SUFFICES ASSUME SystemInit PROVE SystemInv
  OBVIOUS
<1>1. <<>> \in Seq(ToSet(Handlers))
  OBVIOUS
<1>2. SystemTypes
  BY <1>1 DEF SystemInit, SystemTypes
<1>3. StillToUnmount /\ NothingToCall /\ CleanEnd
  BY DEF SystemInit, StillToUnmount, NothingToCall, CleanEnd
<1> QED BY <1>2, <1>3 DEF SystemInv

(* A thread that asks for the end has all callbacks to call. *)
LEMMA AskKeeps ==
    ASSUME SystemInv, NEW t \in Callers, NEW r \in {"reset", "shutdown"},
           state = "up", request[t] = "none",
           request' = [request EXCEPT ![t] = r],
           todo' = [todo EXCEPT ![t] = Handlers], timer' \in BOOLEAN,
           UNCHANGED <<state, hung, unmountFailed, fired, mounted, failures>>
    PROVE  SystemInv'
<1>1. SystemTypes'
  BY SystemAssumption DEF SystemInv, SystemTypes
<1>2. StillToUnmount'
  BY SystemAssumption DEF SystemInv, SystemTypes, StillToUnmount
<1>3. NothingToCall' /\ CleanEnd'
  BY DEF SystemInv, SystemTypes, NothingToCall, CleanEnd
<1> QED BY <1>1, <1>2, <1>3 DEF SystemInv

(* A callback that returns has unmounted its file system, if it could. *)
LEMMA CallbackKeeps ==
    ASSUME SystemInv, NEW t \in Callers, Callback(t)
    PROVE  SystemInv'
<1> DEFINE h == Head(todo[t])
<1>1. /\ state = "up" /\ todo[t] # <<>> /\ todo' = [todo EXCEPT ![t] = Tail(todo[t])]
      /\ \/ mounted' = mounted \ {h} /\ UNCHANGED <<unmountFailed, failures>>
         \/ /\ failures' = failures + 1 /\ unmountFailed' = unmountFailed \cup {h}
            /\ UNCHANGED mounted
      /\ UNCHANGED <<state, request, hung, timer, fired>>
  BY DEF Callback, Calling
<1>2. todo \in [Callers -> Seq(ToSet(Handlers))] /\ todo[t] \in Seq(ToSet(Handlers))
  BY DEF SystemInv, SystemTypes
<1>3. Tail(todo[t]) \in Seq(ToSet(Handlers)) /\ ToSet(todo[t]) \subseteq ToSet(Tail(todo[t])) \cup {h}
  BY <1>1, <1>2, TailKeeps
<1>4. mounted' \subseteq mounted /\ mounted' \ unmountFailed' \subseteq (mounted \ unmountFailed) \ {h}
  BY <1>1
<1>5. SystemTypes'
  BY <1>1, <1>2, <1>3, <1>4 DEF SystemInv, SystemTypes
<1>6. StillToUnmount'
  <2> SUFFICES ASSUME NEW u \in Callers, request[u] # "none"
               PROVE  mounted' \ unmountFailed' \subseteq ToSet(todo'[u])
    BY <1>1 DEF StillToUnmount
  <2>1. mounted \ unmountFailed \subseteq ToSet(todo[u])
    BY <1>1 DEF SystemInv, StillToUnmount
  <2> QED BY <1>1, <1>2, <1>3, <1>4, <2>1
<1>7. NothingToCall' /\ CleanEnd'
  BY <1>1, <1>2 DEF SystemInv, NothingToCall, CleanEnd
<1> QED BY <1>5, <1>6, <1>7 DEF SystemInv

(* With nothing left to call, nothing is mounted that has not refused. *)
LEMMA CalledLeavesNothing ==
    ASSUME SystemInv, NEW t \in Callers, Called(t)
    PROVE  mounted \subseteq unmountFailed
<1>1. mounted \ unmountFailed \subseteq ToSet(<<>>)
  BY DEF SystemInv, StillToUnmount, Called
<1>2. DOMAIN <<>> = {}
  OBVIOUS
<1>3. ToSet(<<>>) = {}
  BY <1>2 DEF ToSet
<1> QED BY <1>1, <1>3

(* A caller takes a step of its request. *)
LEMMA CallerKeeps ==
    ASSUME SystemInv, NEW t \in Callers,
           SysReset(t) \/ SysShutdown(t) \/ Hang(t) \/ Finish(t)
    PROVE  SystemInv'
<1>1. CASE SysReset(t) \/ SysShutdown(t)
  BY <1>1, AskKeeps DEF SysReset, SysShutdown, SystemInv, SystemTypes
<1>2. CASE Hang(t)
  BY <1>2 DEF Hang, SystemInv, SystemTypes, StillToUnmount, NothingToCall, CleanEnd
<1>3. CASE StopTimer(t)
  BY <1>3 DEF StopTimer, Called, SystemInv, SystemTypes, StillToUnmount, NothingToCall, CleanEnd
<1>4. CASE Reset(t) \/ PowerOff(t)
  <2>1. mounted \subseteq unmountFailed
    BY <1>4, CalledLeavesNothing DEF Reset, PowerOff
  <2>2. /\ state' \in {"rebooting", "off"}
        /\ UNCHANGED <<request, todo, hung, timer, unmountFailed, fired, mounted, failures>>
    BY <1>4 DEF Reset, PowerOff
  <2> QED BY <2>1, <2>2 DEF SystemInv, SystemTypes, StillToUnmount, NothingToCall, CleanEnd
<1> QED BY <1>1, <1>2, <1>3, <1>4, CallbackKeeps DEF Finish

(* The timer cuts the callbacks short, and the next run mounts all. *)
LEMMA RestartKeeps ==
    ASSUME SystemInv, ResetCb \/ Boot
    PROVE  SystemInv'
<1>1. CASE ResetCb
  BY <1>1 DEF ResetCb, SystemInv, SystemTypes, StillToUnmount, NothingToCall, CleanEnd
<1>2. CASE Boot
  <2>1. <<>> \in Seq(ToSet(Handlers))
    OBVIOUS
  <2>2. SystemTypes'
    BY <1>2, <2>1 DEF Boot, SystemInv, SystemTypes
  <2>3. StillToUnmount' /\ NothingToCall' /\ CleanEnd'
    BY <1>2 DEF Boot, StillToUnmount, NothingToCall, CleanEnd
  <2> QED BY <2>2, <2>3 DEF SystemInv
<1> QED BY <1>1, <1>2

(* Who makes directories mounts and unmounts nothing. *)
LEMMA MakerKeeps ==
    ASSUME SystemInv, NEW m \in Makers, MkdirP(m) \/ OpenDir(m) \/ MkDir(m)
    PROVE  SystemInv'
<1>1. UNCHANGED <<shutdownVars, mounted>>
  BY DEF MkdirP, OpenDir, MkDir
<1>2. failures' \in Nat
  BY DEF MkdirP, OpenDir, MkDir, Make, MkDirFails, DiskRefuses, SystemInv, SystemTypes
<1> QED BY <1>1, <1>2
  DEF shutdownVars, SystemInv, SystemTypes, StillToUnmount, NothingToCall, CleanEnd

(* Every step of the system keeps the invariant. *)
LEMMA SystemStepKeeps ==
    ASSUME SystemInv, [SystemNext]_systemVars
    PROVE  SystemInv'
<1>1. CASE UNCHANGED systemVars
  BY <1>1 DEF systemVars, shutdownVars, SystemInv, SystemTypes, StillToUnmount, NothingToCall, CleanEnd
<1>2. CASE SystemNext
  BY <1>2, CallerKeeps, RestartKeeps, MakerKeeps DEF SystemNext, Step
<1> QED BY <1>1, <1>2

(* For any threads and callbacks, however they hang and cross: when the     *)
(* system goes down no file system is left mounted but one that refused,    *)
(* unless the timer cut the callbacks short.                                *)
THEOREM CleanEndHolds == SystemSpec => []CleanEnd
<1>1. SystemInv => CleanEnd
  BY DEF SystemInv
<1> QED BY <1>1, InitSystemInv, SystemStepKeeps, PTL DEF SystemSpec

-----------------------------------------------------------------------------
(***************************************************************************)
(* Directories.  A maker's parent is there, for directories stay; and what *)
(* it found missing still is, unless the disk refused or it was overtaken. *)
(***************************************************************************)

MakerState ==
    [path : Paths \cup {<<>>}, at : Nat, missing : BOOLEAN, result : {"none", "ok", "failed"}]

MkdirTypes ==
    /\ maker \in [Makers -> MakerState]
    /\ \A m \in Makers : /\ maker[m].path # <<>> => maker[m].at \in 2..Len(maker[m].path)
                         /\ maker[m].missing => Making(m)
                         /\ maker[m].result # "none" => maker[m].path # <<>>

HasParent(m) ==
    maker[m].path # <<>> /\ maker[m].at > 2 => SubSeq(maker[m].path, 1, maker[m].at - 1) \in dirs

Undisturbed(m) ==
    maker[m].path # <<>> /\ maker[m].path[1] \in mounted /\ m \notin refused \cup overtaken

OnItsWay(m) == maker[m].result # "failed" /\ (maker[m].missing => Prefix(m) \notin dirs)

MkdirInv == MkdirTypes /\ \A m \in Makers : HasParent(m) /\ (Undisturbed(m) => OnItsWay(m))

(* A prefix of a path. *)
LEMMA PrefixOfPath ==
    ASSUME NEW p \in Paths, NEW k \in 2..Len(p)
    PROVE  LET q == SubSeq(p, 1, k) IN
           /\ p # <<>> /\ p[1] \in FileSystems /\ Len(p) \in Nat
           /\ q[1] = p[1] /\ Len(q) = k /\ SubSeq(q, 1, Len(q) - 1) = SubSeq(p, 1, k - 1)
<1> DEFINE q == SubSeq(p, 1, k)
<1>1. p \in Seq(ToSet(p)) /\ Len(p) > 1 /\ p[1] \in FileSystems
  BY SystemAssumption
<1>2. /\ q \in Seq(ToSet(p)) /\ Len(q) = k /\ k - 1 \in 0..k
      /\ \A i \in 1..k : q[i] = p[i]
  BY <1>1
<1>3. SubSeq(q, 1, k - 1) = SubSeq(p, 1, k - 1)
  <2>1. /\ SubSeq(q, 1, k - 1) = [i \in 1..k - 1 |-> q[i]]
        /\ SubSeq(p, 1, k - 1) = [i \in 1..k - 1 |-> p[i]]
    BY <1>1, <1>2
  <2> QED BY <1>2, <2>1
<1> QED BY <1>1, <1>2, <1>3

(* A maker before its first path. *)
LEMMA IdleMakerTypes ==
    /\ IdleMaker \in MakerState /\ IdleMaker.path = <<>> /\ ~IdleMaker.missing
    /\ IdleMaker.result = "none"
BY DEF IdleMaker, AtStart, MakerState

(* Nobody makes a directory at boot. *)
LEMMA InitMkdirInv == SystemInit => MkdirInv
<1> SUFFICES ASSUME maker = [m \in Makers |-> IdleMaker] PROVE MkdirInv
  BY DEF SystemInit
<1>1. MkdirTypes
  BY IdleMakerTypes DEF MkdirTypes
<1>2. \A m \in Makers : HasParent(m) /\ ~Undisturbed(m)
  BY IdleMakerTypes DEF HasParent, Undisturbed
<1> QED BY <1>1, <1>2 DEF MkdirInv

(* Unmounting only disturbs. *)
LEMMA EndKeepsMkdir ==
    ASSUME MkdirInv, UNCHANGED <<dirs, maker, refused, overtaken>>, mounted' \subseteq mounted
    PROVE  MkdirInv'
<1>1. MkdirTypes'
  BY DEF MkdirInv, MkdirTypes, Making
<1>2. ASSUME NEW m \in Makers PROVE HasParent(m)' /\ (Undisturbed(m)' => OnItsWay(m)')
  BY DEF MkdirInv, HasParent, Undisturbed, OnItsWay, Prefix
<1> QED BY <1>1, <1>2 DEF MkdirInv

(* A maker's step that gives this maker another state, and makes no         *)
(* directory, or one, by which it overtakes all who found it missing.       *)
LEMMA OneMakerMoves ==
    ASSUME MkdirInv, NEW m \in Makers, NEW r \in MakerState, maker' = [maker EXCEPT ![m] = r],
           r.path # <<>> => r.at \in 2..Len(r.path),
           r.missing => r.path # <<>> /\ r.result = "none",
           r.result # "none" => r.path # <<>>,
           UNCHANGED mounted,
           \A n \in Makers \ {m} : (n \in refused' <=> n \in refused)
                                  /\ (n \in overtaken => n \in overtaken'),
           NEW made, dirs' = dirs \cup made,
           \A n \in Makers \ {m} : maker[n].missing /\ Prefix(n) \in made => n \in overtaken',
           HasParent(m)', Undisturbed(m)' => OnItsWay(m)'
    PROVE  MkdirInv'
<1>1. /\ maker' \in [Makers -> MakerState] /\ maker'[m] = r
      /\ \A n \in Makers \ {m} : maker'[n] = maker[n]
  BY DEF MkdirInv, MkdirTypes
<1>2. MkdirTypes'
  BY <1>1 DEF MkdirInv, MkdirTypes, Making
<1>3. ASSUME NEW n \in Makers, n # m PROVE HasParent(n)' /\ (Undisturbed(n)' => OnItsWay(n)')
  <2>1. maker'[n] = maker[n]
    BY <1>1, <1>3
  <2>2. HasParent(n)'
    BY <2>1 DEF MkdirInv, HasParent
  <2>3. Undisturbed(n)' => Undisturbed(n) /\ (maker[n].missing => Prefix(n) \notin made)
    BY <1>3, <2>1 DEF Undisturbed
  <2> QED BY <2>1, <2>2, <2>3 DEF MkdirInv, OnItsWay, Prefix
<1> QED BY <1>2, <1>3 DEF MkdirInv

(* A maker under way. *)
LEMMA MakingTypes ==
    ASSUME MkdirInv, NEW m \in Makers, Making(m)
    PROVE  /\ maker \in [Makers -> MakerState] /\ maker[m] \in MakerState
           /\ maker[m].path \in Paths /\ maker[m].path # <<>>
           /\ maker[m].at \in 2..Len(maker[m].path) /\ Len(maker[m].path) \in Nat
           /\ maker[m].result = "none"
<1>1. /\ maker \in [Makers -> MakerState] /\ maker[m] \in MakerState
      /\ maker[m].path # <<>> /\ maker[m].result = "none"
      /\ maker[m].at \in 2..Len(maker[m].path)
  BY DEF MkdirInv, MkdirTypes, Making
<1>2. maker[m].path \in Paths
  BY <1>1 DEF MakerState
<1> QED BY <1>1, <1>2, PrefixOfPath

(* The next prefix, or the end, once this one is there. *)
LEMMA AdvanceKeeps ==
    ASSUME MkdirInv, NEW m \in Makers, Making(m), Advance(m),
           UNCHANGED <<mounted, refused>>, overtaken \subseteq overtaken',
           NEW made, dirs' = dirs \cup made, Prefix(m) \in dirs',
           \A n \in Makers \ {m} : maker[n].missing /\ Prefix(n) \in made => n \in overtaken'
    PROVE  MkdirInv'
<1> DEFINE old == maker[m]
<1>1. /\ maker \in [Makers -> MakerState] /\ old \in MakerState
      /\ old.path \in Paths /\ old.path # <<>>
      /\ old.at \in 2..Len(old.path) /\ Len(old.path) \in Nat /\ old.result = "none"
  BY MakingTypes
<1>2. CASE old.at < Len(old.path)
  <2> DEFINE r == [path |-> old.path, at |-> old.at + 1, missing |-> FALSE, result |-> "none"]
  <2>1. maker' = [maker EXCEPT ![m] = r]
    BY <1>1, <1>2 DEF Advance, MakerState
  <2>2. /\ r \in MakerState /\ r.at \in 2..Len(r.path) /\ r.at - 1 = old.at
        /\ ~r.missing /\ r.path = old.path /\ r.result = "none"
    BY <1>1, <1>2 DEF MakerState
  <2> HIDE DEF r
  <2>3. maker'[m] = r
    BY <1>1, <2>1
  <2>4. HasParent(m)' /\ OnItsWay(m)'
    BY <2>2, <2>3 DEF HasParent, OnItsWay, Prefix
  <2> QED BY <1>1, <2>1, <2>2, <2>4, OneMakerMoves
<1>3. CASE ~(old.at < Len(old.path))
  <2> DEFINE r == [path |-> old.path, at |-> old.at, missing |-> FALSE, result |-> "ok"]
  <2>1. maker' = [maker EXCEPT ![m] = r]
    BY <1>1, <1>3 DEF Advance, Return, MakerState
  <2>2. /\ r \in MakerState /\ r.at = old.at /\ ~r.missing /\ r.path = old.path
        /\ r.result = "ok"
    BY <1>1 DEF MakerState
  <2> HIDE DEF r
  <2>3. maker'[m] = r
    BY <1>1, <2>1
  <2>4. HasParent(m)' /\ OnItsWay(m)'
    BY <2>2, <2>3 DEF MkdirInv, HasParent, OnItsWay
  <2> QED BY <1>1, <2>1, <2>2, <2>4, OneMakerMoves
<1> QED BY <1>2, <1>3

(* The maker looks no further for its directory, or returns, and something  *)
(* has disturbed it if that is a failure or the directory was there.        *)
LEMMA StayKeeps ==
    ASSUME MkdirInv, NEW m \in Makers, Making(m),
           \/ Missing(m) /\ (Undisturbed(m)' => Prefix(m) \notin dirs)
           \/ Return(m, "failed") /\ ~Undisturbed(m)',
           UNCHANGED <<mounted, dirs, overtaken>>,
           \A n \in Makers \ {m} : n \in refused' <=> n \in refused
    PROVE  MkdirInv'
<1> DEFINE old == maker[m]
<1>1. /\ maker \in [Makers -> MakerState] /\ old \in MakerState
      /\ old.path \in Paths /\ old.path # <<>>
      /\ old.at \in 2..Len(old.path) /\ old.result = "none"
  BY MakingTypes
<1>2. CASE Missing(m) /\ (Undisturbed(m)' => Prefix(m) \notin dirs)
  <2> DEFINE r == [old EXCEPT !.missing = TRUE]
  <2>1. maker' = [maker EXCEPT ![m] = r]
    BY <1>2 DEF Missing
  <2>2. /\ r \in MakerState /\ r.at = old.at /\ r.path = old.path /\ r.result = "none"
    BY <1>1 DEF MakerState
  <2> HIDE DEF r
  <2>3. maker'[m] = r
    BY <1>1, <2>1
  <2>4. HasParent(m)' /\ (Undisturbed(m)' => OnItsWay(m)')
    BY <1>2, <2>2, <2>3 DEF MkdirInv, HasParent, OnItsWay, Prefix
  <2>5. dirs' = dirs \cup {}
    OBVIOUS
  <2> QED BY <1>1, <2>1, <2>2, <2>4, <2>5, OneMakerMoves
<1>3. CASE Return(m, "failed") /\ ~Undisturbed(m)'
  <2> DEFINE r == [path |-> old.path, at |-> old.at, missing |-> FALSE, result |-> "failed"]
  <2>1. maker' = [maker EXCEPT ![m] = r]
    BY <1>1, <1>3 DEF Return, MakerState
  <2>2. /\ r \in MakerState /\ r.at = old.at /\ r.path = old.path /\ ~r.missing
    BY <1>1 DEF MakerState
  <2> HIDE DEF r
  <2>3. maker'[m] = r
    BY <1>1, <2>1
  <2>4. HasParent(m)'
    BY <2>2, <2>3 DEF MkdirInv, HasParent
  <2>5. dirs' = dirs \cup {}
    OBVIOUS
  <2> QED BY <1>1, <1>3, <2>1, <2>2, <2>4, <2>5, OneMakerMoves
<1> QED BY <1>2, <1>3

(* A maker starts on a path. *)
LEMMA MkdirPKeeps ==
    ASSUME MkdirInv, NEW m \in Makers, MkdirP(m)
    PROVE  MkdirInv'
<1>1. PICK p \in Paths : maker' = [maker EXCEPT ![m] = AtStart(p)]
  BY DEF MkdirP
<1>2. /\ UNCHANGED <<mounted, dirs>>
      /\ refused' = refused \ {m} /\ overtaken' = overtaken \ {m}
  BY DEF MkdirP
<1> DEFINE r == AtStart(p)
<1>3. r.path = p /\ r.at = 2 /\ ~r.missing /\ r.result = "none"
  BY DEF AtStart
<1>4. p \in Seq(ToSet(p)) /\ Len(p) > 1
  BY SystemAssumption
<1>5. r \in MakerState
  BY DEF AtStart, MakerState
<1>6. r.at \in 2..Len(r.path) /\ r.path # <<>>
  BY <1>3, <1>4
<1>7. maker' = [maker EXCEPT ![m] = r] /\ maker'[m] = r
  BY <1>1, <1>5 DEF MkdirInv, MkdirTypes
<1> HIDE DEF r
<1>8. HasParent(m)' /\ OnItsWay(m)'
  BY <1>3, <1>7 DEF HasParent, OnItsWay
<1>9. dirs' = dirs \cup {}
  BY <1>2
<1> QED BY <1>2, <1>3, <1>5, <1>6, <1>7, <1>8, <1>9, OneMakerMoves

(* The disk refuses an operation of the maker, and of no other. *)
LEMMA RefusalDisturbs ==
    ASSUME NEW m \in Makers, DiskRefuses(m)
    PROVE  ~Undisturbed(m)' /\ \A n \in Makers \ {m} : n \in refused' <=> n \in refused
BY DEF DiskRefuses, Undisturbed

(* A maker looks for a directory of its path. *)
LEMMA OpenDirKeeps ==
    ASSUME MkdirInv, NEW m \in Makers, OpenDir(m)
    PROVE  MkdirInv'
<1> DEFINE there == maker[m].path[1] \in mounted /\ Prefix(m) \in dirs
<1>1. /\ Making(m) /\ UNCHANGED <<mounted, dirs, overtaken>>
      /\ \/ there /\ Advance(m) /\ UNCHANGED refused
         \/ ~there /\ Missing(m) /\ UNCHANGED refused
         \/ there /\ DiskRefuses(m) /\ (Missing(m) \/ Return(m, "failed"))
  BY DEF OpenDir
<1>2. CASE there /\ Advance(m) /\ UNCHANGED refused
  <2>1. dirs' = dirs \cup {}
    BY <1>1
  <2> QED BY <1>1, <1>2, <2>1, AdvanceKeeps
<1>3. CASE ~there /\ Missing(m) /\ UNCHANGED refused
  <2>1. maker'[m].path = maker[m].path
    BY <1>1, <1>3, MakingTypes DEF Missing, MakerState
  <2>2. Undisturbed(m)' => Prefix(m) \notin dirs
    BY <1>1, <1>3, <2>1 DEF Undisturbed
  <2> QED BY <1>1, <1>3, <2>2, StayKeeps
<1>4. CASE there /\ DiskRefuses(m) /\ (Missing(m) \/ Return(m, "failed"))
  BY <1>1, <1>4, RefusalDisturbs, StayKeeps
<1> QED BY <1>1, <1>2, <1>3, <1>4

(* A maker makes a directory, or fails to. *)
LEMMA MkDirKeeps ==
    ASSUME MkdirInv, NEW m \in Makers, MkDir(m)
    PROVE  MkdirInv'
<1> DEFINE old == maker[m]
           p == Prefix(m)
<1>1. maker[m].missing /\ UNCHANGED mounted /\ (Make(m, p) \/ MkDirFails(m, p))
  BY DEF MkDir
<1>2. Making(m)
  BY <1>1 DEF MkdirInv, MkdirTypes
<1>3. CASE Make(m, p)
  <2>1. /\ Advance(m) /\ UNCHANGED refused /\ dirs' = dirs \cup {p}
        /\ overtaken' = overtaken \cup {n \in Makers \ {m} : maker[n].missing /\ Prefix(n) = p}
    BY <1>3 DEF Make
  <2> QED BY <1>1, <1>2, <2>1, AdvanceKeeps
<1>4. CASE MkDirFails(m, p)
  <2>1. /\ Return(m, "failed") /\ UNCHANGED <<dirs, overtaken>>
        /\ (~CanMake(p) /\ UNCHANGED refused) \/ DiskRefuses(m)
    BY <1>4 DEF MkDirFails
  <2>2. CASE DiskRefuses(m)
    BY <1>1, <1>2, <2>1, <2>2, RefusalDisturbs, StayKeeps
  <2>3. CASE ~CanMake(p) /\ UNCHANGED refused
    <3>1. maker'[m].path = old.path
      BY <1>2, <2>1, MakingTypes DEF Return, MakerState
    <3>2. Undisturbed(m)' => Undisturbed(m) /\ old.path[1] \in mounted
      BY <1>1, <2>1, <2>3, <3>1 DEF Undisturbed
    <3>3. old.path \in Paths /\ old.path # <<>> /\ old.at \in 2..Len(old.path)
      BY <1>2, MakingTypes
    <3>4. /\ p[1] = old.path[1] /\ Len(p) = old.at
          /\ SubSeq(p, 1, Len(p) - 1) = SubSeq(old.path, 1, old.at - 1)
      BY <3>3, PrefixOfPath DEF Prefix
    <3>5. old.at = 2 \/ SubSeq(old.path, 1, old.at - 1) \in dirs
      BY <3>3 DEF MkdirInv, HasParent
    <3>6. Undisturbed(m) => p \notin dirs
      BY <1>1 DEF MkdirInv, OnItsWay
    <3>7. ~Undisturbed(m)'
      BY <2>3, <3>2, <3>4, <3>5, <3>6 DEF CanMake
    <3> QED BY <1>1, <1>2, <2>1, <2>3, <3>7, StayKeeps
  <2> QED BY <2>1, <2>2, <2>3
<1> QED BY <1>1, <1>3, <1>4

(* Every step of the system keeps what is said of the makers. *)
LEMMA MkdirStepKeeps ==
    ASSUME MkdirInv, [SystemNext]_systemVars
    PROVE  MkdirInv'
<1>1. CASE UNCHANGED systemVars
  BY <1>1, EndKeepsMkdir DEF systemVars, mkdirVars
<1>2. CASE \E t \in Callers : SysReset(t) \/ SysShutdown(t) \/ Hang(t) \/ Finish(t)
  <2>1. UNCHANGED <<dirs, maker, refused, overtaken>> /\ mounted' \subseteq mounted
    BY <1>2 DEF SysReset, SysShutdown, Hang, Finish, Callback, StopTimer, Reset, PowerOff, mkdirVars
  <2> QED BY <2>1, EndKeepsMkdir
<1>3. CASE ResetCb
  BY <1>3, EndKeepsMkdir DEF ResetCb, mkdirVars
<1>4. CASE \E m \in Makers : MkdirP(m) \/ OpenDir(m) \/ MkDir(m)
  BY <1>4, MkdirPKeeps, OpenDirKeeps, MkDirKeeps
<1>5. CASE Boot
  <2>1. maker' = [m \in Makers |-> IdleMaker]
    BY <1>5 DEF Boot
  <2>2. MkdirTypes'
    BY <2>1, IdleMakerTypes DEF MkdirTypes
  <2>3. \A m \in Makers : HasParent(m)' /\ ~Undisturbed(m)'
    BY <2>1, IdleMakerTypes DEF HasParent, Undisturbed
  <2> QED BY <2>2, <2>3 DEF MkdirInv
<1> QED BY <1>1, <1>2, <1>3, <1>4, <1>5 DEF SystemNext, Step

(* For any makers and paths: fs_mkdir_p() fails only if the file system is  *)
(* not mounted any more, the disk refused one of its own operations, or     *)
(* another thread made a directory between its look and its fs_mkdir().     *)
THEOREM MkdirFailsOnlyByRaceHolds == SystemSpec => []MkdirFailsOnlyByRace
<1>1. MkdirInv => MkdirFailsOnlyByRace
  <2> SUFFICES ASSUME MkdirInv, NEW m \in Makers, maker[m].result = "failed"
               PROVE  maker[m].path # <<>>
    BY DEF MkdirInv, Undisturbed, OnItsWay, MkdirFailsOnlyByRace
  <2> QED BY DEF MkdirInv, MkdirTypes
<1> QED BY <1>1, InitMkdirInv, MkdirStepKeeps, PTL DEF SystemSpec

-----------------------------------------------------------------------------
(***************************************************************************)
(* Calibration.  A command that is alone on a sensor has given it the      *)
(* travel it was last given for each place of the loop that it has passed, *)
(* and then its records; a sensor that nobody works on keeps both, unless  *)
(* it is disturbed.                                                        *)
(***************************************************************************)

Travels == [Bounds -> Int]
Settings == [Bounds -> Int \cup {NULL}]
Commands ==
    [pc : {"sample", "set", "get", "save"}, kind : Kinds \cup {"save"}, target : Targets,
     i : Nat, n : Nat, val : Int, alone : SUBSET Sensors]

InLoop(c) ==
    /\ c.i \in 1..Len(c.target) /\ c.alone \subseteq SensorsOf(c.target)
    /\ c.kind = "save" <=> c.pc \in {"get", "save"}
    /\ c.kind = "save" => c.n \in {0, 1}

CalibrationTypes ==
    /\ in \in [Sensors -> Travels] /\ calibrated \in [Sensors -> Travels]
    /\ stored \in [Sensors -> Settings]
    /\ unloaded \subseteq Records /\ disturbed \subseteq Sensors
    /\ op \in [Operators -> {Idle} \cup Commands]
    /\ \A o \in Operators : op[o] # Idle => InLoop(op[o])

NotLoading(s) == \A b \in Bounds : <<s, b>> \notin unloaded

(* What a command has done to a sensor it is alone on. *)
Done(c, s) ==
    IF c.kind = "save"
      THEN /\ in[s] = calibrated[s]
           /\ \A j \in 1..c.i - 1 : c.target[j] = s => stored[s] = in[s]
           /\ c.target[c.i] = s =>
                /\ c.n = 1 => stored[s]["min"] = in[s]["min"]
                /\ c.pc = "save" => c.val = in[s][IF c.n = 0 THEN "min" ELSE "max"]
      ELSE \A j \in 1..c.i - 1 : c.target[j] = s => in[s] = calibrated[s]

(* Nobody else works on it, and nothing is loaded into it. *)
Alone ==
    \A o \in Operators : op[o] # Idle =>
      \A s \in op[o].alone : Active(s) = {o} /\ NotLoading(s) /\ Done(op[o], s)

Sharing == \A s \in Sensors \ disturbed : \A o \in Active(s) : s \in op[o].alone

(* The sensor has, or will have once its records are loaded, the travel it  *)
(* was last given.                                                          *)
Kept(s) ==
    \/ /\ stored[s] = [b \in Bounds |-> NULL] /\ in[s] = calibrated[s]
       /\ calibrated[s] = Devicetree[s]
    \/ /\ stored[s] = calibrated[s]
       /\ \A b \in Bounds : <<s, b>> \notin unloaded => in[s][b] = calibrated[s][b]

Keeping == \A s \in Sensors \ disturbed : Active(s) = {} => Kept(s)

CalibrationInv == CalibrationTypes /\ Alone /\ Sharing /\ Keeping

(* A command in progress. *)
LEMMA CommandTypes ==
    ASSUME CalibrationTypes, NEW o \in Operators
    PROVE  /\ op[o].pc = "idle" <=> op[o] = Idle
           /\ op[o] # Idle =>
                /\ op[o] \in Commands /\ InLoop(op[o])
                /\ op[o].target \in Seq(Sensors) /\ Len(op[o].target) \in Nat
                /\ SensorsOf(op[o].target) \subseteq Sensors
                /\ Current(o) \in SensorsOf(op[o].target)
                /\ \A s \in SensorsOf(op[o].target) : o \in Active(s)
<1>1. op[o] = Idle \/ (op[o] \in Commands /\ InLoop(op[o]))
  BY DEF CalibrationTypes
<1>2. op[o] = Idle => op[o].pc = "idle"
  BY DEF Idle
<1>3. ASSUME op[o] # Idle
      PROVE  /\ op[o].pc # "idle" /\ op[o].target \in Seq(Sensors)
             /\ Len(op[o].target) \in Nat /\ op[o].i \in 1..Len(op[o].target)
  BY <1>1, <1>3, CalibrationAssumption DEF Commands, InLoop
<1>4. ASSUME op[o] # Idle
      PROVE  /\ SensorsOf(op[o].target) \subseteq Sensors
             /\ Current(o) \in SensorsOf(op[o].target)
  BY <1>3, <1>4 DEF SensorsOf, Current
<1>5. ASSUME op[o] # Idle, NEW s \in SensorsOf(op[o].target) PROVE o \in Active(s)
  BY <1>3, <1>5 DEF Active
<1> QED BY <1>1, <1>2, <1>3, <1>4, <1>5

(* Who works on a sensor has it among those of the command. *)
LEMMA ActiveIs ==
    ASSUME CalibrationTypes, NEW s
    PROVE  Active(s) = {o \in Operators : op[o] # Idle /\ s \in SensorsOf(op[o].target)}
BY CommandTypes DEF Active

(* At first every sensor has the travel of its devicetree, and no records. *)
LEMMA InitCalibrationInv == CalibrationInit => CalibrationInv
<1> SUFFICES ASSUME CalibrationInit PROVE CalibrationInv
  OBVIOUS
<1>1. /\ in = Devicetree /\ calibrated = Devicetree /\ unloaded = {} /\ disturbed = {}
      /\ stored = [s \in Sensors |-> [b \in Bounds |-> NULL]]
      /\ op = [o \in Operators |-> Idle]
  BY DEF CalibrationInit
<1>2. CalibrationTypes
  BY <1>1, CalibrationAssumption DEF CalibrationTypes, Travels, Settings
<1>3. \A s : Active(s) = {}
  BY <1>1, <1>2, ActiveIs
<1>4. Alone /\ Sharing
  BY <1>1, <1>3 DEF Alone, Sharing
<1>5. Keeping
  BY <1>1 DEF Keeping, Kept
<1> QED BY <1>2, <1>4, <1>5 DEF CalibrationInv

(* A command goes on: it changes nothing but the sensor that it is at.      *)
LEMMA GoingOnKeeps ==
    ASSUME CalibrationInv, NEW o \in Operators, op[o] # Idle,
           op' \in [Operators -> {Idle} \cup Commands], \A p \in Operators \ {o} : op'[p] = op[p],
           op'[o] # Idle, InLoop(op'[o]),
           op'[o].target = op[o].target, op'[o].alone = op[o].alone,
           in' \in [Sensors -> Travels], calibrated' \in [Sensors -> Travels],
           stored' \in [Sensors -> Settings], Records \subseteq Records',
           UNCHANGED <<unloaded, disturbed>>,
           \A s \in Sensors \ {Current(o)} :
             in'[s] = in[s] /\ calibrated'[s] = calibrated[s] /\ stored'[s] = stored[s],
           \A s \in op[o].alone : Done(op[o], s)'
    PROVE  CalibrationInv'
<1>1. CalibrationTypes /\ Alone /\ Sharing /\ Keeping
  BY DEF CalibrationInv
<1>2. CalibrationTypes'
  <2>1. \A p \in Operators : op'[p] # Idle => InLoop(op'[p])
    BY <1>1 DEF CalibrationTypes
  <2>2. unloaded' \subseteq Records' /\ disturbed' \subseteq Sensors
    BY <1>1 DEF CalibrationTypes
  <2> QED BY <2>1, <2>2 DEF CalibrationTypes
<1>3. ASSUME NEW s PROVE Active(s)' = Active(s)
  <2>1. Active(s)' = {p \in Operators : op'[p] # Idle /\ s \in SensorsOf(op'[p].target)}
    <3>1. \A p \in Operators : op'[p].pc = "idle" <=> op'[p] = Idle
      BY DEF Commands, Idle
    <3> QED BY <3>1 DEF Active
  <2> QED BY <1>1, <2>1, ActiveIs
<1>4. \A s \in SensorsOf(op[o].target) : o \in Active(s)
  BY <1>1, CommandTypes
<1>5. Current(o) \in SensorsOf(op[o].target) /\ SensorsOf(op[o].target) \subseteq Sensors
  BY <1>1, CommandTypes
<1>6. Alone'
  <2> SUFFICES ASSUME NEW p \in Operators, op'[p] # Idle, NEW s \in op'[p].alone
               PROVE  Active(s)' = {p} /\ NotLoading(s)' /\ Done(op[p], s)'
    BY DEF Alone
  <2>1. op[p] # Idle /\ s \in op[p].alone
    BY <1>1
  <2>2. Active(s) = {p} /\ NotLoading(s) /\ Done(op[p], s)
    BY <1>1, <2>1 DEF Alone
  <2>3. NotLoading(s)'
    BY <2>2 DEF NotLoading
  <2>4. CASE p = o
    BY <1>3, <2>1, <2>2, <2>3, <2>4
  <2>5. CASE p # o
    <3>1. s \in Sensors \ {Current(o)}
      BY <1>1, <1>4, <1>5, <2>1, <2>2, <2>5, CommandTypes DEF InLoop
    <3>2. op'[p] = op[p] /\ in'[s] = in[s] /\ calibrated'[s] = calibrated[s] /\ stored'[s] = stored[s]
      BY <2>5, <3>1
    <3>3. Done(op[p], s)'
      BY <2>2, <3>2 DEF Done
    <3> QED BY <1>3, <2>2, <2>3, <3>3
  <2> QED BY <2>4, <2>5
<1>7. Sharing'
  <2> SUFFICES ASSUME NEW s \in Sensors \ disturbed, NEW p \in Active(s)
               PROVE  s \in op'[p].alone
    BY <1>3 DEF Sharing
  <2>1. s \in op[p].alone /\ p \in Operators
    BY <1>1 DEF Sharing, Active
  <2> QED BY <2>1
<1>8. Keeping'
  <2> SUFFICES ASSUME NEW s \in Sensors \ disturbed, Active(s) = {}
               PROVE  Kept(s)'
    BY <1>3 DEF Keeping
  <2>1. Kept(s) /\ s # Current(o)
    BY <1>1, <1>4, <1>5 DEF Keeping
  <2> QED BY <2>1 DEF Kept
<1> QED BY <1>2, <1>6, <1>7, <1>8 DEF CalibrationInv

(* A command takes another place in its loops. *)
LEMMA CommandMoves ==
    ASSUME CalibrationTypes, NEW o \in Operators, NEW c \in Commands, c.pc # "idle",
           op' = [op EXCEPT ![o] = c]
    PROVE  /\ op' \in [Operators -> {Idle} \cup Commands] /\ op'[o] = c /\ op'[o] # Idle
           /\ \A p \in Operators \ {o} : op'[p] = op[p]
BY DEF CalibrationTypes, Idle

(* The arithmetic of C stays in the integers. *)
LEMMA QuotientType == ASSUME NEW x \in Int, NEW y \in Nat \ {0} PROVE Quotient(x, y) \in Int
<1>1. Abs(x) \in Nat /\ Abs(y) \in Nat \ {0}
  BY DEF Abs
<1>2. Abs(x) \div Abs(y) \in Int
  BY <1>1
<1>3. Sign(x) \in Int /\ Sign(y) \in Int /\ Sign(x) * Sign(y) \in {-1, 1}
  BY DEF Sign
<1> QED BY <1>2, <1>3 DEF Quotient

(* So does the rounding division. *)
LEMMA RoundedType ==
    ASSUME NEW x \in Int, NEW y \in Nat \ {0} PROVE DIV_ROUND_CLOSEST(x, y) \in Int
<1>1. x + Sign(x) * Sign(y) * (y \div 2) \in Int
  BY DEF Sign
<1> QED BY <1>1, QuotientType DEF DIV_ROUND_CLOSEST

(* Calibration makes a travel of a travel. *)
LEMMA NewTravelType ==
    ASSUME NEW b \in Travels, NEW kind \in Kinds, NEW curr \in Int
    PROVE  NewTravel(b, kind, curr) \in Travels
<1>1. b["min"] \in Int /\ b["max"] \in Int
  BY DEF Travels, Bounds
<1>2. Quotient(b["min"] + b["max"], 2) \in Int /\ Quotient(b["max"] - b["min"], 2) \in Int
  BY <1>1, QuotientType
<1>3. \A center, range \in Int : Around(center, range) \in Travels
  BY DEF Around, Travels
<1>4. kind \in Bounds \/ kind \in {"center", "min_range", "max_range"}
  BY CalibrationAssumption
<1>5. CASE kind \in Bounds
  <2>1. kind # "center" /\ kind # "min_range" /\ kind # "max_range"
    BY <1>5 DEF Bounds
  <2>2. NewTravel(b, kind, curr) = [b EXCEPT ![kind] = curr]
    BY <1>5, <2>1 DEF NewTravel
  <2> QED BY <1>5, <2>2 DEF Travels
<1>6. CASE kind \in {"center", "min_range", "max_range"}
  <2>1. kind \notin Bounds
    BY <1>6 DEF Bounds
  <2>2. \/ NewTravel(b, kind, curr) = Around(curr, Quotient(b["max"] - b["min"], 2))
        \/ \E center \in Int : \/ NewTravel(b, kind, curr) = Around(center, center - curr)
                               \/ NewTravel(b, kind, curr) = Around(center, curr - center)
    BY <1>2, <1>6, <2>1 DEF NewTravel
  <2> QED BY <1>2, <1>3, <2>2
<1> QED BY <1>4, <1>5, <1>6

(* A sample, or the mean of them. *)
LEMMA SampleKeeps ==
    ASSUME CalibrationInv, NEW o \in Operators, NEW raw \in Positions, Sample(o, raw)
    PROVE  CalibrationInv'
<1>1. CalibrationTypes /\ op[o].pc = "sample" /\ op[o] # Idle
  BY CommandTypes DEF CalibrationInv, Sample, Idle
<1>2. op[o] \in Commands /\ InLoop(op[o])
  BY <1>1, CommandTypes
<1>3. PICK n \in Nat : n = op[o].n + 1
  BY <1>2 DEF Commands
<1>4. PICK sum \in Int, mean \in Int : sum = op[o].val + raw /\ mean = DIV_ROUND_CLOSEST(sum, Samples)
  <2>1. op[o].val + raw \in Int
    BY <1>2, CalibrationAssumption DEF Commands
  <2> QED BY <2>1, RoundedType, CalibrationAssumption
<1>5. PICK d : d = IF n < Samples THEN [op[o] EXCEPT !.n = n, !.val = sum]
                                  ELSE [op[o] EXCEPT !.n = n, !.val = mean, !.pc = "set"]
  OBVIOUS
<1>6. op' = [op EXCEPT ![o] = d]
  BY <1>3, <1>4, <1>5 DEF Sample
<1>7. /\ d \in Commands /\ d.pc \in {"sample", "set"}
      /\ d.kind = op[o].kind /\ d.target = op[o].target /\ d.i = op[o].i /\ d.alone = op[o].alone
  <2>1. CASE n < Samples
    <3>1. d = [op[o] EXCEPT !.n = n, !.val = sum]
      BY <1>5, <2>1
    <3> QED BY <1>1, <1>2, <3>1 DEF Commands
  <2>2. CASE ~(n < Samples)
    <3>1. d = [op[o] EXCEPT !.n = n, !.val = mean, !.pc = "set"]
      BY <1>5, <2>2
    <3> QED BY <1>2, <3>1 DEF Commands
  <2> QED BY <2>1, <2>2
<1>8. InLoop(d) /\ d.pc # "idle" /\ d.kind # "save"
  BY <1>1, <1>2, <1>7 DEF InLoop
<1>9. /\ op' \in [Operators -> {Idle} \cup Commands] /\ op'[o] = d /\ op'[o] # Idle
      /\ \A p \in Operators \ {o} : op'[p] = op[p]
  BY <1>1, <1>6, <1>7, <1>8, CommandMoves
<1>10. UNCHANGED <<in, stored, unloaded, calibrated, disturbed>>
  BY DEF Sample
<1>11. ASSUME NEW s \in op[o].alone PROVE Done(op[o], s)'
  <2>1. Done(op[o], s)
    BY <1>1, <1>11 DEF CalibrationInv, Alone
  <2> QED BY <1>7, <1>8, <1>9, <1>10, <2>1 DEF Done
<1>12. /\ in' \in [Sensors -> Travels] /\ calibrated' \in [Sensors -> Travels]
       /\ stored' \in [Sensors -> Settings] /\ Records \subseteq Records'
  BY <1>1, <1>10 DEF CalibrationTypes, Records
<1> QED BY <1>1, <1>7, <1>8, <1>9, <1>10, <1>11, <1>12, GoingOnKeeps

(* A bound is read to be saved. *)
LEMMA SaveGetKeeps ==
    ASSUME CalibrationInv, NEW o \in Operators, SaveGet(o)
    PROVE  CalibrationInv'
<1>1. CalibrationTypes /\ op[o].pc = "get" /\ op[o] # Idle
  BY CommandTypes DEF CalibrationInv, SaveGet, Idle
<1>2. op[o] \in Commands /\ InLoop(op[o]) /\ Current(o) \in Sensors
  BY <1>1, CommandTypes
<1>3. PICK val \in Int : val = in[Current(o)][SavedBound(o)]
  <2>1. SavedBound(o) \in Bounds /\ in[Current(o)] \in Travels
    BY <1>1, <1>2 DEF SavedBound, Bounds, CalibrationTypes
  <2> QED BY <2>1 DEF Travels
<1>4. PICK d : d = [op[o] EXCEPT !.val = val, !.pc = "save"]
  OBVIOUS
<1>5. op' = [op EXCEPT ![o] = d]
  BY <1>3, <1>4 DEF SaveGet
<1>6. /\ d \in Commands /\ d.pc = "save" /\ d.val = val /\ d.n = op[o].n
      /\ d.kind = op[o].kind /\ d.target = op[o].target /\ d.i = op[o].i /\ d.alone = op[o].alone
  BY <1>2, <1>4 DEF Commands
<1>7. InLoop(d) /\ d.pc # "idle" /\ op[o].kind = "save"
  BY <1>1, <1>2, <1>6 DEF InLoop
<1>8. /\ op' \in [Operators -> {Idle} \cup Commands] /\ op'[o] = d /\ op'[o] # Idle
      /\ \A p \in Operators \ {o} : op'[p] = op[p]
  BY <1>1, <1>5, <1>6, <1>7, CommandMoves
<1>9. UNCHANGED <<in, stored, unloaded, calibrated, disturbed>>
  BY DEF SaveGet
<1>10. ASSUME NEW s \in op[o].alone PROVE Done(op[o], s)'
  <2>1. Done(op[o], s)
    BY <1>1, <1>10 DEF CalibrationInv, Alone
  <2>2. d.target[d.i] = s => d.val = in[s][IF d.n = 0 THEN "min" ELSE "max"]
    BY <1>3, <1>6 DEF SavedBound, Current
  <2> QED BY <1>6, <1>7, <1>8, <1>9, <2>1, <2>2 DEF Done
<1>11. /\ in' \in [Sensors -> Travels] /\ calibrated' \in [Sensors -> Travels]
       /\ stored' \in [Sensors -> Settings] /\ Records \subseteq Records'
  BY <1>1, <1>9 DEF CalibrationTypes, Records
<1> QED BY <1>1, <1>6, <1>7, <1>8, <1>9, <1>10, <1>11, GoingOnKeeps

(* A sensor is given its travel: the next one, or the records. *)
LEMMA SetCurrKeeps ==
    ASSUME CalibrationInv, NEW o \in Operators, SetCurr(o)
    PROVE  CalibrationInv'
<1>1. CalibrationTypes /\ op[o].pc = "set" /\ op[o] # Idle
  BY CommandTypes DEF CalibrationInv, SetCurr, Idle
<1>2. /\ op[o] \in Commands /\ InLoop(op[o]) /\ Current(o) \in Sensors
      /\ op[o].target \in Seq(Sensors) /\ Len(op[o].target) \in Nat
  BY <1>1, CommandTypes
<1>3. op[o].kind \in Kinds /\ op[o].kind # "save"
  BY <1>1, <1>2 DEF Commands, InLoop
<1>4. PICK b \in Travels : b = NewTravel(in[Current(o)], op[o].kind, op[o].val)
  BY <1>1, <1>2, <1>3, NewTravelType DEF CalibrationTypes, Commands
<1>5. /\ in' = [in EXCEPT ![Current(o)] = b]
      /\ calibrated' = [calibrated EXCEPT ![Current(o)] = b]
      /\ UNCHANGED <<stored, unloaded, disturbed>>
  BY <1>1, <1>2, <1>4 DEF SetCurr, CalibrationTypes
<1>6. PICK i \in Nat, one \in Nat, zero \in Nat, none \in Int :
      i = op[o].i + 1 /\ one = 1 /\ zero = 0 /\ none = 0
  BY <1>2 DEF Commands
<1>7. PICK d : d = IF IsLast(o)
                     THEN [op[o] EXCEPT !.pc = "get", !.kind = "save", !.i = one, !.n = zero, !.val = none]
                     ELSE [op[o] EXCEPT !.i = i, !.pc = "sample", !.n = zero, !.val = none]
  OBVIOUS
<1>8. op' = [op EXCEPT ![o] = d]
  BY <1>6, <1>7 DEF SetCurr, StartSave, NextSensor
<1>9. /\ d \in Commands /\ d.pc # "idle" /\ d.target = op[o].target /\ d.alone = op[o].alone
      /\ d.n = 0
      /\ IF IsLast(o) THEN d.pc = "get" /\ d.kind = "save" /\ d.i = 1
                      ELSE d.pc = "sample" /\ d.kind = op[o].kind /\ d.i = i
  <2>1. CASE IsLast(o)
    <3>1. d = [op[o] EXCEPT !.pc = "get", !.kind = "save", !.i = one, !.n = zero, !.val = none]
      BY <1>7, <2>1
    <3>2. op[o] \in Commands
      BY <1>2
    <3>3. /\ d \in Commands /\ d.pc = "get" /\ d.kind = "save" /\ d.i = one /\ d.n = zero
          /\ d.target = op[o].target /\ d.alone = op[o].alone
      BY <3>1, <3>2 DEF Commands
    <3> QED BY <1>6, <2>1, <3>3
  <2>2. CASE ~IsLast(o)
    <3>1. d = [op[o] EXCEPT !.i = i, !.pc = "sample", !.n = zero, !.val = none]
      BY <1>7, <2>2
    <3>2. op[o] \in Commands
      BY <1>2
    <3>3. /\ d \in Commands /\ d.pc = "sample" /\ d.kind = op[o].kind /\ d.i = i /\ d.n = zero
          /\ d.target = op[o].target /\ d.alone = op[o].alone
      BY <3>1, <3>2 DEF Commands
    <3> QED BY <1>6, <2>2, <3>3
  <2> QED BY <2>1, <2>2
<1>10. InLoop(d)
  BY <1>2, <1>3, <1>6, <1>9 DEF InLoop, IsLast
<1>11. /\ op' \in [Operators -> {Idle} \cup Commands] /\ op'[o] = d /\ op'[o] # Idle
       /\ \A p \in Operators \ {o} : op'[p] = op[p]
  BY <1>1, <1>8, <1>9, CommandMoves
<1>12. /\ in' \in [Sensors -> Travels] /\ calibrated' \in [Sensors -> Travels]
       /\ stored' \in [Sensors -> Settings] /\ Records \subseteq Records'
       /\ in'[Current(o)] = calibrated'[Current(o)]
       /\ \A s \in Sensors \ {Current(o)} :
            in'[s] = in[s] /\ calibrated'[s] = calibrated[s] /\ stored'[s] = stored[s]
  BY <1>1, <1>2, <1>5 DEF CalibrationTypes, Records
<1>13. ASSUME NEW s \in op[o].alone PROVE Done(op[o], s)'
  <2>1. Done(op[o], s) /\ s \in SensorsOf(op[o].target) /\ s \in Sensors
    BY <1>1, <1>2, <1>13, CommandTypes DEF CalibrationInv, Alone, InLoop
  <2>2. ASSUME NEW j \in 1..op[o].i, op[o].target[j] = s PROVE in'[s] = calibrated'[s]
    <3>1. CASE s = Current(o)
      BY <1>12, <3>1
    <3>2. CASE s # Current(o)
      <4>1. j \in 1..op[o].i - 1
        BY <1>2, <2>2, <3>2 DEF Current, Commands
      <4>2. in[s] = calibrated[s]
        BY <1>3, <2>1, <2>2, <4>1 DEF Done
      <4> QED BY <1>12, <2>1, <3>2, <4>2
    <3> QED BY <3>1, <3>2
  <2>3. CASE IsLast(o)
    <3>1. in'[s] = calibrated'[s]
      BY <1>2, <2>1, <2>2, <2>3 DEF SensorsOf, IsLast
    <3> QED BY <1>9, <1>11, <2>3, <3>1 DEF Done
  <2>4. CASE ~IsLast(o)
    <3>1. \A j \in 1..d.i - 1 : d.target[j] = s => in'[s] = calibrated'[s]
      BY <1>2, <1>6, <1>9, <2>2, <2>4 DEF Commands
    <3> QED BY <1>3, <1>9, <1>11, <2>4, <3>1 DEF Done
  <2> QED BY <2>3, <2>4
<1> QED BY <1>1, <1>5, <1>9, <1>10, <1>11, <1>12, <1>13, GoingOnKeeps

(* A command ends: its sensors have become disturbed, or have kept both.   *)
LEMMA EndingKeeps ==
    ASSUME CalibrationInv, NEW o \in Operators, op[o] # Idle,
           op' \in [Operators -> {Idle} \cup Commands], \A p \in Operators \ {o} : op'[p] = op[p],
           op'[o] = Idle, stored' \in [Sensors -> Settings], Records \subseteq Records',
           UNCHANGED <<in, unloaded, calibrated>>,
           \A s \in Sensors \ {Current(o)} : stored'[s] = stored[s],
           \/ disturbed' = disturbed \cup SensorsOf(op[o].target)
           \/ /\ disturbed' = disturbed \ op[o].alone
              /\ \A s \in op[o].alone : stored'[s] = calibrated[s] /\ in[s] = calibrated[s]
    PROVE  CalibrationInv'
<1>1. CalibrationTypes /\ Alone /\ Sharing /\ Keeping
  BY DEF CalibrationInv
<1>2. /\ SensorsOf(op[o].target) \subseteq Sensors /\ Current(o) \in SensorsOf(op[o].target)
      /\ op[o].alone \subseteq SensorsOf(op[o].target)
  BY <1>1, CommandTypes DEF InLoop
<1>3. CalibrationTypes'
  <2>1. \A p \in Operators : op'[p] # Idle => InLoop(op'[p])
    BY <1>1 DEF CalibrationTypes
  <2>2. unloaded' \subseteq Records' /\ disturbed' \subseteq Sensors
    BY <1>1, <1>2 DEF CalibrationTypes
  <2> QED BY <1>1, <2>1, <2>2 DEF CalibrationTypes
<1>4. ASSUME NEW s PROVE Active(s)' = Active(s) \ {o}
  <2>1. Active(s)' = {p \in Operators : op'[p] # Idle /\ s \in SensorsOf(op'[p].target)}
    <3>1. \A p \in Operators : op'[p].pc = "idle" <=> op'[p] = Idle
      BY DEF Commands, Idle
    <3> QED BY <3>1 DEF Active
  <2> QED BY <1>1, <2>1, ActiveIs
<1>5. \A s : s \in SensorsOf(op[o].target) <=> o \in Active(s)
  BY <1>1, ActiveIs
<1>6. Alone'
  <2> SUFFICES ASSUME NEW p \in Operators, op'[p] # Idle, NEW s \in op'[p].alone
               PROVE  Active(s)' = {p} /\ NotLoading(s)' /\ Done(op[p], s)'
    BY DEF Alone
  <2>1. p # o /\ op'[p] = op[p]
    OBVIOUS
  <2>2. Active(s) = {p} /\ NotLoading(s) /\ Done(op[p], s)
    BY <1>1, <2>1 DEF Alone
  <2>3. s \in Sensors \ {Current(o)}
    BY <1>1, <1>2, <1>5, <2>1, <2>2, CommandTypes DEF InLoop
  <2>4. Done(op[p], s)'
    BY <2>1, <2>2, <2>3 DEF Done
  <2> QED BY <1>4, <2>1, <2>2, <2>4 DEF NotLoading
<1>7. Sharing'
  <2> SUFFICES ASSUME NEW s \in Sensors \ disturbed', NEW p \in Active(s)'
               PROVE  s \in op'[p].alone
    BY DEF Sharing
  <2>1. p \in Active(s) /\ p # o /\ p \in Operators
    BY <1>4 DEF Active
  <2>2. s \notin disturbed
    <3>1. s \notin op[o].alone
      BY <1>1, <2>1 DEF Alone
    <3> QED BY <3>1
  <2> QED BY <1>1, <2>1, <2>2 DEF Sharing
<1>8. Keeping'
  <2> SUFFICES ASSUME NEW s \in Sensors \ disturbed', Active(s)' = {}
               PROVE  Kept(s)'
    BY DEF Keeping
  <2>1. CASE o \notin Active(s)
    <3>1. Active(s) = {} /\ s \notin disturbed /\ s # Current(o)
      BY <1>2, <1>4, <1>5, <2>1
    <3>2. Kept(s) /\ stored'[s] = stored[s]
      BY <1>1, <3>1 DEF Keeping
    <3> QED BY <3>2 DEF Kept
  <2>2. CASE o \in Active(s)
    <3>1. s \in op[o].alone /\ disturbed' = disturbed \ op[o].alone
      BY <1>1, <1>5, <2>2 DEF Sharing
    <3>2. stored'[s] = calibrated[s] /\ in[s] = calibrated[s]
      BY <1>2, <1>5, <2>2, <3>1
    <3> QED BY <3>2 DEF Kept
  <2> QED BY <2>1, <2>2
<1> QED BY <1>3, <1>6, <1>7, <1>8 DEF CalibrationInv

(* An error ends a command. *)
LEMMA FailsKeeps ==
    ASSUME CalibrationInv, NEW o \in Operators, op[o] # Idle, Fails(o)
    PROVE  CalibrationInv'
<1>1. CalibrationTypes
  BY DEF CalibrationInv
<1>2. /\ op' \in [Operators -> {Idle} \cup Commands] /\ op'[o] = Idle
      /\ \A p \in Operators \ {o} : op'[p] = op[p]
  BY <1>1 DEF CalibrationTypes, Fails
<1>3. /\ UNCHANGED <<in, stored, unloaded, calibrated>>
      /\ disturbed' = disturbed \cup SensorsOf(op[o].target)
  BY DEF Fails
<1>4. stored' \in [Sensors -> Settings] /\ Records \subseteq Records'
  BY <1>1, <1>3 DEF CalibrationTypes, Records
<1> QED BY <1>2, <1>3, <1>4, EndingKeeps

(* What a command has done to its records once it has saved a bound.       *)
LEMMA SavesBound ==
    ASSUME CalibrationInv, NEW o \in Operators, SaveOne(o), NEW s \in op[o].alone
    PROVE  /\ in[s] = calibrated[s]
           /\ \A j \in 1..op[o].i - 1 : op[o].target[j] = s => stored'[s] = in[s]
           /\ op[o].target[op[o].i] = s =>
                /\ stored'[s]["min"] = in[s]["min"]
                /\ op[o].n = 1 => stored'[s] = in[s]
<1>1. CalibrationTypes /\ Alone /\ op[o].pc = "save" /\ op[o] # Idle
  BY CommandTypes DEF CalibrationInv, SaveOne, Idle
<1>2. /\ op[o] \in Commands /\ InLoop(op[o]) /\ Current(o) \in Sensors /\ op[o].kind = "save"
      /\ s \in Sensors
  BY <1>1, CommandTypes DEF InLoop
<1>3. Done(op[o], s) /\ in[s] \in Travels /\ stored[s] \in Settings /\ op[o].n \in {0, 1}
  BY <1>1, <1>2 DEF Alone, CalibrationTypes, InLoop
<1>4. /\ in[s] = calibrated[s]
      /\ \A j \in 1..op[o].i - 1 : op[o].target[j] = s => stored[s] = in[s]
      /\ op[o].target[op[o].i] = s =>
           /\ op[o].n = 1 => stored[s]["min"] = in[s]["min"]
           /\ op[o].val = in[s][IF op[o].n = 0 THEN "min" ELSE "max"]
  BY <1>1, <1>2, <1>3 DEF Done
<1>5. CASE Current(o) # s
  <2>1. stored'[s] = stored[s]
    BY <1>1, <1>2, <1>5 DEF SaveOne, CalibrationTypes
  <2> QED BY <1>4, <1>5, <2>1 DEF Current
<1>6. CASE Current(o) = s
  <2>1. stored'[s] = [stored[s] EXCEPT ![IF op[o].n = 0 THEN "min" ELSE "max"] = op[o].val]
    BY <1>1, <1>2, <1>6 DEF SaveOne, CalibrationTypes, SavedBound
  <2>2. op[o].val = in[s][IF op[o].n = 0 THEN "min" ELSE "max"]
    BY <1>4, <1>6 DEF Current
  <2>3. ASSUME stored[s] = in[s] PROVE stored'[s] = in[s]
    BY <1>3, <2>1, <2>2, <2>3 DEF Travels, Settings
  <2>4. ASSUME op[o].n = 0 PROVE stored'[s]["min"] = in[s]["min"]
    BY <1>3, <2>1, <2>2, <2>4 DEF Settings, Bounds
  <2>5. ASSUME op[o].n = 1 PROVE stored'[s] = in[s]
    <3>1. stored'[s]["max"] = in[s]["max"] /\ stored'[s]["min"] = in[s]["min"]
      BY <1>3, <1>4, <1>6, <2>1, <2>2, <2>5 DEF Settings, Bounds, Current
    <3>2. DOMAIN stored'[s] = Bounds /\ DOMAIN in[s] = Bounds
      BY <1>3, <2>1 DEF Settings, Travels
    <3>3. /\ stored'[s] = [b \in Bounds |-> stored'[s][b]] /\ in[s] = [b \in Bounds |-> in[s][b]]
      BY <1>3, <2>1, <3>2 DEF Settings, Travels
    <3> QED BY <3>1, <3>3 DEF Bounds
  <2> QED BY <1>3, <1>4, <2>3, <2>4, <2>5
<1> QED BY <1>5, <1>6

(* A bound is saved: the other one, the next sensor, or the end. *)
LEMMA SaveOneKeeps ==
    ASSUME CalibrationInv, NEW o \in Operators, SaveOne(o)
    PROVE  CalibrationInv'
<1>1. CalibrationTypes /\ op[o].pc = "save" /\ op[o] # Idle
  BY CommandTypes DEF CalibrationInv, SaveOne, Idle
<1>2. /\ op[o] \in Commands /\ InLoop(op[o]) /\ Current(o) \in Sensors
      /\ op[o].target \in Seq(Sensors) /\ Len(op[o].target) \in Nat
  BY <1>1, CommandTypes
<1>3. op[o].kind = "save" /\ op[o].n \in {0, 1}
  BY <1>1, <1>2 DEF InLoop
<1>4. UNCHANGED <<in, unloaded, calibrated>>
  BY DEF SaveOne
<1>5. /\ stored' \in [Sensors -> Settings] /\ Records \subseteq Records'
      /\ \A s \in Sensors \ {Current(o)} : stored'[s] = stored[s]
  <2>1. stored' = [stored EXCEPT ![Current(o)][SavedBound(o)] = op[o].val]
    BY DEF SaveOne
  <2>2. op[o].val \in Int /\ op[o].val # NULL
    BY <1>2, CalibrationAssumption DEF Commands
  <2>3. stored \in [Sensors -> Settings]
    BY <1>1 DEF CalibrationTypes
  <2>4. stored' \in [Sensors -> Settings]
    BY <1>2, <2>1, <2>2, <2>3 DEF Settings
  <2>5. \A s \in Sensors, b \in Bounds : stored[s][b] # NULL => stored'[s][b] # NULL
    BY <1>2, <2>1, <2>2, <2>3 DEF Settings
  <2>6. Records \subseteq Records'
    BY <2>5 DEF Records
  <2> QED BY <1>2, <2>1, <2>3, <2>4, <2>6
<1>6. CASE op[o].n = 1 /\ IsLast(o)
  <2>1. op' = [op EXCEPT ![o] = Idle]
    BY <1>6 DEF SaveOne
  <2>2. /\ op' \in [Operators -> {Idle} \cup Commands] /\ op'[o] = Idle
        /\ \A p \in Operators \ {o} : op'[p] = op[p]
    BY <1>1, <2>1 DEF CalibrationTypes
  <2>3. disturbed' = disturbed \ op[o].alone
    BY <2>2 DEF SaveOne
  <2>4. ASSUME NEW s \in op[o].alone PROVE stored'[s] = calibrated[s] /\ in[s] = calibrated[s]
    <3>1. s \in SensorsOf(op[o].target)
      BY <1>2 DEF InLoop
    <3>2. PICK j \in 1..op[o].i : op[o].target[j] = s
      BY <1>2, <1>6, <3>1 DEF SensorsOf, IsLast
    <3>3. j \in 1..op[o].i - 1 \/ j = op[o].i
      BY <1>2, <3>2 DEF Commands
    <3> QED BY <1>6, <3>2, <3>3, SavesBound
  <2> QED BY <1>1, <1>4, <1>5, <2>2, <2>3, <2>4, EndingKeeps
<1>7. CASE op[o].n = 0 \/ ~IsLast(o)
  <2>1. PICK i \in Nat, one \in Nat, zero \in Nat, none \in Int :
        i = op[o].i + 1 /\ one = 1 /\ zero = 0 /\ none = 0
    BY <1>2 DEF Commands
  <2>2. PICK d : d = IF op[o].n = 0 THEN [op[o] EXCEPT !.n = one, !.val = none, !.pc = "get"]
                     ELSE [op[o] EXCEPT !.i = i, !.pc = "get", !.n = zero, !.val = none]
    OBVIOUS
  <2>3. op' = [op EXCEPT ![o] = d]
    <3>1. CASE op[o].n = 0
      BY <2>1, <2>2, <3>1 DEF SaveOne
    <3>2. CASE op[o].n # 0
      BY <1>7, <2>1, <2>2, <3>2 DEF SaveOne, NextSensor
    <3> QED BY <3>1, <3>2
  <2>4. /\ d \in Commands /\ d.pc = "get" /\ d.kind = "save"
        /\ d.target = op[o].target /\ d.alone = op[o].alone
        /\ \/ op[o].n = 0 /\ d.n = 1 /\ d.i = op[o].i
           \/ op[o].n = 1 /\ d.n = 0 /\ d.i = i
    <3>1. CASE op[o].n = 0
      <4>1. d = [op[o] EXCEPT !.n = one, !.val = none, !.pc = "get"]
        BY <2>2, <3>1
      <4>2. op[o] \in Commands
        BY <1>2
      <4>3. /\ d \in Commands /\ d.pc = "get" /\ d.kind = op[o].kind /\ d.i = op[o].i /\ d.n = one
            /\ d.target = op[o].target /\ d.alone = op[o].alone
        BY <4>1, <4>2 DEF Commands
      <4> QED BY <1>3, <2>1, <3>1, <4>3
    <3>2. CASE op[o].n # 0
      <4>1. d = [op[o] EXCEPT !.i = i, !.pc = "get", !.n = zero, !.val = none]
        BY <2>2, <3>2
      <4>2. op[o] \in Commands
        BY <1>2
      <4>3. /\ d \in Commands /\ d.pc = "get" /\ d.kind = op[o].kind /\ d.i = i /\ d.n = zero
            /\ d.target = op[o].target /\ d.alone = op[o].alone
        BY <4>1, <4>2 DEF Commands
      <4> QED BY <1>3, <2>1, <3>2, <4>3
    <3> QED BY <3>1, <3>2
  <2>5. InLoop(d) /\ d.pc # "idle"
    BY <1>2, <1>7, <2>1, <2>4 DEF InLoop, IsLast
  <2>6. /\ op' \in [Operators -> {Idle} \cup Commands] /\ op'[o] = d /\ op'[o] # Idle
        /\ \A p \in Operators \ {o} : op'[p] = op[p]
    BY <1>1, <2>3, <2>4, <2>5, CommandMoves
  <2>7. disturbed' = disturbed
    BY <2>6 DEF SaveOne
  <2>8. ASSUME NEW s \in op[o].alone PROVE Done(op[o], s)'
    <3>1. /\ in[s] = calibrated[s]
          /\ \A j \in 1..op[o].i - 1 : op[o].target[j] = s => stored'[s] = in[s]
          /\ op[o].target[op[o].i] = s =>
                /\ stored'[s]["min"] = in[s]["min"]
                /\ op[o].n = 1 => stored'[s] = in[s]
      BY <2>8, SavesBound
    <3>2. \A j \in 1..d.i - 1 : d.target[j] = s => stored'[s] = in[s]
      <4>1. CASE d.i = op[o].i
        BY <2>4, <3>1, <4>1
      <4>2. CASE op[o].n = 1 /\ d.i = i
        <5>1. \A j \in 1..d.i - 1 : j \in 1..op[o].i - 1 \/ j = op[o].i
          BY <1>2, <2>1, <4>2 DEF Commands
        <5> QED BY <2>4, <3>1, <4>2, <5>1
      <4> QED BY <2>4, <4>1, <4>2
    <3>3. d.target[d.i] = s => (d.n = 1 => stored'[s]["min"] = in[s]["min"])
      BY <2>4, <3>1
    <3> QED BY <1>4, <2>4, <2>6, <3>1, <3>2, <3>3 DEF Done
  <2>9. in' \in [Sensors -> Travels] /\ calibrated' \in [Sensors -> Travels]
    BY <1>1, <1>4 DEF CalibrationTypes
  <2> QED BY <1>1, <1>4, <1>5, <2>4, <2>5, <2>6, <2>7, <2>8, <2>9, GoingOnKeeps
<1> QED BY <1>3, <1>6, <1>7

(* A command is given: it is alone on the sensors that were free.          *)
LEMMA CommandKeeps ==
    ASSUME CalibrationInv, NEW o \in Operators, NEW kind \in Kinds, NEW target \in Targets,
           Command(o, kind, target)
    PROVE  CalibrationInv'
<1> DEFINE free == {s \in SensorsOf(target) :
                      Active(s) = {} /\ \A b \in Bounds : <<s, b>> \notin unloaded}
           new == [pc |-> "sample", kind |-> kind, target |-> target,
                   i |-> 1, n |-> 0, val |-> 0, alone |-> free]
<1>1. CalibrationTypes /\ Alone /\ Sharing /\ Keeping
  BY DEF CalibrationInv
<1>2. /\ op[o] = Idle
      /\ UNCHANGED <<in, stored, unloaded, calibrated>>
      /\ disturbed' = disturbed \cup (SensorsOf(target) \ free)
      /\ op' = [p \in Operators |->
                  CASE p = o -> new
                    [] op[p].pc # "idle" -> [op[p] EXCEPT !.alone = @ \ SensorsOf(target)]
                    [] OTHER -> op[p]]
  BY <1>1, CommandTypes DEF Command
<1>3. /\ target \in Seq(Sensors) /\ Len(target) \in Nat /\ Len(target) # 0
      /\ SensorsOf(target) \subseteq Sensors
  BY CalibrationAssumption DEF SensorsOf
<1>4. /\ op'[o] = new /\ new \in Commands /\ new # Idle /\ InLoop(new)
  <2>1. free \in SUBSET Sensors
    BY <1>3
  <2>2. new \in Commands
    BY <2>1 DEF Commands
  <2>3. InLoop(new)
    BY <1>3, CalibrationAssumption DEF InLoop, Bounds
  <2>4. new # Idle
    <3>1. new.pc # Idle.pc
      BY DEF Idle
    <3> QED BY <3>1
  <2> HIDE DEF new
  <2>5. op'[o] = new
    <3>1. op[o].pc = "idle"
      BY <1>2 DEF Idle
    <3>2. op'[o] = CASE o = o -> new
                     [] op[o].pc # "idle" -> [op[o] EXCEPT !.alone = @ \ SensorsOf(target)]
                     [] OTHER -> op[o]
      BY <1>2
    <3> QED BY <3>1, <3>2
  <2> QED BY <2>2, <2>3, <2>4, <2>5
<1>5. ASSUME NEW p \in Operators \ {o}, op[p] = Idle PROVE op'[p] = Idle
  BY <1>1, <1>2, <1>5, CommandTypes
<1>6. ASSUME NEW p \in Operators \ {o}, op[p] # Idle
      PROVE  /\ op'[p] \in Commands /\ op'[p] # Idle /\ InLoop(op'[p])
             /\ op'[p].pc = op[p].pc /\ op'[p].kind = op[p].kind /\ op'[p].target = op[p].target
             /\ op'[p].i = op[p].i /\ op'[p].n = op[p].n /\ op'[p].val = op[p].val
             /\ op'[p].alone = op[p].alone \ SensorsOf(target)
  <2>1. op[p] \in Commands /\ InLoop(op[p]) /\ op[p].pc # "idle"
    BY <1>1, <1>6, CommandTypes
  <2>2. PICK alone \in SUBSET Sensors : alone = op[p].alone \ SensorsOf(target)
    BY <2>1 DEF Commands
  <2>3. op'[p] = [op[p] EXCEPT !.alone = alone]
    BY <1>2, <1>6, <2>1, <2>2
  <2>4. /\ op'[p] \in Commands
        /\ op'[p].pc = op[p].pc /\ op'[p].kind = op[p].kind /\ op'[p].target = op[p].target
        /\ op'[p].i = op[p].i /\ op'[p].n = op[p].n /\ op'[p].val = op[p].val
        /\ op'[p].alone = alone
    BY <2>1, <2>3 DEF Commands
  <2>5. op'[p] # Idle
    BY <2>1, <2>4 DEF Idle
  <2> QED BY <2>1, <2>2, <2>4, <2>5 DEF InLoop
<1>7. op' \in [Operators -> {Idle} \cup Commands]
  <2>1. \A p \in Operators : op'[p] \in {Idle} \cup Commands
    BY <1>4, <1>5, <1>6
  <2> QED BY <1>2, <2>1
<1>8. CalibrationTypes'
  <2>1. \A p \in Operators : op'[p] # Idle => InLoop(op'[p])
    BY <1>4, <1>5, <1>6
  <2>2. Records' = Records
    BY <1>2 DEF Records
  <2> QED BY <1>1, <1>2, <1>3, <1>7, <2>1, <2>2 DEF CalibrationTypes
<1>9. ASSUME NEW s
      PROVE  Active(s)' = Active(s) \cup (IF s \in SensorsOf(target) THEN {o} ELSE {})
  <2>1. Active(s)' = {p \in Operators : op'[p] # Idle /\ s \in SensorsOf(op'[p].target)}
    <3>1. \A p \in Operators : op'[p].pc = "idle" <=> op'[p] = Idle
      BY <1>7 DEF Commands, Idle
    <3> QED BY <3>1 DEF Active
  <2>2. Active(s) = {p \in Operators : op[p] # Idle /\ s \in SensorsOf(op[p].target)}
    BY <1>1, ActiveIs
  <2>3. \A p \in Operators \ {o} : p \in Active(s)' <=> p \in Active(s)
    BY <1>5, <1>6, <2>1, <2>2
  <2>4. o \notin Active(s) /\ (o \in Active(s)' <=> s \in SensorsOf(target))
    BY <1>2, <1>4, <2>1, <2>2
  <2> QED BY <2>1, <2>2, <2>3, <2>4
<1>10. Alone'
  <2> SUFFICES ASSUME NEW p \in Operators, op'[p] # Idle, NEW s \in op'[p].alone
               PROVE  Active(s)' = {p} /\ NotLoading(s)' /\ Done(op[p], s)'
    BY DEF Alone
  <2>1. CASE p = o
    <3>1. s \in SensorsOf(target) /\ Active(s) = {} /\ NotLoading(s)
      BY <1>4, <2>1 DEF NotLoading
    <3>2. Active(s)' = {o} /\ NotLoading(s)'
      BY <1>2, <1>9, <3>1 DEF NotLoading
    <3>3. op'[o].kind # "save" /\ op'[o].i = 1
      BY <1>4, CalibrationAssumption DEF Bounds
    <3>4. \A j \in 1..op'[o].i - 1 : FALSE
      BY <3>3
    <3>5. Done(op[p], s)'
      BY <2>1, <3>3, <3>4 DEF Done
    <3> QED BY <2>1, <3>2, <3>5
  <2>2. CASE p # o
    <3>1. op[p] # Idle /\ s \in op[p].alone \ SensorsOf(target)
      BY <1>5, <1>6, <2>2
    <3>2. Active(s) = {p} /\ NotLoading(s) /\ Done(op[p], s)
      BY <1>1, <3>1 DEF Alone
    <3>3. Done(op[p], s)'
      BY <1>2, <1>6, <2>2, <3>1, <3>2 DEF Done
    <3> QED BY <1>2, <1>9, <3>1, <3>2, <3>3 DEF NotLoading
  <2> QED BY <2>1, <2>2
<1>11. Sharing'
  <2> SUFFICES ASSUME NEW s \in Sensors \ disturbed', NEW p \in Active(s)'
               PROVE  s \in op'[p].alone
    BY DEF Sharing
  <2>1. s \in Sensors \ disturbed /\ (s \in SensorsOf(target) => s \in free)
    BY <1>2
  <2>2. CASE p = o
    <3>1. s \in SensorsOf(target)
      BY <1>1, <1>2, <1>9, <2>2, ActiveIs
    <3> QED BY <1>4, <2>1, <2>2, <3>1
  <2>3. CASE p # o
    <3>1. p \in Active(s) /\ p \in Operators /\ op[p] # Idle
      BY <1>1, <1>9, <2>3, ActiveIs
    <3>2. s \in op[p].alone /\ s \notin SensorsOf(target)
      BY <1>1, <2>1, <3>1 DEF Sharing
    <3> QED BY <1>6, <2>3, <3>1, <3>2
  <2> QED BY <2>2, <2>3
<1>12. Keeping'
  <2> SUFFICES ASSUME NEW s \in Sensors \ disturbed', Active(s)' = {} PROVE Kept(s)'
    BY DEF Keeping
  <2>1. Active(s) = {} /\ s \notin disturbed
    BY <1>2, <1>9
  <2>2. Kept(s)
    BY <1>1, <2>1 DEF Keeping
  <2> QED BY <1>2, <2>2 DEF Kept
<1> QED BY <1>8, <1>10, <1>11, <1>12 DEF CalibrationInv

(* A reset ends all commands; the records of a sensor are still to load.   *)
LEMMA CalibrationRestartKeeps == ASSUME CalibrationInv, Restart PROVE CalibrationInv'
<1>1. CalibrationTypes /\ Keeping
  BY DEF CalibrationInv
<1>2. /\ in' = Devicetree /\ op' = [o \in Operators |-> Idle]
      /\ unloaded' = Records /\ UNCHANGED <<stored, calibrated>>
      /\ disturbed' = disturbed \cup {s \in Sensors : Active(s) # {} \/ ~NotLoading(s)}
  BY DEF Restart, NotLoading
<1>3. CalibrationTypes'
  <2>1. Records' = Records
    BY <1>2 DEF Records
  <2> QED BY <1>1, <1>2, <2>1, CalibrationAssumption DEF CalibrationTypes, Travels
<1>4. \A s : Active(s)' = {}
  BY <1>2 DEF Active, Idle
<1>5. Alone' /\ Sharing'
  BY <1>2, <1>4 DEF Alone, Sharing
<1>6. Keeping'
  <2> SUFFICES ASSUME NEW s \in Sensors \ disturbed' PROVE Kept(s)'
    BY DEF Keeping
  <2>1. Kept(s) /\ s \in Sensors
    BY <1>1, <1>2 DEF Keeping
  <2>2. CASE stored[s] = [b \in Bounds |-> NULL] /\ calibrated[s] = Devicetree[s]
    BY <1>2, <2>2 DEF Kept
  <2>3. CASE stored[s] = calibrated[s]
    <3>1. \A b \in Bounds : stored[s][b] # NULL
      BY <1>1, <2>1, <2>3, CalibrationAssumption DEF CalibrationTypes, Travels
    <3>2. \A b \in Bounds : <<s, b>> \in unloaded'
      BY <1>2, <2>1, <3>1 DEF Records
    <3> QED BY <1>2, <2>3, <3>2 DEF Kept
  <2> QED BY <2>1, <2>2, <2>3 DEF Kept
<1> QED BY <1>3, <1>5, <1>6 DEF CalibrationInv

(* A record is loaded, or cannot be read. *)
LEMMA LoadingKeeps ==
    ASSUME CalibrationInv, NEW r \in Sensors \X Bounds, Load(r) \/ LoadFails(r)
    PROVE  CalibrationInv'
<1>1. CalibrationTypes /\ Alone /\ Sharing /\ Keeping
  BY DEF CalibrationInv
<1>2. /\ r \in unloaded /\ unloaded' = unloaded \ {r}
      /\ UNCHANGED <<stored, op, calibrated>>
      /\ \/ in' = [in EXCEPT ![r[1]][r[2]] = stored[r[1]][r[2]]] /\ disturbed' = disturbed
         \/ in' = in /\ disturbed' = disturbed \cup {r[1]}
  BY DEF Load, LoadFails
<1>3. r[1] \in Sensors /\ r[2] \in Bounds /\ stored[r[1]][r[2]] \in Int
  BY <1>1, <1>2 DEF CalibrationTypes, Records, Settings
<1>4. CalibrationTypes'
  <2>1. Records' = Records
    BY <1>2 DEF Records
  <2>2. in' \in [Sensors -> Travels]
    BY <1>1, <1>2, <1>3 DEF CalibrationTypes, Travels
  <2>3. \A o \in Operators : op'[o] # Idle => InLoop(op'[o])
    BY <1>1, <1>2 DEF CalibrationTypes
  <2> QED BY <1>1, <1>2, <1>3, <2>1, <2>2, <2>3 DEF CalibrationTypes
<1>5. \A s : Active(s)' = Active(s)
  BY <1>2 DEF Active
<1>6. ASSUME NEW s \in Sensors, s # r[1]
      PROVE  in'[s] = in[s] /\ \A b \in Bounds : <<s, b>> \in unloaded' <=> <<s, b>> \in unloaded
  <2>1. in'[s] = in[s]
    BY <1>1, <1>2, <1>3, <1>6 DEF CalibrationTypes
  <2>2. \A b \in Bounds : <<s, b>> # r
    BY <1>6
  <2> QED BY <1>2, <2>1, <2>2
<1>7. Alone'
  <2> SUFFICES ASSUME NEW o \in Operators, op[o] # Idle, NEW s \in op[o].alone
               PROVE  Active(s)' = {o} /\ NotLoading(s)' /\ Done(op[o], s)'
    BY <1>2 DEF Alone
  <2>1. Active(s) = {o} /\ NotLoading(s) /\ Done(op[o], s) /\ s \in Sensors
    BY <1>1, CommandTypes DEF Alone, InLoop
  <2>2. s # r[1]
    <3>1. r = <<r[1], r[2]>>
      OBVIOUS
    <3> QED BY <1>2, <1>3, <2>1, <3>1 DEF NotLoading
  <2>3. NotLoading(s)' /\ in'[s] = in[s]
    BY <1>6, <2>1, <2>2 DEF NotLoading
  <2>4. Done(op[o], s)'
    BY <1>2, <2>1, <2>3 DEF Done
  <2> QED BY <1>5, <2>1, <2>3, <2>4
<1>8. Sharing'
  BY <1>1, <1>2, <1>5 DEF Sharing
<1>9. Keeping'
  <2> SUFFICES ASSUME NEW s \in Sensors \ disturbed', Active(s) = {} PROVE Kept(s)'
    BY <1>5 DEF Keeping
  <2>1. Kept(s) /\ s \notin disturbed
    BY <1>1, <1>2 DEF Keeping
  <2>2. CASE s # r[1]
    BY <1>2, <1>6, <2>1, <2>2 DEF Kept
  <2>3. CASE s = r[1]
    <3>1. in' = [in EXCEPT ![s][r[2]] = stored[s][r[2]]]
      BY <1>2, <2>3
    <3>2. stored[s] # [b \in Bounds |-> NULL]
      BY <1>3, <2>3, CalibrationAssumption
    <3>3. /\ stored[s] = calibrated[s]
          /\ \A b \in Bounds : <<s, b>> \notin unloaded => in[s][b] = calibrated[s][b]
      BY <2>1, <3>2 DEF Kept
    <3>4. in[s] \in Travels
      BY <1>1, <2>3 DEF CalibrationTypes
    <3>5. ASSUME NEW b \in Bounds, <<s, b>> \notin unloaded' PROVE in'[s][b] = calibrated[s][b]
      <4>1. in'[s] = [in[s] EXCEPT ![r[2]] = stored[s][r[2]]]
        BY <1>1, <2>3, <3>1 DEF CalibrationTypes
      <4>2. CASE b = r[2]
        BY <1>3, <3>3, <3>4, <4>1, <4>2 DEF Travels
      <4>3. CASE b # r[2]
        <5>1. <<s, b>> # r
          BY <4>3
        <5>2. <<s, b>> \notin unloaded
          BY <1>2, <3>5, <5>1
        <5> QED BY <1>3, <3>3, <3>4, <4>1, <4>3, <5>2 DEF Travels
      <4> QED BY <4>2, <4>3
    <3> QED BY <1>2, <3>3, <3>5 DEF Kept
  <2> QED BY <2>2, <2>3
<1> QED BY <1>4, <1>7, <1>8, <1>9 DEF CalibrationInv

(* Every step keeps the invariant. *)
LEMMA CalibrationStepKeeps ==
    ASSUME CalibrationInv, [CalibrationNext]_calibrationVars PROVE CalibrationInv'
<1>1. ASSUME NEW o \in Operators, Operator(o) PROVE CalibrationInv'
  <2>1. CalibrationTypes
    BY DEF CalibrationInv
  <2>2. CASE SampleFails(o) \/ SaveFails(o)
    <3>1. Fails(o) /\ op[o] # Idle
      BY <2>1, <2>2, CommandTypes DEF SampleFails, SaveFails, Idle
    <3> QED BY <3>1, FailsKeeps
  <2> QED
    BY <1>1, <2>2, CommandKeeps, SampleKeeps, SetCurrKeeps, SaveGetKeeps, SaveOneKeeps DEF Operator
<1>2. ASSUME UNCHANGED calibrationVars PROVE CalibrationInv'
  <2>1. UNCHANGED <<in, stored, unloaded, op, calibrated, disturbed>>
    BY <1>2 DEF calibrationVars
  <2>2. Records' = Records /\ \A s : Active(s)' = Active(s)
    BY <2>1 DEF Records, Active
  <2>3. CalibrationTypes' /\ Sharing'
    BY <2>1, <2>2 DEF CalibrationInv, CalibrationTypes, Sharing
  <2>4. Alone'
    BY <2>1, <2>2 DEF CalibrationInv, Alone, NotLoading, Done
  <2>5. Keeping'
    BY <2>1, <2>2 DEF CalibrationInv, Keeping, Kept
  <2> QED BY <2>3, <2>4, <2>5 DEF CalibrationInv
<1> QED BY <1>1, <1>2, CalibrationRestartKeeps, LoadingKeeps DEF CalibrationNext

(* The travel of a sensor survives as it was last set. *)
LEMMA KeptImplies == CalibrationInv => CalibrationKept
<1> SUFFICES ASSUME CalibrationInv, NEW s \in Sensors \ disturbed, Active(s) = {},
                    \A b \in Bounds : <<s, b>> \notin unloaded
             PROVE  in[s] = calibrated[s] /\ (stored[s] # [b \in Bounds |-> NULL] => stored[s] = in[s])
  BY DEF CalibrationKept
<1>1. Kept(s) /\ in[s] \in Travels /\ calibrated[s] \in Travels
  BY DEF CalibrationInv, CalibrationTypes, Keeping
<1>2. ASSUME \A b \in Bounds : in[s][b] = calibrated[s][b] PROVE in[s] = calibrated[s]
  BY <1>1, <1>2 DEF Travels
<1> QED BY <1>1, <1>2 DEF Kept

(* Between commands a sensor has the travel it was last given, in memory    *)
(* and in its records, also after a reset; what disturbs it excepted: the   *)
(* loops of shell.c, sensor_axis_sensor_calib_save() and calib_load().      *)
THEOREM CalibrationKeptHolds == CalibrationSpec => []CalibrationKept
<1>1. CalibrationInit => CalibrationInv
  BY InitCalibrationInv
<1>2. CalibrationInv /\ [CalibrationNext]_calibrationVars => CalibrationInv'
  BY CalibrationStepKeeps
<1>3. CalibrationInv => CalibrationKept
  BY KeptImplies
<1> QED BY <1>1, <1>2, <1>3, PTL DEF CalibrationSpec

-----------------------------------------------------------------------------
(* The divisor is even. *)
LEMMA HalfGrain == \E half \in Nat : half = Grain \div 2 /\ Grain = 2 * half
BY CalibrationAssumption

(* A travel is usable when it spans half of the divisor at least. *)
LEMMA UsableIs ==
    ASSUME NEW b, b["max"] - b["min"] \in Int, 2 * Abs(b["max"] - b["min"]) >= Grain
    PROVE  Usable(b)
<1> DEFINE d == b["max"] - b["min"]
<1>1. Grain \in Nat \ {0} /\ Sign(Grain) = 1 /\ Abs(Grain) = Grain
  BY CalibrationAssumption DEF Sign, Abs
<1>2. PICK half \in Nat : half = Grain \div 2 /\ Grain = 2 * half
  BY HalfGrain
<1>3. Abs(d + Sign(d) * half) >= Grain
  BY <1>1, <1>2 DEF Abs, Sign
<1>4. Abs(d + Sign(d) * half) \div Grain >= 1
  <2> HIDE DEF d
  <2>1. PICK a \in Nat : a = Abs(d + Sign(d) * half)
    BY <1>2 DEF Abs, Sign, d
  <2>2. a >= Grain => a \div Grain >= 1
    BY <1>1
  <2> QED BY <1>3, <2>1, <2>2
<1>5. Quotient(d + Sign(d) * half, Grain) # 0
  <2>1. PICK x \in Int : x = d + Sign(d) * half
    BY <1>2 DEF Sign
  <2>2. PICK q \in Int : q = Abs(x) \div Grain /\ q >= 1
    BY <1>1, <1>4, <2>1 DEF Abs
  <2>3. Quotient(x, Grain) = Sign(x) * q
    BY <1>1, <2>2 DEF Quotient, Sign
  <2>4. Sign(x) * q # 0
    BY <2>2 DEF Sign
  <2> QED BY <2>1, <2>3, <2>4
<1>6. DIV_ROUND_CLOSEST(d, Grain) = Quotient(d + Sign(d) * half, Grain)
  BY <1>1, <1>2 DEF DIV_ROUND_CLOSEST, Sign
<1> QED BY <1>5, <1>6 DEF Usable, Divisor

(* The converse. *)
LEMMA UnusableIs ==
    ASSUME NEW b, b["max"] - b["min"] \in Int, Usable(b)
    PROVE  2 * Abs(b["max"] - b["min"]) >= Grain
<1> DEFINE d == b["max"] - b["min"]
<1>1. Grain \in Nat \ {0} /\ Sign(Grain) = 1 /\ Abs(Grain) = Grain
  BY CalibrationAssumption DEF Sign, Abs
<1>2. PICK half \in Nat : half = Grain \div 2 /\ Grain = 2 * half
  BY HalfGrain
<1>3. DIV_ROUND_CLOSEST(d, Grain) = Quotient(d + Sign(d) * half, Grain)
  BY <1>1, <1>2 DEF DIV_ROUND_CLOSEST, Sign
<1>4. Quotient(d + Sign(d) * half, Grain) # 0
  BY <1>3 DEF Usable, Divisor
<1>5. PICK a \in Nat : a = Abs(d + Sign(d) * half)
  BY <1>2 DEF Abs, Sign
<1>6. a \div Grain # 0
  BY <1>1, <1>4, <1>5 DEF Quotient, Sign
<1>7. a >= Grain
  BY <1>1, <1>6
<1> QED BY <1>1, <1>2, <1>5, <1>7 DEF Abs, Sign

(* Moving the center of a travel keeps it usable, though it rounds. *)
LEMMA CenterKeepsUsable ==
    ASSUME NEW b \in Travels, NEW curr \in Int, Usable(b)
    PROVE  Usable(NewTravel(b, "center", curr))
<1> DEFINE d == b["max"] - b["min"]
           range == Quotient(d, 2)
           new == NewTravel(b, "center", curr)
<1>1. d \in Int
  BY DEF Travels, Bounds
<1>2. range \in Int /\ 2 * Abs(2 * range) >= Grain
  <2>1. PICK a \in Nat : a = Abs(d)
    BY <1>1 DEF Abs
  <2>2. Sign(2) = 1 /\ Abs(2) = 2
    BY DEF Sign, Abs
  <2>3. PICK h \in Nat : h = a \div 2 /\ 2 * h <= a /\ a <= 2 * h + 1
    OBVIOUS
  <2>4. Quotient(d, 2) = Sign(d) * h
    BY <2>1, <2>2, <2>3 DEF Quotient, Sign
  <2>5. Abs(2 * range) = 2 * h /\ range \in Int
    BY <2>3, <2>4 DEF Abs, Sign
  <2>6. 2 * a >= Grain
    BY <1>1, <2>1, UnusableIs
  <2>7. PICK k \in Nat : Grain = 4 * k
    BY CalibrationAssumption
  <2> QED BY <2>3, <2>5, <2>6, <2>7
<1>3. new["min"] = curr - range /\ new["max"] = curr + range
  BY DEF NewTravel, Around, Bounds
<1> HIDE DEF new, range, d
<1>4. new["max"] - new["min"] = 2 * range
  BY <1>2, <1>3
<1>5. Usable(new)
  BY <1>2, <1>4, UsableIs
<1> QED BY <1>5 DEF new

(* A sensor is given an unusable travel, or a record is loaded. *)
LEMMA SetCurrUnusable ==
    ASSUME CalibrationInv, NEW o \in Operators, SetCurr(o), NEW s \in Sensors,
           Usable(in[s]), ~Usable(in'[s])
    PROVE  /\ op[o].pc = "set" /\ op'[o].pc # "set" /\ Current(o) = s
           /\ op[o].kind # "center" /\ in'[s] = calibrated'[s]
<1>1. CalibrationTypes /\ op[o].pc = "set" /\ op[o] # Idle
  BY CommandTypes DEF CalibrationInv, SetCurr, Idle
<1>2. op[o] \in Commands /\ InLoop(op[o]) /\ Current(o) \in Sensors
  BY <1>1, CommandTypes
<1>3. Current(o) = s
  BY <1>1, <1>2 DEF SetCurr, CalibrationTypes
<1>4. /\ in'[s] = NewTravel(in[s], op[o].kind, op[o].val) /\ in'[s] = calibrated'[s]
      /\ in[s] \in Travels /\ op[o].val \in Int
  BY <1>1, <1>2, <1>3 DEF SetCurr, CalibrationTypes, Commands
<1>5. op[o].kind # "center"
  BY <1>4, CenterKeepsUsable
<1>6. op'[o].pc # "set"
  <2>1. PICK d : d = IF IsLast(o) THEN StartSave(o) ELSE NextSensor(o, "sample")
    OBVIOUS
  <2>2. d.pc \in {"get", "sample"}
    <3>1. CASE IsLast(o)
      <4>1. d = [op[o] EXCEPT !.pc = "get", !.kind = "save", !.i = 1, !.n = 0, !.val = 0]
        BY <2>1, <3>1 DEF StartSave
      <4> QED BY <1>2, <4>1 DEF Commands
    <3>2. CASE ~IsLast(o)
      <4>1. d = [op[o] EXCEPT !.i = @ + 1, !.pc = "sample", !.n = 0, !.val = 0]
        BY <2>1, <3>2 DEF NextSensor
      <4> QED BY <1>2, <4>1 DEF Commands
    <3> QED BY <3>1, <3>2
  <2>3. op'[o] = d
    BY <1>1, <2>1 DEF SetCurr, CalibrationTypes
  <2> QED BY <2>2, <2>3
<1> QED BY <1>1, <1>3, <1>4, <1>5, <1>6

(* The same of a record that is loaded: the travel is the one the sensor   *)
(* was last given, unless something disturbed it.                          *)
LEMMA LoadUnusable ==
    ASSUME CalibrationInv, NEW r \in Sensors \X Bounds, Load(r), NEW s \in Sensors \ disturbed,
           in'[s] # in[s]
    PROVE  in'[s] = calibrated[s] \/ \E b \in Bounds : <<s, b>> \in unloaded'
<1>1. CalibrationTypes /\ Alone /\ Sharing /\ Keeping /\ CalibrationInv'
  BY LoadingKeeps DEF CalibrationInv
<1>2. /\ r \in unloaded /\ in' = [in EXCEPT ![r[1]][r[2]] = stored[r[1]][r[2]]]
      /\ UNCHANGED <<stored, op, calibrated, disturbed>>
  BY DEF Load
<1>3. s = r[1] /\ stored[s][r[2]] # NULL /\ r[2] \in Bounds /\ ~NotLoading(s)
  <2>1. s = r[1]
    BY <1>1, <1>2 DEF CalibrationTypes
  <2>2. r \in Records /\ r = <<r[1], r[2]>>
    BY <1>1, <1>2 DEF CalibrationTypes
  <2> QED BY <1>2, <2>1, <2>2 DEF Records, NotLoading
<1>4. Active(s) = {}
  <2>1. ASSUME NEW o \in Active(s) PROVE FALSE
    <3>1. o \in Operators /\ op[o] # Idle
      BY <1>1, <2>1, ActiveIs
    <3>2. s \in op[o].alone
      BY <1>1, <2>1 DEF Sharing
    <3> QED BY <1>1, <1>3, <3>1, <3>2 DEF Alone
  <2> QED BY <2>1
<1>5. Active(s)' = {}
  BY <1>2, <1>4 DEF Active
<1>6. Kept(s)'
  BY <1>1, <1>2, <1>5 DEF CalibrationInv, Keeping
<1>7. ASSUME \A b \in Bounds : <<s, b>> \notin unloaded' PROVE in'[s] = calibrated[s]
  <2>1. \A b \in Bounds : in'[s][b] = calibrated'[s][b]
    BY <1>2, <1>3, <1>6, <1>7 DEF Kept
  <2>2. in'[s] \in Travels /\ calibrated'[s] \in Travels
    BY <1>1 DEF CalibrationInv, CalibrationTypes
  <2> QED BY <1>2, <2>1, <2>2 DEF Travels
<1> QED BY <1>7

(* Where the travels of the devicetree are usable, calibration makes one    *)
(* unusable only by a command that sets a bound: the division in            *)
(* sensor_get() is by zero after nothing else, the reset and the load       *)
(* included.                                                                *)
THEOREM UnusableOnlyByHandHolds ==
    ASSUME \A s \in Sensors : Usable(Devicetree[s])
    PROVE  CalibrationSpec => UnusableOnlyByHand
<1> DEFINE Hand ==
      \A s \in Sensors :
         Usable(in[s]) /\ ~Usable(in'[s]) =>
           \/ \E o \in Operators :
                /\ op[o].pc = "set" /\ op'[o].pc # "set" /\ Current(o) = s
                /\ op[o].kind # "center" /\ in'[s] = calibrated'[s]
           \/ ~Usable(calibrated[s]) \/ s \in disturbed
           \/ \E b \in Bounds : <<s, b>> \in unloaded'
<1>1. CalibrationInit => CalibrationInv
  BY InitCalibrationInv
<1>2. CalibrationInv /\ [CalibrationNext]_calibrationVars => CalibrationInv'
  BY CalibrationStepKeeps
<1>3. CalibrationInv /\ [CalibrationNext]_calibrationVars => [Hand]_calibrationVars
  <2> SUFFICES ASSUME CalibrationInv, CalibrationNext, NEW s \in Sensors,
                      Usable(in[s]), ~Usable(in'[s])
               PROVE  \/ \E o \in Operators :
                           /\ op[o].pc = "set" /\ op'[o].pc # "set" /\ Current(o) = s
                           /\ op[o].kind # "center" /\ in'[s] = calibrated'[s]
                      \/ ~Usable(calibrated[s]) \/ s \in disturbed
                      \/ \E b \in Bounds : <<s, b>> \in unloaded'
    OBVIOUS
  <2>1. in'[s] # in[s]
    OBVIOUS
  <2>2. ASSUME NEW o \in Operators, Operator(o) PROVE SetCurr(o)
    BY <2>1, <2>2 DEF Operator, Command, Sample, SampleFails, SaveFails, Fails, SaveGet, SaveOne
  <2>3. CASE \E o \in Operators : Operator(o)
    BY <2>2, <2>3, SetCurrUnusable
  <2>4. ~Restart
    BY DEF Restart
  <2>5. CASE \E r \in Sensors \X Bounds : Load(r) \/ LoadFails(r)
    <3>1. PICK r \in Sensors \X Bounds : Load(r) \/ LoadFails(r)
      BY <2>5
    <3>2. Load(r)
      BY <2>1, <3>1 DEF LoadFails
    <3>3. CASE s \notin disturbed
      <4>1. in'[s] = calibrated[s] \/ \E b \in Bounds : <<s, b>> \in unloaded'
        BY <2>1, <3>2, <3>3, LoadUnusable
      <4> QED BY <4>1
    <3> QED BY <3>3
  <2> QED BY <2>3, <2>4, <2>5 DEF CalibrationNext
<1>4. CalibrationSpec => [][Hand]_calibrationVars
  BY <1>1, <1>2, <1>3, PTL DEF CalibrationSpec
<1> QED BY <1>4 DEF UnusableOnlyByHand
=============================================================================

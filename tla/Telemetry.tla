----------------------------- MODULE Telemetry -----------------------------
(***************************************************************************)
(* Telemetry between two nodes: subsys/telemetry/telemetry.c with the      *)
(* TPDO groups of subsys/canbus/canopen/canopen.c and canopen.h at the     *)
(* sender, and the messages that canopen.h aggregates from RPDOs at the    *)
(* receiver.                                                               *)
(*                                                                         *)
(* Any thread updates a data item, by name or address, and marks it in its *)
(* groups.  The aggregation work of a group copies its items, writes them  *)
(* one by one to the object dictionary, without CANopenNode's lock, and    *)
(* requests a TPDO for each.  CANopenNode reads the entries one by one     *)
(* into a frame; at the receiver it writes them one by one to its own      *)
(* dictionary, where each write updates a member of an aggregation, whose  *)
(* work publishes the message.  Sections under a spinlock are atomic: the  *)
(* processor has one core.                                                 *)
(*                                                                         *)
(* The aggregations at both ends are those of module Aggregation without   *)
(* time: an update arms one, unless something already is on its way that   *)
(* will run its work; but not while the work is about to go dormant, and   *)
(* then the update stays behind.                                           *)
(***************************************************************************)
EXTENDS Naturals, Sequences, FiniteSets

CONSTANTS
    Data,        \* telemetry data of type TM_DATA_TYPE_NORMAL
    Alias,       \* the data each alias refers to
    Groups,
    Members,     \* the data and aliases of each group, in order
    Section,     \* the data and aliases in the order init() meets them
    Ignored, Optional,  \* <<side, group, member>> with these flags
    Always,      \* <<side, group>> with AGG_FLAG_ALWAYS_PUBLISH
    MaxUpdates   \* bound: updates of each data

Names == Data \cup DOMAIN Alias
Slots(g) == 1..Len(Members[g])
Links == UNION {{g} \X Slots(g) : g \in Groups}

(* The aggregation of a group at the sender, and of its message at the      *)
(* receiver.                                                                *)
Sides == {"tm", "msg"}
Required(side, g) == {i \in Slots(g) : <<side, g, i>> \notin Ignored \cup Optional}

ASSUME TelemetryAssumption ==
    /\ IsFiniteSet(Data) /\ Alias \in [DOMAIN Alias -> Data] /\ DOMAIN Alias \cap Data = {}
    /\ Members \in [Groups -> Seq(Names)]
    /\ \A g \in Groups : Members[g] # <<>>
    /\ Section \in Seq(Names) /\ \A name \in Names : \E k \in 1..Len(Section) : Section[k] = name
    /\ \A j, k \in 1..Len(Section) : Section[j] = Section[k] => j = k
    /\ MaxUpdates \in [Data -> Nat]

VARIABLES
    \* The sender.
    data_map,    \* names that have been inserted into data_map
    failed,      \* whether an insertion failed and init() gave up
    groups,      \* the list of each data: links of the groups it is in
    data,        \* the value of each data: the number of its update
    pub_data,    \* pub_data of each group
    work,        \* where the aggregation work is: <<>> or <<group, step, member>>
    od,          \* the entry of each member of each group
    requests,    \* members with a TPDO requested
    tpdo,        \* the frame CANopenNode is making of a group: <<>> or <<group, values>>
    bus,         \* the frame of each group the receiver has still to process, or <<>>
    \* The receiver.
    rpdo,        \* members of each group's frame still to be written
    od_to_msg,   \* data of each message's aggregation
    msg_work,    \* where the aggregation work is: <<>> or <<group, step>>
    msg,         \* the last message of each group
    \* Both: the members marked as updated, whether a timer or the queue will
    \* run the work, and whether an update came where neither would.
    agg,
    \* Bookkeeping for the properties.
    unheard,     \* links that were not there when their data last changed
    crossed      \* groups whose publication met the making of the frame

senderVars == <<data_map, failed, groups, data, unheard>>
workVars == <<pub_data, work, od>>
receiverVars == <<rpdo, od_to_msg, msg_work, msg>>
telemetryVars == <<senderVars, workVars, requests, tpdo, bus, receiverVars, agg, crossed>>

None == <<>>

Resolve(name) == IF name \in Data THEN name ELSE Alias[name]

-----------------------------------------------------------------------------
(* An aggregation. *)

Asleep == [updated |-> {}, armed |-> FALSE, raced |-> FALSE]
Published == [updated |-> {}, armed |-> TRUE, raced |-> FALSE]

(* agg_update() for each of the members.  A cold start arms the             *)
(* aggregation, but not while its work runs: then only a full update does,  *)
(* unless something is on its way (after a publication the period timer is).*)
Updated(side, g, members, dormant) ==
    LET a == agg[side, g]
        heard == {i \in members : <<side, g, i>> \notin Ignored}
        armed == a.armed \/ ~dormant \/ Required(side, g) \subseteq a.updated \cup heard
    IN  IF heard = {} THEN a
        ELSE [updated |-> a.updated \cup heard, armed |-> armed, raced |-> ~armed]

(* The locked section of agg_work_cb(): nothing to publish.  The timer may  *)
(* still run, or the work be queued again, after two publications at once.  *)
GoesDormant(side, g) ==
    /\ agg[side, g].armed /\ agg[side, g].updated = {} /\ <<side, g>> \notin Always
    /\ \E still \in BOOLEAN : agg' = [agg EXCEPT ![<<side, g>>].armed = still]

(* The locked section otherwise: the period timer has been started, by the  *)
(* update that was full or now.                                             *)
GoesPublishing(side, g) ==
    /\ agg[side, g].armed /\ (agg[side, g].updated # {} \/ <<side, g>> \in Always)
    /\ agg' = [agg EXCEPT ![<<side, g>>] = Published]

-----------------------------------------------------------------------------
(* init() of telemetry.c.  Other threads run meanwhile. *)

InsertData(name) ==
    /\ Cardinality(data_map) < Len(Section) /\ name = Section[Cardinality(data_map) + 1] /\ ~failed
    /\ \/ data_map' = data_map \cup {name} /\ UNCHANGED failed
       \/ failed' = TRUE /\ UNCHANGED data_map
    /\ UNCHANGED <<groups, data, unheard, workVars, requests, tpdo, bus, receiverVars, agg, crossed>>

LinkGroup(l) ==
    LET Linked(k) == k \in groups[Resolve(Members[k[1]][k[2]])] IN
    /\ data_map = Names
    /\ ~Linked(l) /\ \A i \in 1..l[2] - 1 : Linked(<<l[1], i>>)
    /\ groups' = [groups EXCEPT ![Resolve(Members[l[1]][l[2]])] = @ \cup {l}]
    /\ UNCHANGED <<data_map, failed, data, unheard, workVars, requests, tpdo, bus, receiverVars, agg, crossed>>

(* tm_data_notify_lock(): an update of the aggregation of every group in    *)
(* the data's list.                                                         *)
Notified(d) ==
    [a \in Sides \X Groups |->
       IF a[1] = "tm"
         THEN Updated("tm", a[2], {i \in Slots(a[2]) : <<a[2], i>> \in groups[d]},
                      work = <<a[2], "dormant", 1>>)
         ELSE agg[a]]

(* TM_DATA_UPDATE(), under the data's lock. *)
Update(name) ==
    LET d == Resolve(name) IN
    /\ data[d] < MaxUpdates[d]
    /\ data' = [data EXCEPT ![d] = @ + 1]
    /\ agg' = Notified(d)
    /\ unheard' = (unheard \ groups[d])
                    \cup {l \in Links : Resolve(Members[l[1]][l[2]]) = d /\ l \notin groups[d]}
    /\ UNCHANGED <<data_map, failed, groups, workVars, requests, tpdo, bus, receiverVars, crossed>>

(* tm_data_update(): -ENOENT before its address is in the map. *)
UpdateAddr(name) == name \in data_map /\ Update(name)

-----------------------------------------------------------------------------
(* The work of a group's aggregation: the data are copied, and each is      *)
(* published.  The groups share a work queue.                               *)

WorkDormant(g) ==
    /\ work = None /\ GoesDormant("tm", g)
    /\ work' = <<g, "dormant", 1>>
    /\ UNCHANGED <<senderVars, pub_data, od, requests, tpdo, bus, receiverVars, crossed>>

WorkReturn ==
    /\ work # None /\ work[2] = "dormant"
    /\ work' = None
    /\ UNCHANGED <<senderVars, pub_data, od, requests, tpdo, bus, receiverVars, agg, crossed>>

WorkPublish(g) ==
    /\ work = None /\ GoesPublishing("tm", g)
    /\ work' = <<g, "copy", 1>>
    /\ UNCHANGED <<senderVars, pub_data, od, requests, tpdo, bus, receiverVars, crossed>>

(* tm_group_copy(). *)
GroupCopy ==
    /\ work # None /\ work[2] = "copy"
    /\ LET g == work[1] IN
       /\ pub_data' = [pub_data EXCEPT ![g] = [i \in Slots(g) |-> data[Resolve(Members[g][i])]]]
       /\ work' = <<g, "set", 1>>
       /\ crossed' = IF tpdo # None /\ tpdo[1] = g THEN crossed \cup {g} ELSE crossed
    /\ UNCHANGED <<senderVars, od, requests, tpdo, bus, receiverVars, agg>>

(* Faulty: the current value is published instead of the copy. *)
SetCurrentValue ==
    /\ work # None /\ work[2] = "set"
    /\ LET g == work[1] i == work[3] IN
       /\ od' = [od EXCEPT ![g][i] = data[Resolve(Members[g][i])]]
       /\ work' = <<g, "request", i>>
    /\ UNCHANGED <<senderVars, pub_data, requests, tpdo, bus, receiverVars, agg, crossed>>

(* canopen_tm_publish() for a member: the value, then the request. *)
SetValue ==
    /\ work # None /\ work[2] = "set"
    /\ LET g == work[1] i == work[3] IN
       /\ od' = [od EXCEPT ![g][i] = pub_data[g][i]]
       /\ work' = <<g, "request", i>>
    /\ UNCHANGED <<senderVars, pub_data, requests, tpdo, bus, receiverVars, agg, crossed>>

(* Faulty: a request is dropped while CANopenNode makes a frame. *)
RequestUnlessBusy ==
    /\ work # None /\ work[2] = "request"
    /\ LET g == work[1] i == work[3] IN
       /\ requests' = IF tpdo = None THEN [requests EXCEPT ![g] = @ \cup {i}] ELSE requests
       /\ work' = IF i < Len(Members[g]) THEN <<g, "set", i + 1>> ELSE None
    /\ UNCHANGED <<senderVars, pub_data, od, tpdo, bus, receiverVars, agg, crossed>>

RequestTPDO ==
    /\ work # None /\ work[2] = "request"
    /\ LET g == work[1] i == work[3] IN
       /\ requests' = [requests EXCEPT ![g] = @ \cup {i}]
       /\ work' = IF i < Len(Members[g]) THEN <<g, "set", i + 1>> ELSE None
    /\ UNCHANGED <<senderVars, pub_data, od, tpdo, bus, receiverVars, agg, crossed>>

WorkGoesOn == WorkReturn \/ GroupCopy \/ SetValue \/ RequestTPDO
Work(g) == WorkDormant(g) \/ WorkPublish(g) \/ (work # None /\ work[1] = g /\ WorkGoesOn)

-----------------------------------------------------------------------------
(* CANopenNode at the sender: the requests are taken, the entries are read, *)
(* and the frame is sent.                                                   *)

TpdoStart(g) ==
    /\ tpdo = None /\ requests[g] # {}
    /\ requests' = [requests EXCEPT ![g] = {}]
    /\ tpdo' = <<g, <<>>>>
    /\ crossed' = IF work # None /\ work[1] = g /\ work[2] \in {"set", "request"}
                    THEN crossed \cup {g} ELSE crossed \ {g}
    /\ UNCHANGED <<senderVars, workVars, bus, receiverVars, agg>>

TpdoRead ==
    /\ tpdo # None /\ Len(tpdo[2]) < Len(Members[tpdo[1]])
    /\ tpdo' = <<tpdo[1], Append(tpdo[2], od[tpdo[1]][Len(tpdo[2]) + 1])>>
    /\ UNCHANGED <<senderVars, workVars, requests, bus, receiverVars, agg, crossed>>

(* A frame that the receiver has not taken yet is overwritten. *)
TpdoSend ==
    /\ tpdo # None /\ Len(tpdo[2]) = Len(Members[tpdo[1]])
    /\ bus' = [bus EXCEPT ![tpdo[1]] = tpdo[2]]
    /\ tpdo' = None
    /\ UNCHANGED <<senderVars, workVars, requests, receiverVars, agg, crossed>>

Tpdo(g) == TpdoStart(g) \/ (tpdo # None /\ tpdo[1] = g /\ (TpdoRead \/ TpdoSend))

-----------------------------------------------------------------------------
(* The receiver. *)

RpdoReceive(g) ==
    /\ bus[g] # None /\ rpdo[g] = None
    /\ rpdo' = [rpdo EXCEPT ![g] = bus[g]]
    /\ bus' = [bus EXCEPT ![g] = None]
    /\ UNCHANGED <<senderVars, workVars, requests, tpdo, od_to_msg, msg_work, msg, agg, crossed>>

(* The write callback of CANOPEN_OD_TO_MSG_DEFINE for the next member: the  *)
(* original write, then the update of the aggregation with what was stored. *)
OdWrite(g) ==
    LET i == Len(Members[g]) - Len(rpdo[g]) + 1 IN
    /\ rpdo[g] # None
    /\ od_to_msg' = [od_to_msg EXCEPT ![g][i] = Head(rpdo[g])]
    /\ agg' = [agg EXCEPT ![<<"msg", g>>] = Updated("msg", g, {i}, msg_work = <<g, "dormant">>)]
    /\ rpdo' = [rpdo EXCEPT ![g] = Tail(@)]
    /\ UNCHANGED <<senderVars, workVars, requests, tpdo, bus, msg_work, msg, crossed>>

(* The work of the message's aggregation. *)
MsgDormant(g) ==
    /\ msg_work = None /\ GoesDormant("msg", g)
    /\ msg_work' = <<g, "dormant">>
    /\ UNCHANGED <<senderVars, workVars, requests, tpdo, bus, rpdo, od_to_msg, msg, crossed>>

MsgPublish(g) ==
    /\ msg_work = None /\ GoesPublishing("msg", g)
    /\ msg_work' = <<g, "copy">>
    /\ UNCHANGED <<senderVars, workVars, requests, tpdo, bus, rpdo, od_to_msg, msg, crossed>>

(* It returns: after agg_typed_publish() has copied the message, published  *)
(* once.                                                                    *)
MsgReturn(g) ==
    /\ msg_work # None /\ msg_work[1] = g
    /\ msg' = IF msg_work[2] = "copy" THEN [msg EXCEPT ![g] = od_to_msg[g]] ELSE msg
    /\ msg_work' = None
    /\ UNCHANGED <<senderVars, workVars, requests, tpdo, bus, rpdo, od_to_msg, agg, crossed>>

Rpdo(g) == RpdoReceive(g) \/ OdWrite(g)
MsgWork(g) == MsgDormant(g) \/ MsgPublish(g) \/ MsgReturn(g)

-----------------------------------------------------------------------------
Zero == [g \in Groups |-> [i \in Slots(g) |-> 0]]

TelemetryInit ==
    /\ data_map = {} /\ failed = FALSE /\ groups = [d \in Data |-> {}]
    /\ data = [d \in Data |-> 0]
    /\ unheard = {} /\ agg = [a \in Sides \X Groups |-> Asleep]
    /\ pub_data = Zero /\ work = None /\ od = Zero
    /\ requests = [g \in Groups |-> {}] /\ tpdo = None
    /\ bus = [g \in Groups |-> None] /\ rpdo = [g \in Groups |-> None]
    /\ od_to_msg = Zero /\ msg_work = None /\ msg = Zero
    /\ crossed = {}

TelemetryNext ==
    \/ \E name \in Names : InsertData(name) \/ Update(name) \/ UpdateAddr(name)
    \/ \E l \in Links : LinkGroup(l)
    \/ \E g \in Groups : Work(g) \/ Tpdo(g) \/ Rpdo(g) \/ MsgWork(g)

(* The main thread finishes init(), and the work queues and CANopenNode's   *)
(* threads run whenever they have something to do: the queues are FIFO, and *)
(* CANopenNode looks at each TPDO in turn.  Nobody must update.             *)
TelemetryFairness ==
    /\ WF_telemetryVars((\E name \in Names : InsertData(name)) \/ \E l \in Links : LinkGroup(l))
    /\ \A g \in Groups :
         /\ SF_telemetryVars(Work(g)) /\ SF_telemetryVars(Tpdo(g))
         /\ WF_telemetryVars(Rpdo(g)) /\ SF_telemetryVars(MsgWork(g))

TelemetrySpec == TelemetryInit /\ [][TelemetryNext]_telemetryVars /\ TelemetryFairness

-----------------------------------------------------------------------------
(* Properties. *)

(* The state is well typed. *)
TelemetryTypeOK ==
    /\ data_map \subseteq Names /\ failed \in BOOLEAN /\ groups \in [Data -> SUBSET Links]
    /\ data \in [Data -> Nat] /\ \A d \in Data : data[d] <= MaxUpdates[d]
    /\ \A g \in Groups :
         /\ requests[g] \subseteq Slots(g)
         /\ \A side \in Sides : agg[side, g] \in [updated : SUBSET Slots(g), armed : BOOLEAN, raced : BOOLEAN]
         /\ bus[g] = None \/ Len(bus[g]) = Len(Members[g])
         /\ Len(rpdo[g]) <= Len(Members[g])

(* A frame holds one copy of the group, values that the data had at the     *)
(* same time, unless the publication of the group and the making of the     *)
(* frame overlapped.                                                        *)
FramesWhole ==
    \A g \in Groups :
      tpdo # None /\ tpdo[1] = g /\ g \notin crossed =>
        tpdo[2] = SubSeq(pub_data[g], 1, Len(tpdo[2]))

(* An update of the member came between the decision of the aggregation's   *)
(* work to go dormant and its return, and no later one has woken it.        *)
LeftBehind(side, g, i) == agg[side, g].raced /\ i \in agg[side, g].updated

(* Whatever was lost, mixed or overwritten on the way, once nobody updates  *)
(* a data item its value arrives in the message of the other node; unless   *)
(* its last update came before init() had linked it to the group, which     *)
(* then publishes it only with the next update, or was left behind by one   *)
(* of the two aggregations.  (A member that is ignored at either end goes   *)
(* with the others only.)                                                   *)
Arrives ==
    \A g \in Groups : \A i \in Slots(g) :
      (\A side \in Sides : <<side, g, i>> \notin Ignored) =>
        <>[](\/ <<g, i>> \in unheard \/ \E side \in Sides : LeftBehind(side, g, i)
             \/ msg[g][i] = data[Resolve(Members[g][i])])
=============================================================================

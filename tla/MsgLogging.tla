----------------------------- MODULE MsgLogging -----------------------------
(***************************************************************************)
(* Logging of message channels to files, subsys/msg/logging.c.             *)
(*                                                                         *)
(* Operators start and stop the logging of a channel.  A message published *)
(* on a logged channel is put in a packet, in the publisher's context; a   *)
(* work takes one packet at a time and writes it.  A stop is a packet too. *)
(* The packets of all channels share one buffer, that overwrites the       *)
(* oldest when it is full.  zbus lets one context at a time publish on a   *)
(* channel or change its observers, so a channel stands for the context    *)
(* that publishes on it.                                                   *)
(***************************************************************************)
EXTENDS MpscPbuf, FiniteSets

CONSTANTS
    Channels,
    Operators,     \* threads that start and stop logging
    Nobody,        \* the owner of a free mutex
    Capacity,      \* packets mpsc_pbuf holds
    MaxSessions,   \* bound: successful opens of each channel's file
    MaxMessages    \* bound: messages published on each logged channel

ASSUME LoggingAssumption ==
    /\ Capacity \in Nat \ {0, 1} /\ MaxSessions \in Nat /\ MaxMessages \in Nat
    /\ Nobody \notin Operators /\ Operators \cap Channels = {} /\ Channels # {}

Actors == Channels \cup Operators

(* A packet: its channel, type, the session it belongs to, its number. *)
DataIds == Channels \X {"data"} \X (1..MaxSessions) \X (1..MaxMessages)
StopIds == Channels \X {"stop"} \X (1..MaxSessions) \X {0}
ChannelOf(id) == id[1]
IsStop(id) == id[2] = "stop"
SessionOf(id) == id[3]

VARIABLES
    owner, depth,  \* logging->lock of each channel: k_mutex owner, lock_count
    isLogging,     \* logging->is_logging
    file,          \* logging->file: the session it is open for, 0 if closed
    observed,      \* msg_logging_listener observes the channel
    syncDue,       \* logging->sync_dwork is scheduled
    pbuf,          \* mpsc_pbuf
    queued, stage, \* logging_work: in the queue; where logging_work() is
    pc, chan, held,\* of each actor: where it is, its channel, its packet
    \* Bookkeeping.
    session,       \* opens of the channel's file
    messages,      \* messages published while the channel was observed
    late,          \* data packets allocated after the stop packet of their session
    restarted,     \* channels started with their last stop not processed
    dropped,       \* channels that had a stop packet overwritten
    missed         \* a commit found the work running, but past its last look

channelVars == <<owner, depth, isLogging, file, observed, syncDue>>
workVars == <<queued, stage>>
actorVars == <<pc, chan, held>>
ghostVars == <<session, messages, late, restarted, dropped, missed>>
vars == <<channelVars, pbuf, workVars, actorVars, ghostVars>>

Ids == DataIds \cup StopIds

Init ==
    /\ owner = [c \in Channels |-> Nobody] /\ depth = [c \in Channels |-> 0]
    /\ isLogging = [c \in Channels |-> FALSE]
    /\ file = [c \in Channels |-> 0]
    /\ observed = [c \in Channels |-> FALSE]
    /\ syncDue = [c \in Channels |-> FALSE]
    /\ pbuf = <<>>
    /\ queued = FALSE /\ stage = "idle"
    /\ pc = [a \in Actors |-> "idle"]
    /\ chan = [a \in Actors |-> IF a \in Channels THEN a ELSE CHOOSE c \in Channels : TRUE]
    /\ held = [a \in Actors |-> <<>>]
    /\ session = [c \in Channels |-> 0] /\ messages = [c \in Channels |-> 0]
    /\ late = {} /\ restarted = {} /\ dropped = {} /\ missed = FALSE

Goto(a, place) == pc' = [pc EXCEPT ![a] = place]

(* k_mutex_lock(), which the owner may repeat, and k_mutex_unlock() by it. *)
CanLock(o, c) == owner[c] \in {Nobody, o}
Lock(o, c) ==
    /\ owner' = [owner EXCEPT ![c] = o]
    /\ depth' = [depth EXCEPT ![c] = @ + 1]
Unlock(c) ==
    /\ depth' = [depth EXCEPT ![c] = @ - 1]
    /\ owner' = IF depth[c] = 1 THEN [owner EXCEPT ![c] = Nobody] ELSE owner

(* A stop of the channel the work has not processed. *)
StopPending(c) ==
    \/ \E i \in 1..Len(pbuf) : ChannelOf(pbuf[i].id) = c /\ IsStop(pbuf[i].id)
    \/ \E o \in Operators : pc[o] = "remove" /\ chan[o] = c

(* msg_logging_packet_alloc(): the oldest packet makes room. *)
PacketAlloc(a, id) ==
    /\ pbuf' = AllocOverwriting(pbuf, id, Capacity)
    /\ held' = [held EXCEPT ![a] = id]
    /\ dropped' = dropped \cup
         {ChannelOf(x) : x \in {y \in Overwritten(pbuf, Capacity) : IsStop(y)}}

-----------------------------------------------------------------------------
(* msg_chan_logging_start().  On a channel that is being logged it only     *)
(* locks and unlocks.                                                       *)
StartEnter(o, c) ==
    /\ pc[o] = "idle" /\ CanLock(o, c) /\ ~isLogging[c]
    /\ session[c] < MaxSessions
    /\ Lock(o, c)
    /\ Goto(o, "open") /\ chan' = [chan EXCEPT ![o] = c]
    /\ UNCHANGED <<isLogging, file, observed, syncDue, pbuf, workVars, held, ghostVars>>

(* Leaves msg_chan_logging_start() with an error. *)
StartFailed(o) ==
    /\ Goto(o, "idle")
    /\ Unlock(chan[o])

(* fs_file_t_init(), then fs_open(): a file that was still open is lost.    *)
StartOpen(o) ==
    /\ pc[o] = "open"
    /\ LET c == chan[o] IN
         /\ restarted' = IF StopPending(c) \/ c \in dropped THEN restarted \cup {c} ELSE restarted
         /\ \/ /\ file' = [file EXCEPT ![c] = session[c] + 1]
               /\ session' = [session EXCEPT ![c] = @ + 1]
               /\ Goto(o, "observe")
               /\ UNCHANGED <<owner, depth>>
            \/ /\ file' = [file EXCEPT ![c] = 0]
               /\ StartFailed(o)
               /\ UNCHANGED session
    /\ UNCHANGED <<isLogging, observed, syncDue, pbuf, workVars, chan, held,
                   messages, late, dropped, missed>>

(* zbus_chan_add_obs(), while nobody publishes on the channel; there may be *)
(* no memory for another observer.                                          *)
StartObserve(o) ==
    /\ pc[o] = "observe"
    /\ LET c == chan[o] IN
         /\ pc[c] = "idle"
         /\ \/ /\ observed' = [observed EXCEPT ![c] = TRUE]
               /\ Goto(o, "mark")
               /\ UNCHANGED <<owner, depth, file>>
            \/ /\ file' = [file EXCEPT ![c] = 0]
               /\ StartFailed(o)
               /\ UNCHANGED observed
    /\ UNCHANGED <<isLogging, syncDue, pbuf, workVars, chan, held, ghostVars>>

StartReturn(o) ==
    /\ pc[o] = "mark"
    /\ isLogging' = [isLogging EXCEPT ![chan[o]] = TRUE]
    /\ Unlock(chan[o])
    /\ Goto(o, "idle")
    /\ UNCHANGED <<file, observed, syncDue, pbuf, workVars, chan, held, ghostVars>>

-----------------------------------------------------------------------------
(* msg_chan_logging_stop().  On a channel that is not being logged it only  *)
(* locks and unlocks.                                                       *)
StopEnter(o, c) ==
    /\ pc[o] = "idle" /\ CanLock(o, c) /\ isLogging[c]
    /\ Lock(o, c)
    /\ Goto(o, "alloc") /\ chan' = [chan EXCEPT ![o] = c]
    /\ UNCHANGED <<isLogging, file, observed, syncDue, pbuf, workVars, held, ghostVars>>

StopAlloc(o) ==
    /\ pc[o] = "alloc"
    /\ IF CanOverwrite(pbuf, Capacity)
         THEN /\ PacketAlloc(o, <<chan[o], "stop", session[chan[o]], 0>>)
              /\ Goto(o, "remove")
              /\ UNCHANGED <<owner, depth>>
         ELSE /\ Unlock(chan[o])
              /\ Goto(o, "idle")
              /\ UNCHANGED <<pbuf, held, dropped>>
    /\ UNCHANGED <<isLogging, file, observed, syncDue, workVars, chan,
                   session, messages, late, restarted, missed>>

(* Faulty: the listener keeps observing the channel. *)
StopRemoveNever(o) ==
    /\ pc[o] = "remove" /\ pc[chan[o]] = "idle"
    /\ isLogging' = [isLogging EXCEPT ![chan[o]] = FALSE]
    /\ Goto(o, "commit")
    /\ UNCHANGED <<owner, depth, file, observed, syncDue, pbuf, workVars, chan, held, ghostVars>>

(* zbus_chan_rm_obs(), while nobody publishes on the channel. *)
StopRemove(o) ==
    /\ pc[o] = "remove" /\ pc[chan[o]] = "idle"
    /\ observed' = [observed EXCEPT ![chan[o]] = FALSE]
    /\ isLogging' = [isLogging EXCEPT ![chan[o]] = FALSE]
    /\ Goto(o, "commit")
    /\ UNCHANGED <<owner, depth, file, syncDue, pbuf, workVars, chan, held, ghostVars>>

-----------------------------------------------------------------------------
(* msg_cb(), called while the channel is being published on. *)
Publish(c) ==
    /\ pc[c] = "idle" /\ observed[c] /\ messages[c] < MaxMessages
    /\ messages' = [messages EXCEPT ![c] = @ + 1]
    /\ LET id == <<c, "data", session[c], messages[c] + 1>> IN
         IF CanOverwrite(pbuf, Capacity)
           THEN /\ PacketAlloc(c, id)
                /\ late' = IF \E o \in Operators : pc[o] = "remove" /\ chan[o] = c
                             THEN late \cup {id} ELSE late
                /\ Goto(c, "commit")
           ELSE UNCHANGED <<pbuf, held, late, dropped, pc>>
    /\ UNCHANGED <<channelVars, workVars, chan, session, restarted, missed>>

(* Publishers and stop: mpsc_pbuf_commit(), then the test and submission of *)
(* the work.  stop returns with the mutex locked.                           *)
CommitPacket(a) ==
    /\ pc[a] = "commit"
    /\ pbuf' = Commit(pbuf, held[a])
    /\ Goto(a, "submit")
    /\ UNCHANGED <<channelVars, workVars, chan, held, ghostVars>>

(* k_work_is_pending(): queued or running. *)
WorkIsPending == queued \/ stage # "idle"

(* Faulty: the work is never submitted. *)
SubmitWorkNever(a) ==
    /\ pc[a] = "submit"
    /\ queued' = queued
    /\ missed' = missed
    /\ Goto(a, "idle")
    /\ UNCHANGED <<channelVars, pbuf, stage, chan, held, session, messages, late, restarted, dropped>>

SubmitWork(a) ==
    /\ pc[a] = "submit"
    /\ queued' = (queued \/ ~WorkIsPending)
    /\ missed' = (missed \/ (~queued /\ stage = "return"))
    /\ Goto(a, "idle")
    /\ UNCHANGED <<channelVars, pbuf, stage, chan, held, session, messages, late,
                   restarted, dropped>>

-----------------------------------------------------------------------------
(* logging_work(), on the system work queue. *)
WorkStart ==
    /\ queued /\ stage = "idle"
    /\ queued' = FALSE /\ stage' = "claim"
    /\ missed' = FALSE
    /\ UNCHANGED <<channelVars, pbuf, actorVars, session, messages, late, restarted, dropped>>

WorkClaim ==
    /\ stage = "claim"
    /\ IF CanClaim(pbuf) THEN pbuf' = Claim(pbuf) /\ stage' = "handle"
                         ELSE UNCHANGED pbuf /\ stage' = "return"
    /\ UNCHANGED <<channelVars, queued, actorVars, ghostVars>>

Claimed == pbuf[1].id

(* PACKET_TYPE_DATA: fs_write() fails on a closed file, and may fail on an  *)
(* open one.                                                                *)
WorkWrite ==
    /\ stage = "handle" /\ ~IsStop(Claimed)
    /\ \/ file[ChannelOf(Claimed)] # 0 /\ syncDue' = [syncDue EXCEPT ![ChannelOf(Claimed)] = TRUE]
       \/ UNCHANGED syncDue
    /\ stage' = "free"
    /\ UNCHANGED <<owner, depth, isLogging, file, observed, pbuf, queued, actorVars, ghostVars>>

(* Faulty: the sync is not cancelled. *)
WorkCloseUncancelled ==
    /\ stage = "handle" /\ IsStop(Claimed)
    /\ file' = [file EXCEPT ![ChannelOf(Claimed)] = 0]
    /\ stage' = "free"
    /\ UNCHANGED <<owner, depth, isLogging, observed, syncDue, pbuf, queued, actorVars, ghostVars>>

(* Faulty: the file is not closed. *)
WorkCloseNever ==
    /\ stage = "handle" /\ IsStop(Claimed)
    /\ syncDue' = [syncDue EXCEPT ![ChannelOf(Claimed)] = FALSE]
    /\ stage' = "free"
    /\ UNCHANGED <<owner, depth, isLogging, file, observed, pbuf, queued, actorVars, ghostVars>>

(* PACKET_TYPE_STOP: fs_close(), the sync is cancelled; k_mutex_unlock()    *)
(* fails, as the work queue's thread does not own the mutex.                *)
WorkClose ==
    /\ stage = "handle" /\ IsStop(Claimed)
    /\ file' = [file EXCEPT ![ChannelOf(Claimed)] = 0]
    /\ syncDue' = [syncDue EXCEPT ![ChannelOf(Claimed)] = FALSE]
    /\ stage' = "free"
    /\ UNCHANGED <<owner, depth, isLogging, observed, pbuf, queued, actorVars, ghostVars>>

(* The packet is freed; the work is queued again for another. *)
WorkFree ==
    /\ stage = "free"
    /\ pbuf' = Free(pbuf)
    /\ queued' = (queued \/ CountIn(Free(pbuf), {"ready"}) # {})
    /\ stage' = "return"
    /\ UNCHANGED <<channelVars, actorVars, ghostVars>>

WorkReturn ==
    /\ stage = "return"
    /\ stage' = "idle"
    /\ UNCHANGED <<channelVars, pbuf, queued, actorVars, ghostVars>>

(* msg_logging_sync_work(), on the same work queue. *)
SyncWork(c) ==
    /\ syncDue[c] /\ stage = "idle"
    /\ syncDue' = [syncDue EXCEPT ![c] = FALSE]
    /\ UNCHANGED <<owner, depth, isLogging, file, observed, pbuf, workVars, actorVars, ghostVars>>

Work == WorkStart \/ WorkClaim \/ WorkWrite \/ WorkClose \/ WorkFree \/ WorkReturn

Operator(o) ==
    \/ \E c \in Channels : StartEnter(o, c) \/ StopEnter(o, c)
    \/ StartOpen(o) \/ StartObserve(o) \/ StartReturn(o)
    \/ StopAlloc(o) \/ StopRemove(o)

Next ==
    \/ Work
    \/ \E c \in Channels : Publish(c) \/ SyncWork(c)
    \/ \E o \in Operators : Operator(o)
    \/ \E a \in Actors : CommitPacket(a) \/ SubmitWork(a)

Spec == Init /\ [][Next]_vars

-----------------------------------------------------------------------------
(* Properties. *)

(* Every variable keeps its type. *)
TypeOK ==
    /\ owner \in [Channels -> Operators \cup {Nobody}]
    /\ depth \in [Channels -> Nat]
    /\ \A c \in Channels : depth[c] = 0 <=> owner[c] = Nobody
    /\ isLogging \in [Channels -> BOOLEAN]
    /\ file \in [Channels -> 0..MaxSessions]
    /\ observed \in [Channels -> BOOLEAN] /\ syncDue \in [Channels -> BOOLEAN]
    /\ pbuf \in Seq([id : Ids, state : {"alloc", "ready", "busy"}]) /\ Len(pbuf) <= Capacity
    /\ queued \in BOOLEAN
    /\ stage \in {"idle", "claim", "handle", "free", "return"}
    /\ pc \in [Actors -> {"idle", "open", "observe", "mark", "alloc", "remove", "commit", "submit"}]
    /\ chan \in [Actors -> Channels] /\ held \in [Actors -> Ids \cup {<<>>}]
    /\ session \in [Channels -> 0..MaxSessions] /\ messages \in [Channels -> 0..MaxMessages]
    /\ late \subseteq DataIds /\ restarted \subseteq Channels /\ dropped \subseteq Channels
    /\ missed \in BOOLEAN

(* A packet that could be claimed has the work on its way, or a committer   *)
(* about to submit it, except when the last commit found the work running   *)
(* but no longer looking: the packet then waits for another message.        *)
StalledOnlyByRace ==
    CanClaim(pbuf) /\ ~missed =>
      WorkIsPending \/ \E a \in Actors : pc[a] = "submit"

(* A message is written to the file of the session it was published in,     *)
(* whatever stops and starts meanwhile: a message the closed file refuses   *)
(* was published while its stop was in progress, or its channel was started *)
(* again before the stop was processed.                                     *)
InOwnFile ==
    stage = "handle" /\ ~IsStop(Claimed) =>
      \/ file[ChannelOf(Claimed)] = SessionOf(Claimed)
      \/ Claimed \in late
      \/ ChannelOf(Claimed) \in restarted

(* A channel that is being logged, and one with a sync due, have the file   *)
(* of the last session open, but for the same exceptions.                   *)
OpenWhileUsed ==
    \A c \in Channels \ restarted :
      isLogging[c] \/ (syncDue[c] /\ ~\E id \in late : ChannelOf(id) = c) =>
        file[c] = session[c]

(* An open file is lost by a start only if the last stop of the channel has *)
(* not been processed.                                                      *)
LeakOnlyAfterRace ==
    [][\A c \in Channels :
         file[c] # 0 /\ file'[c] # file[c] /\ file'[c] # 0 => c \in restarted']_vars
=============================================================================

------------------------------- MODULE Jy901b -------------------------------
(***************************************************************************)
(* The IMU driver (drivers/sensor/jy901b).  A fetch reads three blocks of  *)
(* registers in three transfers and stores the fields of each as soon as   *)
(* it has it; getting a channel reads the fields one by one.  Nothing is   *)
(* locked, and a transfer can fail when the blocks before it are stored.   *)
(* A field is represented by the sample it was read from.                  *)
(***************************************************************************)
EXTENDS Integers, Sequences, FiniteSets, Functions

CONSTANTS
    Clients,      \* threads that use the sensor
    Bursts,       \* the fields of each transfer, in the order they are stored
    Channels,     \* the fields of each channel, in the order they are read
    MaxSamples    \* bound: samples the chip takes

Fields == UNION {Range(Bursts[b]) : b \in DOMAIN Bursts}
Nothing == [value |-> 0, stored |-> 0]
BurstOf(f) == CHOOSE b \in DOMAIN Bursts : f \in Range(Bursts[b])

ASSUME JyAssumption ==
    /\ Bursts \in Seq(Seq(Fields)) /\ Bursts # <<>> /\ MaxSamples \in Nat
    /\ \A b \in DOMAIN Bursts : Bursts[b] # <<>>
    \* A field is stored once in a fetch.
    /\ \A b, d \in DOMAIN Bursts : \A j \in DOMAIN Bursts[b], k \in DOMAIN Bursts[d] :
         Bursts[b][j] = Bursts[d][k] => b = d /\ j = k
    \* The fields of a channel come in one transfer.
    /\ Channels \subseteq Seq(Fields)
    /\ \A ch \in Channels : ch # <<>> /\ \E b \in DOMAIN Bursts : Range(ch) \subseteq Range(Bursts[b])

VARIABLES
    ready,      \* jy901b_init() has succeeded: "none", "ready" or "failed"
    sample,     \* the chip's latest sample
    data,       \* struct jy901b_data
    pc,         \* what each client does: "idle", "read", "store" or "get"
    burst,      \* the transfer it is at
    read,       \* the sample that transfer has read, and the fields stored of it
    channel,    \* the channel it gets
    got,        \* the values it has got of it
    \* Bookkeeping for the property.
    mine,       \* the sample of each transfer of the client's latest fetch
    fetched,    \* that fetch succeeded
    disturbed,  \* another client has stored a field since that fetch began
    writers     \* clients that have stored a field

fetchVars == <<ready, data, burst, read, mine, fetched, disturbed, writers>>
jyVars == <<fetchVars, sample, pc, channel, got>>

(* The chip goes on sampling. *)
Sample ==
    /\ sample < MaxSamples /\ sample' = sample + 1
    /\ UNCHANGED <<fetchVars, pc, channel, got>>

(* jy901b_init(): the identity is checked, and the chip is unlocked,        *)
(* configured and saved; any of the transfers can fail, and the chip may    *)
(* not be the one expected.                                                 *)
Probe ==
    /\ ready = "none" /\ ready' \in {"ready", "failed"}
    /\ UNCHANGED <<sample, data, pc, burst, read, channel, got, mine, fetched, disturbed, writers>>

(* jy901b_sample_fetch() *)
StartFetch(c) ==
    /\ ready = "ready" /\ pc[c] = "idle"
    /\ pc' = [pc EXCEPT ![c] = "read"]
    /\ fetched' = [fetched EXCEPT ![c] = FALSE]
    /\ disturbed' = [disturbed EXCEPT ![c] = FALSE]
    /\ mine' = [mine EXCEPT ![c] = [b \in DOMAIN Bursts |-> 0]]
    /\ got' = [got EXCEPT ![c] = <<>>] /\ channel' = [channel EXCEPT ![c] = <<>>]
    /\ UNCHANGED <<ready, sample, data, burst, read, writers>>

Read(c) ==
    /\ pc[c] = "read"
    /\ pc' = [pc EXCEPT ![c] = "store"]
    /\ read' = [read EXCEPT ![c] = [value |-> sample, stored |-> 0]]
    /\ mine' = [mine EXCEPT ![c][burst[c]] = sample]
    /\ UNCHANGED <<ready, sample, data, burst, channel, got, fetched, disturbed, writers>>

(* Faulty: a failed transfer is only logged. *)
ReadFailsGoingOn(c) ==
    /\ pc[c] = "read"
    /\ LET last == burst[c] = Len(Bursts) IN
       /\ pc' = [pc EXCEPT ![c] = IF last THEN "idle" ELSE "read"]
       /\ burst' = [burst EXCEPT ![c] = IF last THEN 1 ELSE @ + 1]
       /\ fetched' = [fetched EXCEPT ![c] = last]
    /\ mine' = [mine EXCEPT ![c][burst[c]] = sample]
    /\ UNCHANGED <<ready, sample, data, read, channel, got, disturbed, writers>>

ReadFails(c) ==
    /\ pc[c] = "read"
    /\ pc' = [pc EXCEPT ![c] = "idle"] /\ burst' = [burst EXCEPT ![c] = 1]
    /\ UNCHANGED <<ready, sample, data, read, channel, got, mine, fetched, disturbed, writers>>

Store(c) ==
    LET fields == Bursts[burst[c]]
        k == read[c].stored + 1
        full == k = Len(fields)
        last == full /\ burst[c] = Len(Bursts)
    IN
    /\ pc[c] = "store"
    /\ data' = [data EXCEPT ![fields[k]] = read[c].value]
    /\ read' = [read EXCEPT ![c] = IF full THEN Nothing ELSE [@ EXCEPT !.stored = k]]
    /\ burst' = [burst EXCEPT ![c] = CASE last -> 1 [] full /\ ~last -> @ + 1 [] OTHER -> @]
    /\ pc' = [pc EXCEPT ![c] = CASE last -> "idle" [] full /\ ~last -> "read" [] OTHER -> "store"]
    /\ fetched' = [fetched EXCEPT ![c] = last]
    /\ disturbed' = [d \in Clients |-> disturbed[d] \/ d # c]
    /\ writers' = writers \cup {c}
    /\ UNCHANGED <<ready, sample, channel, got, mine>>

(* jy901b_channel_get(): a channel it knows; other channels change nothing. *)
StartGet(c, ch) ==
    /\ ready = "ready" /\ pc[c] = "idle"
    /\ pc' = [pc EXCEPT ![c] = "get"]
    /\ channel' = [channel EXCEPT ![c] = ch] /\ got' = [got EXCEPT ![c] = <<>>]
    /\ UNCHANGED <<fetchVars, sample>>

Get(c) ==
    /\ pc[c] = "get"
    /\ got' = [got EXCEPT ![c] = Append(@, data[channel[c][Len(@) + 1]])]
    /\ pc' = [pc EXCEPT ![c] = IF Len(got'[c]) = Len(channel[c]) THEN "idle" ELSE "get"]
    /\ UNCHANGED <<fetchVars, sample, channel>>

-----------------------------------------------------------------------------
JyInit ==
    /\ ready = "none" /\ sample = 1 /\ writers = {}
    /\ data = [f \in Fields |-> 0]
    /\ pc = [c \in Clients |-> "idle"]
    /\ burst = [c \in Clients |-> 1]
    /\ read = [c \in Clients |-> Nothing]
    /\ channel = [c \in Clients |-> <<>>] /\ got = [c \in Clients |-> <<>>]
    /\ mine = [c \in Clients |-> [b \in DOMAIN Bursts |-> 0]]
    /\ fetched = [c \in Clients |-> FALSE] /\ disturbed = [c \in Clients |-> FALSE]

JyNext ==
    \/ Sample \/ Probe
    \/ \E c \in Clients :
         \/ StartFetch(c) \/ Read(c) \/ ReadFails(c) \/ Store(c)
         \/ \E ch \in Channels : StartGet(c, ch)
         \/ Get(c)

(* What a thread gets after a successful fetch is what that fetch has read, *)
(* all components of a channel of one transfer, unless another thread has   *)
(* stored since the fetch began; and for the only thread that fetches, a    *)
(* channel is of one sample even after a fetch that failed half-way.        *)
GotTogether ==
    \A c \in Clients : pc[c] = "idle" /\ got[c] # <<>> =>
      /\ fetched[c] /\ ~disturbed[c] => \A k \in DOMAIN got[c] : got[c][k] = mine[c][BurstOf(channel[c][k])]
      /\ writers \subseteq {c} => Cardinality(Range(got[c])) = 1
=============================================================================

------------------------------- MODULE Amt21 -------------------------------
(***************************************************************************)
(* The steering encoder driver, drivers/sensor/amt21/amt21.c, and the      *)
(* serial line to the encoder.                                             *)
(*                                                                         *)
(* A fetch asks the encoder for its turns and then for its position, one   *)
(* command and two bytes of answer each, and starts over a number of times *)
(* when an answer is missing or garbled.  Bytes get lost or come after     *)
(* the timeout; the receiver holds a few and is never emptied.  The shaft  *)
(* turns meanwhile.                                                        *)
(***************************************************************************)
EXTENDS Integers, Sequences

CONSTANTS
    Resolution,   \* positions in a turn, 2^14 in the code
    Angles,       \* range of the shaft, in positions
    MULTI_TURN,   \* multi_turn of the devicetree
    READ_TRIES,   \* CONFIG_AMT21_READ_TRIES
    RxSize,       \* bytes the receiver holds
    MaxInFlight   \* bound: bytes on the line

Turns == 16384  \* that the encoder counts: 14 bits, half of them backwards

ASSUME Amt21Assumption ==
    /\ Resolution \in Nat \ {0} /\ Resolution <= Turns /\ 0 \in Angles /\ Angles \subseteq Int
    /\ \A a \in Angles : /\ a \div Resolution >= -(Turns \div 2)
                         /\ a \div Resolution < Turns \div 2
    /\ MULTI_TURN \in BOOLEAN
    /\ READ_TRIES \in Nat \ {0} /\ RxSize \in Nat \ {0} /\ MaxInFlight \in Nat

VARIABLES
    shaft,     \* the angle of the shaft, over all turns
    line,      \* bytes on their way: value, half and number of the answer
    rx,        \* bytes in the receiver
    doing,     \* "init", "idle", "fetch", or "absent": init failed
    cmd,       \* the command of the current read: "turns" or "pos"
    waiting,   \* whether it has been sent
    buf,       \* bytes of the answer so far
    turns,     \* the turns read
    tries,     \* attempts so far
    val,       \* the value of the last successful fetch
    result,    \* what the last fetch returned: "ok", "failed" or "none"
    \* Bookkeeping for the properties.
    late,      \* a byte came after a timeout and was still around
    passed,    \* the shaft passed the end of a turn in this attempt
    seen       \* angles of the shaft in this attempt

amtVars == <<shaft, line, rx, doing, cmd, waiting, buf, turns, tries, val, result, late, passed,
             seen>>
readVars == <<doing, cmd, waiting, buf, turns, tries, val, result>>

First == IF MULTI_TURN /\ doing = "fetch" THEN "turns" ELSE "pos"

(* The encoder answers with 14 bits, the turns in two's complement. *)
Answer(c) == IF c = "turns" THEN (shaft \div Resolution) % Turns ELSE shaft % Resolution

SignExtend(raw) == IF raw >= Turns \div 2 THEN raw - Turns ELSE raw

(* An attempt of a fetch has sent its first command. *)
Reading == doing = "fetch" /\ (waiting \/ cmd # First)

-----------------------------------------------------------------------------
(* The shaft, and the line. *)

Turn ==
    /\ \E a \in {shaft - 1, shaft + 1} \cap Angles :
         /\ shaft' = a
         /\ seen' = IF Reading THEN seen \cup {a} ELSE seen
         /\ passed' = (passed \/ (Reading /\ a \div Resolution # shaft \div Resolution))
    /\ UNCHANGED <<line, rx, readVars, late>>

(* A byte that arrives when the receiver is full is lost. *)
Arrive ==
    /\ line # <<>>
    /\ rx' = IF Len(rx) < RxSize THEN Append(rx, Head(line)) ELSE rx
    /\ line' = Tail(line)
    /\ UNCHANGED <<shaft, readVars, late, passed, seen>>

Lose ==
    /\ line # <<>>
    /\ line' = Tail(line)
    /\ UNCHANGED <<shaft, rx, readVars, late, passed, seen>>

-----------------------------------------------------------------------------
(* amt21_read(). *)

(* The encoder answers, unless it misses the command. *)
Send ==
    /\ doing \in {"init", "fetch"} /\ ~waiting
    /\ waiting' = TRUE /\ buf' = <<>>
    /\ \/ /\ Len(line) + 2 <= MaxInFlight
          /\ line' = line \o <<[value |-> Answer(cmd), half |-> 1], [value |-> Answer(cmd), half |-> 2]>>
       \/ UNCHANGED line
    /\ late' = (late /\ (cmd # First \/ line # <<>> \/ rx # <<>>))
    /\ seen' = seen \cup {shaft}
    /\ UNCHANGED passed
    /\ UNCHANGED <<shaft, rx, doing, cmd, turns, tries, val, result>>

PollIn ==
    /\ waiting /\ Len(buf) < 2 /\ rx # <<>>
    /\ buf' = Append(buf, Head(rx)) /\ rx' = Tail(rx)
    /\ UNCHANGED <<shaft, line, doing, cmd, waiting, turns, tries, val, result, late, passed, seen>>

(* Faulty: only the read that failed is tried again. *)
RetryRead ==
    /\ waiting' = FALSE /\ tries' = tries + 1
    /\ IF tries + 1 < READ_TRIES
         THEN UNCHANGED <<doing, cmd, result>>
         ELSE /\ doing' = IF doing = "init" THEN "absent" ELSE "idle"
              /\ result' = IF doing = "init" THEN result ELSE "failed"
              /\ UNCHANGED cmd
    /\ UNCHANGED <<turns, val>>

(* The read failed: the fetch, or amt21_init(), starts over or gives up. *)
Retry ==
    /\ waiting' = FALSE /\ tries' = tries + 1
    /\ IF tries + 1 < READ_TRIES
         THEN cmd' = First /\ UNCHANGED <<doing, result>>
         ELSE /\ doing' = IF doing = "init" THEN "absent" ELSE "idle"
              /\ result' = IF doing = "init" THEN result ELSE "failed"
              /\ UNCHANGED cmd
    /\ UNCHANGED <<turns, val>>

Timeout ==
    /\ waiting /\ Len(buf) < 2 /\ rx = <<>>
    /\ Retry
    /\ late' = (late \/ line # <<>>)
    /\ seen' = {} /\ passed' = FALSE
    /\ UNCHANGED <<shaft, line, rx, buf>>

(* Bytes of two answers pass the check by chance; the upper one dominates. *)
Whole == buf[1].half = 1 /\ buf[2] = [buf[1] EXCEPT !.half = 2]

Accept ==
    /\ Len(buf) = 2 /\ waiting
    /\ IF doing = "fetch" /\ cmd = "turns"
         THEN /\ turns' = SignExtend(buf[2].value)
              /\ cmd' = "pos"
              /\ UNCHANGED <<doing, val, result>>
         ELSE /\ doing' = "idle"
              /\ val' = IF doing = "fetch" THEN turns * Resolution + buf[2].value ELSE val
              /\ result' = IF doing = "fetch" THEN "ok" ELSE result
              /\ UNCHANGED <<turns, cmd>>
    /\ waiting' = FALSE
    /\ UNCHANGED <<shaft, line, rx, buf, tries, late, passed, seen>>

(* -EILSEQ, which amt21_init() takes for an encoder that is there. *)
Reject ==
    /\ Len(buf) = 2 /\ waiting /\ ~Whole
    /\ IF doing = "init"
         THEN doing' = "idle" /\ waiting' = FALSE /\ UNCHANGED <<cmd, turns, tries, val, result>>
         ELSE Retry
    /\ seen' = {} /\ passed' = FALSE
    /\ UNCHANGED <<shaft, line, rx, buf, late>>

-----------------------------------------------------------------------------
(* amt21_sample_fetch(). *)
SampleFetch ==
    /\ doing = "idle"
    /\ doing' = "fetch" /\ cmd' = IF MULTI_TURN THEN "turns" ELSE "pos"
    /\ waiting' = FALSE /\ turns' = 0 /\ tries' = 0 /\ result' = "none"
    /\ seen' = {} /\ passed' = FALSE
    /\ UNCHANGED <<shaft, line, rx, buf, val, late>>

(* amt21_attribute_set(): the encoder answers neither command.  After a     *)
(* reset it has forgotten the turns and what it had to send.                *)
SetZeroPos ==
    /\ doing \notin {"init", "absent"}
    /\ shaft' = 0
    /\ passed' = (passed \/ Reading)
    /\ UNCHANGED <<line, rx, readVars, late, seen>>

ResetEncoder ==
    /\ doing \notin {"init", "absent"}
    /\ shaft' = shaft % Resolution
    /\ line' = <<>>
    /\ passed' = (passed \/ Reading)
    /\ UNCHANGED <<rx, readVars, late, seen>>

AmtInit ==
    /\ shaft = 0 /\ line = <<>> /\ rx = <<>>
    /\ doing = "init" /\ cmd = "pos" /\ waiting = FALSE /\ buf = <<>>
    /\ turns = 0 /\ tries = 0 /\ val = 0 /\ result = "none"
    /\ late = FALSE /\ passed = FALSE /\ seen = {}

AmtNext ==
    \/ Turn \/ Arrive \/ Lose
    \/ Send \/ PollIn \/ Timeout \/ Accept \/ Reject
    \/ SampleFetch \/ SetZeroPos \/ ResetEncoder

-----------------------------------------------------------------------------
(* Properties. *)

(* A fetch that succeeds, at whatever attempt, returns an angle that the    *)
(* shaft had in that attempt, as its turns and position belong together,    *)
(* unless the shaft passed the end of a turn between the two reads; of a    *)
(* single-turn encoder, the position of such an angle; but for an answer    *)
(* that came after its timeout and was taken for the next one.              *)
FetchedTogether ==
    result = "ok" =>
      \/ late \/ (MULTI_TURN /\ passed)
      \/ \E a \in seen : val = IF MULTI_TURN THEN a ELSE a % Resolution
=============================================================================

------------------------------- MODULE Lights -------------------------------
(***************************************************************************)
(* The dashboard: segment displays and LED strips                          *)
(* (drivers/auxdisplay/gpio-seg-display, drivers/led_strip/gpio) on the    *)
(* outputs of a chain of shift registers (drivers/gpio/74hc595), as        *)
(* boards/nturt/ep7_vcu/dashboard.dtsi wires them.                         *)
(*                                                                         *)
(* The registers of the chain are GPIO ports that share one mutex, and one *)
(* transfer writes them all.  Registers hold pins of several devices: two  *)
(* strips share a port.  A display or strip remembers a mask and a value   *)
(* for each port it is on and sets one port after the other.  Each is used *)
(* by one thread, as Zephyr asks of devices without a lock; threads of     *)
(* different devices interleave between two calls to a port.  A transfer   *)
(* can fail after any number of bytes.                                     *)
(***************************************************************************)
EXTENDS Integers, Sequences, FiniteSets

CONSTANTS
    NumChilds,    \* registers in the chain; register 0 comes first in it
    Pins,         \* pins of a register
    Displays, Strips,
    Gpios,        \* <<port, pin>> of each LED or segment, in the order of init
    Segments,     \* segments of a digit, the decimal point last
    Font,         \* the segments of each character but the decimal point
    NUL,          \* the character that ends a text
    Texts,        \* what applications write to displays
    MaxFailures   \* bound: failed transfers

Ports == 0..NumChilds - 1
Devices == Displays \cup Strips
Leds(d) == 1..Len(Gpios[d])
NumDisp(d) == Len(Gpios[d]) \div Segments
DecimalPoint == Segments - 1

ASSUME LightsAssumption ==
    /\ NumChilds \in Nat \ {0} /\ Segments \in Nat \ {0} /\ MaxFailures \in Nat
    /\ Displays \cap Strips = {}
    /\ \A d \in Devices : Gpios[d] \in Seq(Ports \X Pins)
    /\ \A d \in Displays : Len(Gpios[d]) % Segments = 0
    \* Texts are sequences of characters.
    /\ \A text \in Texts : Len(text) \in Nat
    \* No pin is used twice.
    /\ \A d, e \in Devices : \A i \in Leds(d), j \in Leds(e) :
         Gpios[d][i] = Gpios[e][j] => d = e /\ i = j
    \* gpio_map[] has as many entries as there are LEDs, and a free one at its end.
    /\ \A d \in Devices : Cardinality({Gpios[d][i][1] : i \in Leds(d)}) < Len(Gpios[d])

VARIABLES
    output,       \* prt_data->output, by index
    written,  \* prt_data->initialized
    register,     \* the pins each register drives high
    port,         \* initialization of each port: "none", "ready" or "failed"
    map,          \* gpio_map of each device
    dev,          \* where each device is: "none", "failed", "idle" or "set"
    index,        \* the entry of its map that set_gpios() is at
    failures,
    \* Bookkeeping for the properties.
    stale,        \* no transfer has succeeded since the last that failed
    asked,        \* the LEDs each device was last asked to light
    ok,           \* the last call of each device returned success
    repeats       \* it repeated one that failed, and no transfer has failed since

chainVars == <<output, register, failures, stale, repeats>>
lightsVars == <<chainVars, written, port, map, dev, index, asked, ok>>

-----------------------------------------------------------------------------
(* The chain. *)

(* The last byte that is sent stays in the first register. *)
Index(p) == NumChilds - p - 1

(* The registers after n bytes of out were sent. *)
Shifted(out, n) ==
    [p \in Ports |-> IF p < n THEN out[n - p - 1] ELSE register[p - n]]

Transfer(out) ==
    /\ register' = Shifted(out, NumChilds)
    /\ stale' = FALSE
    /\ UNCHANGED <<failures, repeats>>

TransferFails(out) ==
    /\ failures < MaxFailures
    /\ failures' = failures + 1
    /\ \E n \in 0..NumChilds : register' = Shifted(out, n)
    /\ stale' = TRUE /\ repeats' = [d \in Devices |-> FALSE]

(* Faulty: a failed transfer leaves the new output remembered. *)
WriteKeepsOutput(p, pins, succeeds) ==
    LET out == [output EXCEPT ![Index(p)] = pins] IN
    /\ output' = out
    /\ IF pins = output[Index(p)] THEN succeeds /\ UNCHANGED <<register, failures, stale, repeats>>
       ELSE IF succeeds THEN Transfer(out) ELSE TransferFails(out)

(* gpio_74hc595_write_output(). *)
WriteOutput(p, pins, succeeds) ==
    LET out == [output EXCEPT ![Index(p)] = pins] IN
    \/ pins = output[Index(p)] /\ succeeds /\ UNCHANGED chainVars
    \/ pins # output[Index(p)] /\ succeeds /\ output' = out /\ Transfer(out)
    \/ pins # output[Index(p)] /\ ~succeeds /\ TransferFails(out) /\ UNCHANGED output

(* gpio_74hc595_port_set_masked_raw(). *)
PortSetMasked(p, mask, value, succeeds) ==
    WriteOutput(p, (output[Index(p)] \ mask) \cup (mask \cap value), succeeds)

(* gpio_74hc595_init() of the ports, one after the other: the first writes  *)
(* the outputs.                                                             *)
ChainInit(p, succeeds) ==
    /\ port[p] = "none" /\ \A q \in Ports : q < p => port[q] # "none"
    /\ written' = TRUE
    /\ port' = [port EXCEPT ![p] = IF succeeds THEN "ready" ELSE "failed"]
    /\ \/ written /\ succeeds /\ UNCHANGED <<register, failures, stale, repeats>>
       \/ ~written /\ succeeds /\ Transfer(output)
       \/ ~written /\ ~succeeds /\ TransferFails(output)
    /\ UNCHANGED <<output, map, dev, index, asked, ok>>

-----------------------------------------------------------------------------
(* Displays and strips. *)

(* The index of the entry of a port in a map, or of the first free one. *)
Entry(m, p) ==
    IF \E k \in 1..Len(m) : m[k].port = p
      THEN CHOOSE k \in 1..Len(m) : m[k].port = p
      ELSE Len(m) + 1

WithLed(m, gpio) ==
    LET k == Entry(m, gpio[1]) IN
    IF k <= Len(m) THEN [m EXCEPT ![k].mask = @ \cup {gpio[2]}]
    ELSE Append(m, [port |-> gpio[1], mask |-> {gpio[2]}, value |-> {}])

GpioMap(d) ==
    LET m[n \in 0..Len(Gpios[d])] == IF n = 0 THEN <<>> ELSE WithLed(m[n - 1], Gpios[d][n])
    IN  m[Len(Gpios[d])]

(* The pins of some LEDs on one port. *)
PinsAt(d, p, leds) == {Gpios[d][i][2] : i \in {j \in leds : Gpios[d][j][1] = p}}

(* Its values once the LEDs in lit are on and the others of changed off.    *)
Values(d, m, lit, changed) ==
    [k \in 1..Len(m) |->
       [m[k] EXCEPT !.value = (@ \ PinsAt(d, m[k].port, changed)) \cup PinsAt(d, m[k].port, lit)]]

(* led_strip_gpio_init() and gpio_seg_display_init(), after the ports': a   *)
(* display clears itself.  Configuring a pin keeps its output.              *)
DeviceInit(d) ==
    /\ dev[d] = "none" /\ \A p \in Ports : port[p] # "none"
    /\ IF \A i \in Leds(d) : port[Gpios[d][i][1]] = "ready"
         THEN /\ map' = [map EXCEPT ![d] = GpioMap(d)]
              /\ index' = [index EXCEPT ![d] = 1]
              /\ dev' = [dev EXCEPT ![d] = IF d \in Displays THEN "set" ELSE "idle"]
         ELSE dev' = [dev EXCEPT ![d] = "failed"] /\ UNCHANGED <<map, index>>
    /\ UNCHANGED <<chainVars, written, port, asked, ok>>

(* set_gpios(): one port, and the end of the map. *)
SetGpio(d, succeeds) ==
    LET m == map[d][index[d]] IN
    /\ dev[d] = "set" /\ index[d] <= Len(map[d])
    /\ PortSetMasked(m.port, m.mask, m.value, succeeds)
    /\ index' = [index EXCEPT ![d] = IF succeeds THEN @ + 1 ELSE 1]
    /\ dev' = [dev EXCEPT ![d] = IF succeeds THEN "set" ELSE "idle"]
    /\ UNCHANGED <<written, port, map, asked, ok>>

SetGpiosEnds(d) ==
    /\ dev[d] = "set" /\ index[d] > Len(map[d])
    /\ dev' = [dev EXCEPT ![d] = "idle"] /\ index' = [index EXCEPT ![d] = 1]
    /\ ok' = [ok EXCEPT ![d] = TRUE]
    /\ UNCHANGED <<chainVars, written, port, map, asked>>

StartSet(d, lit, changed) ==
    /\ map' = [map EXCEPT ![d] = Values(d, @, lit, changed)]
    /\ dev' = [dev EXCEPT ![d] = "set"]
    /\ ok' = [ok EXCEPT ![d] = FALSE]
    /\ repeats' = [repeats EXCEPT ![d] = ~ok[d] /\ asked'[d] = asked[d]]
    /\ UNCHANGED <<output, register, failures, stale, written, port, index>>

(* led_strip_gpio_update_rgb() with n pixels: the LEDs after them keep      *)
(* their values.                                                            *)
UpdateRgb(d, n, lit) ==
    /\ dev[d] = "idle"
    /\ asked' = [asked EXCEPT ![d] = (@ \ 1..n) \cup lit]
    /\ StartSet(d, lit, 1..n)

(* A character is written to digit k, or a decimal point added to it. *)
PutAt(s, k, n, ch) ==
    [val |-> [s.val EXCEPT ![k] = IF ch = "." THEN @ \cup {DecimalPoint} ELSE Font[ch]],
     n |-> n, i |-> s.i + 1, end |-> "no"]

(* Faulty: a leading decimal point belongs to the last digit. *)
PutPointOnLast(d, s, ch) ==
    IF ch = "." THEN PutAt(s, IF s.n = 0 THEN NumDisp(d) ELSE s.n, s.n, ch)
    ELSE PutAt(s, s.n + 1, s.n + 1, ch)

(* The switch of gpio_seg_display_write() for a character it knows; n is    *)
(* chr_index.                                                               *)
Put(d, s, ch) ==
    LET k == IF ch = "." /\ s.i # 0 THEN s.n ELSE s.n + 1 IN PutAt(s, k, k, ch)

EndsWith(s, end) == [val |-> s.val, n |-> s.n, i |-> s.i, end |-> end]

(* One character of its loop. *)
PutNext(d, s, ch) ==
    IF s.end # "no" THEN s
    ELSE IF ch = NUL \/ (s.n >= NumDisp(d) /\ ch # ".") THEN EndsWith(s, "break")
    ELSE IF ch = "." \/ ch \in DOMAIN Font THEN Put(d, s, ch)
    ELSE EndsWith(s, "invalid")

Parsed(d, text) ==
    LET s[n \in 0..Len(text)] ==
          IF n = 0 THEN [val |-> [k \in 1..NumDisp(d) |-> {}], n |-> 0, i |-> 0, end |-> "no"]
          ELSE PutNext(d, s[n - 1], text[n])
    IN  s[Len(text)]

SegmentsOf(val) ==
    {(x[1] - 1) * Segments + x[2] + 1 :
       x \in {y \in (1..Len(val)) \X (0..Segments - 1) : y[2] \in val[y[1]]}}

(* What a text looks like: every character starts a digit, but a decimal    *)
(* point belongs to the digit before it; what does not fit is cut off.      *)
Used(text) == {i \in 1..Len(text) : \A j \in 1..i : text[j] # NUL}
DigitOf(text, i) == Cardinality({j \in 1..i : j = 1 \/ text[j] # "."})
Glyph(ch) == IF ch = "." THEN {DecimalPoint} ELSE Font[ch]
Looks(text, chars, k) == UNION {Glyph(text[i]) : i \in {j \in chars : DigitOf(text, j) = k}}
Shows(d, text) == SegmentsOf([k \in 1..NumDisp(d) |-> Looks(text, Used(text), k)])

(* gpio_seg_display_write(): an invalid text is refused before anything     *)
(* changes.  Clearing a display, or switching it off, writes spaces.        *)
Write(d, text) ==
    LET parsed == Parsed(d, text) IN
    /\ dev[d] = "idle" /\ parsed.end # "invalid"
    /\ asked' = [asked EXCEPT ![d] = Shows(d, text)]
    /\ StartSet(d, SegmentsOf(parsed.val), Leds(d))

-----------------------------------------------------------------------------
LightsInit ==
    /\ output = [i \in Ports |-> {}] /\ written = FALSE
    /\ \E pins \in {{}, Pins} : register = [p \in Ports |-> pins]
    /\ port = [p \in Ports |-> "none"]
    /\ map = [d \in Devices |-> <<>>]
    /\ dev = [d \in Devices |-> "none"] /\ index = [d \in Devices |-> 1]
    /\ failures = 0 /\ stale = TRUE
    /\ asked = [d \in Devices |-> {}] /\ ok = [d \in Devices |-> d \in Strips]
    /\ repeats = [d \in Devices |-> FALSE]

Device(d) ==
    \/ DeviceInit(d)
    \/ \E succeeds \in BOOLEAN : SetGpio(d, succeeds)
    \/ SetGpiosEnds(d)

LightsNext ==
    \/ \E p \in Ports, succeeds \in BOOLEAN : ChainInit(p, succeeds)
    \/ \E d \in Devices : Device(d)
    \/ \E d \in Strips : \E n \in 0..Len(Gpios[d]) : \E lit \in SUBSET (1..n) : UpdateRgb(d, n, lit)
    \/ \E d \in Displays, text \in Texts : Write(d, text)

-----------------------------------------------------------------------------
(* Properties. *)

Showing(d) ==
    \A i \in Leds(d) : Gpios[d][i][2] \in register[Gpios[d][i][1]] <=> i \in asked[d]

(* A device whose last call succeeded has exactly the LEDs lit that it was  *)
(* asked for, whatever the others have written or failed to write to the    *)
(* same registers; for a display, those that the text stands for.  Only     *)
(* after a failed transfer, until one succeeds, the registers can be off:   *)
(* a call that asks for what is remembered then succeeds without transfer.  *)
ShowsLastWrite ==
    \A d \in Devices : dev[d] = "idle" /\ ok[d] /\ ~stale => Showing(d)

(* A call that repeats one that failed and succeeds shows what it asks for, *)
(* wherever the first had come to and whatever the failed transfer had left *)
(* in the registers.                                                        *)
RetryRepairs ==
    \A d \in Devices : dev[d] = "idle" /\ ok[d] /\ repeats[d] => Showing(d)
=============================================================================

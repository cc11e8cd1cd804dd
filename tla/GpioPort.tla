------------------------------ MODULE GpioPort ------------------------------
(***************************************************************************)
(* The two pins of the host as registers of its GPIO ports: the operations *)
(* of the five boards (ah618_gpio.h, bcm2835_gpio.h, imx93_gpio.h,         *)
(* rk3588_gpio.h, sg2002_gpio.h), and the cycles sw_dp.h makes of them.    *)
(*                                                                         *)
(* A step is one access of a register.  Where a register holds the bits of *)
(* several pins, a change of one is a load and a store of all: another     *)
(* process, or the kernel, that changes Neighbour, a pin of the same port, *)
(* may come between.                                                       *)
(***************************************************************************)
EXTENDS Integers, Sequences, SequencesExt

CONSTANTS
  Boards,      \* the boards: "ah618", "bcm2835", "imx93", "rk3588", "sg2002"
  Layouts      \* where the pins are: functions from the pins to ports

Pins == {"clk", "dio", "neighbour"}
Bit == {0, 1}

ASSUME PortAssumption ==
  /\ Boards \subseteq {"ah618", "bcm2835", "imx93", "rk3588", "sg2002"}
  /\ Layouts \subseteq [Pins -> Nat]

VARIABLES
  board, layout,   \* what the program runs on
  dir,             \* direction registers: TRUE where the pin drives its line
  latch,           \* data registers
  outside,         \* the level others give a line that the pin does not drive
  initialised,     \* _initialised
  call,            \* the call in progress or the last one
  ops,             \* the operations on pins it still has to do
  accesses,        \* the accesses of the present operation
  loaded,          \* the register it has loaded
  theirs,          \* the accesses of the neighbour's operation
  theirLoaded,
  taken,           \* history: the host has made SWDIO an output
  edges,           \* history: rising edges of SWCLK in this call, up to two
  overlap          \* history: an access came between a load and its store

registers == <<dir, latch>>
host == <<initialised, call, ops, accesses, loaded, taken, edges>>
neighbour == <<theirs, theirLoaded>>
vars == <<board, layout, registers, outside, host, neighbour, overlap>>

----------------------------------------------------------------------------
(* The operations of a board, as accesses of registers.                    *)

Load(reg, pin) == [op |-> "load", reg |-> reg, pin |-> pin, val |-> 0]
Store(reg, pin, val) == [op |-> "store", reg |-> reg, pin |-> pin, val |-> val]
Masked(reg, pin, val) == [op |-> "masked", reg |-> reg, pin |-> pin, val |-> val]
Sample(pin) == [op |-> "sample", reg |-> "data", pin |-> pin, val |-> 0]
Modify(reg, pin, val) == <<Load(reg, pin), Store(reg, pin, val)>>

\* PinInit: where the direction is a field of several bits, the field is
\* cleared first, which makes the pin an input, and then set.
PinInit(pin, output) ==
  CASE board \in {"ah618", "bcm2835"} ->
         Modify("dir", pin, 0) \o (IF output = 1 THEN Modify("dir", pin, 1) ELSE <<>>)
    [] board \in {"imx93", "sg2002"} -> Modify("dir", pin, output)
    [] board = "rk3588" -> <<Masked("dir", pin, output)>>

PinWrite_WholePort(pin, level) ==
  IF board \in {"ah618", "sg2002"} THEN <<Store("data", pin, level)>>
  ELSE <<Masked("data", pin, level)>>

\* WritePinOutput, SetPinsOutput and ClearPinsOutput; some ports have registers
\* that set or clear one pin.
PinWrite(pin, level) ==
  IF board \in {"ah618", "sg2002"} THEN Modify("data", pin, level)
  ELSE <<Masked("data", pin, level)>>

AccessesOf(o) ==
  CASE o.op = "init" -> PinInit(o.pin, o.val)
    [] o.op = "write" -> PinWrite(o.pin, o.val)
    [] o.op = "read" -> <<Sample(o.pin)>>

----------------------------------------------------------------------------
(* The calls of the bit driver, as operations on pins.                     *)

PinOp(op, pin, val) == [op |-> op, pin |-> pin, val |-> val]
ClkClr == PinOp("write", "clk", 0)
ClkSet == PinOp("write", "clk", 1)
DioOut(b) == PinOp("write", "dio", b)
DioEnable == PinOp("init", "dio", 1)
DioDisable == PinOp("init", "dio", 0)

PortInit_OnePin == <<DioEnable, DioOut(1), ClkSet, DioOut(0), ClkSet>>
PortInit == <<DioEnable, PinOp("init", "clk", 1), DioOut(1), ClkSet, DioOut(0), ClkSet>>
PortOff == <<DioDisable, PinOp("init", "clk", 0)>>

WriteBit_Late(b) == <<ClkClr, ClkSet, DioOut(b)>>

WriteBit(b) == <<DioOut(b), ClkClr, ClkSet>>
ReadBit == <<ClkClr, PinOp("read", "dio", 0), ClkSet>>

ClockCycle == <<ClkClr, ClkSet>>

\* A transfer as the wires see it: any sequence of these calls (SwdLine has
\* the order).  SWDIO is driven by write bits, and by no other cycle.
Offers ==
  IF ~initialised THEN {<<"init", PortInit>>}
  ELSE {<<"off", PortOff>>}
    \union (IF taken
              THEN {<<"write0", WriteBit(0)>>, <<"write1", WriteBit(1)>>,
                    <<"park", <<DioOut(1)>>>>, <<"release", <<DioDisable>>>>}
              ELSE {<<"read", ReadBit>>, <<"turn", ClockCycle>>, <<"take", <<DioEnable>>>>})

Cycles == {"write0", "write1", "read", "turn"}

----------------------------------------------------------------------------
Zeros == [p \in Pins |-> 0]

Init ==
  /\ board \in Boards /\ layout \in Layouts
  /\ dir = Zeros /\ latch \in [Pins -> Bit]
  /\ outside \in {[Zeros EXCEPT !["clk"] = b] : b \in Bit}
  /\ initialised = FALSE /\ call = "none" /\ ops = <<>> /\ accesses = <<>>
  /\ loaded = Zeros /\ theirs = <<>> /\ theirLoaded = Zeros
  /\ taken = FALSE /\ edges = 0 /\ overlap = FALSE

Level(p) == IF dir[p] = 1 THEN latch[p] ELSE outside[p]

\* The data register of the H6 and the H618 reads the line of an input.
Loaded(reg) ==
  IF reg = "dir" THEN dir
  ELSE IF board = "ah618" THEN [p \in Pins |-> Level(p)] ELSE latch

SamePort(p) == {q \in Pins : layout[q] = layout[p]}

\* A register with the bits of one pin changed, or all of them stored.
Put(old, a, base) ==
  CASE a.op = "masked" -> [old EXCEPT ![a.pin] = a.val]
    [] a.op = "store" -> [p \in Pins |-> IF p = a.pin THEN a.val
                                         ELSE IF p \in SamePort(a.pin) THEN base[p] ELSE old[p]]
    [] OTHER -> old

Access(a, base) ==
  /\ dir' = IF a.reg = "dir" THEN Put(dir, a, base) ELSE dir
  /\ latch' = IF a.reg = "data" THEN Put(latch, a, base) ELSE latch

\* a changes what the other side has loaded and not yet stored: the register,
\* or a direction that decides what was read.
Between(a, waiting) ==
  /\ a.op \in {"store", "masked"} /\ waiting # <<>> /\ Head(waiting).op = "store"
  /\ a.pin \in SamePort(Head(waiting).pin)
  /\ Head(waiting).reg = a.reg \/ (board = "ah618" /\ a.reg = "dir")

\* A call of the board's driver, when the one before it has returned.
Call ==
  /\ ops = <<>> /\ accesses = <<>>
  /\ \E offer \in Offers : call' = offer[1] /\ ops' = offer[2]
  /\ edges' = 0
  /\ UNCHANGED <<board, layout, registers, outside, initialised, accesses, loaded, taken,
                 neighbour, overlap>>

Takes(o) == IF o.op = "init" /\ o.pin = "dio" THEN o.val = 1 ELSE taken

\* One access by the program: the next of its operation, or the first of the
\* next operation.
Step ==
  /\ UNCHANGED <<board, layout, outside, call, neighbour>>
  /\ \/ accesses # <<>> /\ UNCHANGED <<ops, taken>>
     \/ accesses = <<>> /\ ops # <<>> /\ ops' = Tail(ops) /\ taken' = Takes(Head(ops))
  /\ LET now == IF accesses # <<>> THEN accesses ELSE AccessesOf(Head(ops))
         a == Head(now) IN
       /\ Access(a, loaded) /\ accesses' = Tail(now)
       /\ loaded' = IF a.op = "load" THEN Loaded(a.reg) ELSE Zeros
       /\ overlap' = (overlap \/ Between(a, theirs))
  /\ edges' = IF Level("clk") = 0 /\ Level("clk")' = 1 /\ edges < 2 THEN edges + 1 ELSE edges
  /\ initialised' = IF ops' = <<>> /\ accesses' = <<>> /\ call \in {"init", "off"}
                      THEN call = "init" ELSE initialised

\* The neighbour's next access: of its operation, or the first of another one.
Theirs ==
  IF theirs # <<>> THEN {theirs}
  ELSE UNION {{PinInit("neighbour", b), PinWrite("neighbour", b)} : b \in Bit}

\* The neighbour, with the operations of the same board.
TheyStep ==
  /\ \E now \in Theirs :
       LET a == Head(now) IN
       /\ Access(a, theirLoaded) /\ theirs' = Tail(now)
       /\ theirLoaded' = IF a.op = "load" THEN Loaded(a.reg) ELSE Zeros
       /\ overlap' = (overlap \/ Between(a, accesses))
  /\ UNCHANGED <<board, layout, outside, host>>

\* The target, and whoever else is at the lines; a level gets into a register
\* on one board only.
Outside ==
  /\ board = "ah618"
  /\ \E p \in {"dio", "neighbour"} : outside' = [outside EXCEPT ![p] = 1 - @]
  /\ UNCHANGED <<board, layout, registers, host, neighbour, overlap>>

Next == Call \/ Step \/ TheyStep \/ Outside

Spec == Init /\ [][Next]_vars

----------------------------------------------------------------------------
(* Properties.                                                             *)

\* Types of the state.
GpioTypeOK ==
  /\ {dir, latch, outside, loaded, theirLoaded} \subseteq [Pins -> Bit]
  /\ initialised \in BOOLEAN /\ taken \in BOOLEAN /\ overlap \in BOOLEAN
  /\ edges \in 0 .. 2
  /\ \A a \in ToSet(accesses) \union ToSet(theirs) : a.pin \in Pins /\ a.val \in Bit

Returned == ops = <<>> /\ accesses = <<>>

\* When a call has returned, the pins are as it should leave them, whatever
\* was loaded and stored on the way: SWCLK is driven high, SWDIO is driven if
\* and only if the host has taken it.
Settled ==
  Returned /\ initialised /\ ~overlap =>
    /\ dir["clk"] = 1 /\ latch["clk"] = 1 /\ (dir["dio"] = 1) = taken

\* Every cycle is one rising edge, on every board.
OneEdge == Returned /\ call \in Cycles /\ ~overlap => edges = 1

Rises == Level("clk") = 0 /\ Level("clk")' = 1

\* What the target sees at a rising edge is the bit of the cycle; in a cycle
\* that reads or turns around the host does not drive SWDIO.
BitAtEdge ==
  [][Rises /\ call \in Cycles /\ ~overlap' =>
       CASE call = "write0" -> dir["dio"] = 1 /\ latch["dio"] = 0
         [] call = "write1" -> dir["dio"] = 1 /\ latch["dio"] = 1
         [] OTHER -> dir["dio"] = 0]_vars

Drives(p) == IF dir[p] = 1 THEN latch[p] ELSE -1

\* An access by the program changes no line of anybody else, and, but where
\* loading gives the levels of inputs, not what a pin will drive later either.
NeighbourKept ==
  [][Step /\ ~overlap' => /\ UNCHANGED Drives("neighbour")
                          /\ board # "ah618" => UNCHANGED latch["neighbour"]]_vars

\* With registers that write one pin nothing can come between; where only the
\* levels have them, a change of direction can still be lost.
NothingBetween ==
  /\ board = "rk3588" => ~overlap
  /\ board \in {"bcm2835", "imx93"} =>
       \A a \in ToSet(accesses) \union ToSet(theirs) : a.op \in {"load", "store"} => a.reg = "dir"

\* The invariant of the pins: types, one edge per cycle, pins left as they should
\* be, and no room for others where a register has a mask.
PinsInv == GpioTypeOK /\ OneEdge /\ Settled /\ NothingBetween
=============================================================================

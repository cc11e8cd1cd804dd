------------------------------ MODULE SwdLine ------------------------------
(***************************************************************************)
(* The two wires: one SWD transfer bit by bit (SWD_TRANSFER_DEFINE of      *)
(* sw_dp.h), the sequences that bring the target into step (jtag_to_swd),  *)
(* and a target that listens, answers and drives SWDIO in turn.            *)
(*                                                                         *)
(* A step is one cycle of SWCLK.  Before its rising edge the host drives   *)
(* or samples SWDIO; at the edge the target samples it, or puts its next   *)
(* bit there.  The target is external; at most MaxFlips bits are received  *)
(* wrong, by either side, between one connection and the next.             *)
(***************************************************************************)
EXTENDS Integers, Sequences, SequencesExt, FiniteSets

CONSTANTS
  DataBits,    \* bits of a word (32 in the code)
  ResetSeen,   \* ones in a row that reset the line (50)
  ResetSent,   \* ones swd_reset sends (51)
  Words,       \* the words the host writes and the target sends
  MaxFlips     \* bits that may come wrong between two connections

\* The number of data bits is even, and a back-off is long enough for a packet
\* of ones.  The longest run of ones outside swd_reset
\* is no reset: a request of which a wrong bit makes six ones, turnaround,
\* acknowledge, the cycles backed off, and five ones of the next request.
\* In the code this is 49 < 50.  At most one bit is wrong: two make OK
\* of FAULT, and keep the parity of a word.
ASSUME LineAssumption ==
  /\ DataBits \in Nat /\ DataBits >= 8 /\ DataBits % 2 = 0
  /\ ResetSeen \in Nat /\ ResetSeen > DataBits + 17
  /\ ResetSent \in Nat /\ ResetSent >= ResetSeen
  /\ Words \subseteq [1 .. DataBits -> {0, 1}]
  /\ MaxFlips \in {0, 1}

VARIABLES
  todo,        \* the cycles the host still has to clock
  stage,       \* what they are: "sequence", "request" or "body"
  heard,       \* the bits the host has sampled in this transfer
  call,        \* "connect", or the request and the word of a transfer
  status,      \* "new", "running", or the acknowledge that was returned
  target,      \* the target's side: phase, bits collected or to send, ...
  done,        \* history: the accesses the target made since the request began
  bad,         \* history: it refused a word for its parity
  flips,       \* history: bits received wrong since the last connection
  synced       \* history: jtag_to_swd has been through since the last start

host == <<todo, stage, heard, call, status>>
vars == <<host, target, done, bad, flips, synced>>

Bit == {0, 1}
Parity(bits) == Cardinality({i \in DOMAIN bits : bits[i] = 1}) % 2

\* A request: APnDP, RnW, A2, A3.
Requests == [1 .. 4 -> Bit]
IsRead(r) == r[2] = 1
IdCode == <<0, 1, 0, 0>>

AckOf == [OK |-> <<1, 0, 0>>, WAIT |-> <<0, 1, 0>>, FAULT |-> <<0, 0, 1>>]

----------------------------------------------------------------------------
(* The cycles of the host.                                                 *)

Out(b) == [drives |-> TRUE, bit |-> b, samples |-> FALSE]
In == [drives |-> FALSE, bit |-> 0, samples |-> TRUE]
Turn == [drives |-> FALSE, bit |-> 0, samples |-> FALSE]

Times(n, cycle) == [i \in 1 .. n |-> cycle]
Sends(bits) == [i \in DOMAIN bits |-> Out(bits[i])]

\* swd_reset, swd_switch(0xE79E), low bits first, and the idle cycles of
\* read_idcode.
SwitchBits == <<0, 1, 1, 1, 1, 0, 0, 1,  1, 1, 1, 0, 0, 1, 1, 1>>
Reset == Times(ResetSent, Out(1))

JtagToSwd_OneReset == Reset \o Sends(SwitchBits) \o Times(8, Out(0))
JtagToSwd == Reset \o Sends(SwitchBits) \o Reset \o Times(8, Out(0))

\* Start, request, parity, stop, park; a turnaround; the acknowledge.
RequestCycles(r) ==
  <<Out(1)>> \o Sends(r) \o <<Out(Parity(r)), Out(0), Out(1), Turn, In, In, In>>

ReadCycles_NoTurn == Times(DataBits + 1, In)
ReadCycles == Times(DataBits + 1, In) \o <<Turn>>
WriteCycles(w) == <<Turn>> \o Sends(w) \o <<Out(Parity(w))>>

BackOff_TooLong == Times(2 * (DataBits + 2), Turn)

\* "Back off data phase": as long as the data of a read or of a write.
BackOff == Times(DataBits + 2, Turn)

\* What follows an acknowledge.
BodyCycles(ack, c) ==
  IF ack = AckOf.OK THEN IF IsRead(c.request) THEN ReadCycles ELSE WriteCycles(c.word)
  ELSE IF ack \in {AckOf.WAIT, AckOf.FAULT} THEN <<Turn>>
  ELSE BackOff

Result_NoParity(bits, c) ==
  CASE SubSeq(bits, 1, 3) = AckOf.OK -> "OK"
    [] SubSeq(bits, 1, 3) = AckOf.WAIT -> "WAIT"
    [] SubSeq(bits, 1, 3) = AckOf.FAULT -> "FAULT"
    [] OTHER -> "NONE"

\* What the transfer returns; a word of wrong parity is an error.
Result(bits, c) ==
  CASE SubSeq(bits, 1, 3) = AckOf.OK ->
         IF IsRead(c.request) /\ Parity(SubSeq(bits, 4, Len(bits))) # 0 THEN "ERROR" ELSE "OK"
    [] SubSeq(bits, 1, 3) = AckOf.WAIT -> "WAIT"
    [] SubSeq(bits, 1, 3) = AckOf.FAULT -> "FAULT"
    [] OTHER -> "NONE"

----------------------------------------------------------------------------
(* The target (external).  After a reset of the line it answers nothing    *)
(* before a read of its IDCODE; after a request with a wrong parity, stop  *)
(* or park bit it is deaf until the line is reset.                         *)

Drives == target.phase = "speak"
Listens == target.phase \in {"idle", "packet", "data", "reset", "lost", "jtag", "switch"}

\* The line is pulled up where nobody drives it.
OnLine(c) ==
  IF c.drives /\ Drives THEN Bit
  ELSE IF c.drives THEN {c.bit}
  ELSE IF Drives THEN {Head(target.bits)}
  ELSE {1}

WellFormed(bits) == /\ bits[5] = Parity(SubSeq(bits, 1, 4)) /\ bits[6] = 0 /\ bits[7] = 1
                    /\ target.fresh => SubSeq(bits, 1, 4) = IdCode

In_(phase) == [target EXCEPT !.phase = phase, !.bits = <<>>]

\* A start bit, the seven bits of a packet, and the turnaround after them.
Packet(b) ==
  LET bits == Append(target.bits, b) IN
  IF Len(bits) < 7 THEN [target EXCEPT !.bits = bits]
  ELSE IF WellFormed(bits) THEN [In_("turn") EXCEPT !.request = SubSeq(bits, 1, 4)]
  ELSE In_("lost")

\* Any answer may come but to IDCODE, which is always there.
Answer ==
  \/ /\ IsRead(target.request)
     /\ \E w \in Words :
          target' = [target EXCEPT !.phase = "speak", !.said = "OK", !.sent = w, !.fresh = FALSE,
                                   !.ones = 0, !.bits = AckOf.OK \o Append(w, Parity(w))]
     /\ done' = Append(done, [request |-> target.request, word |-> <<>>])
  \/ /\ ~IsRead(target.request)
     /\ target' = [target EXCEPT !.phase = "speak", !.said = "OK", !.ones = 0, !.bits = AckOf.OK]
     /\ UNCHANGED done
  \/ /\ target.request # IdCode
     /\ \E a \in {"WAIT", "FAULT"} :
          target' = [target EXCEPT !.phase = "speak", !.said = a, !.ones = 0, !.bits = AckOf[a]]
     /\ UNCHANGED done

\* Collects a word and its parity, and makes the access if they agree.
Takes(b) ==
  LET bits == Append(target.bits, b) IN
  IF Len(bits) <= DataBits
    THEN target' = [target EXCEPT !.bits = bits] /\ UNCHANGED <<done, bad>>
    ELSE /\ target' = In_("idle")
         /\ IF Parity(bits) = 0
              THEN /\ done' = Append(done, [request |-> target.request, word |-> Front(bits)])
                   /\ UNCHANGED bad
              ELSE bad' = TRUE /\ UNCHANGED done

Switches(b) ==
  LET bits == Append(target.bits, b) IN
  IF ~IsPrefix(bits, SwitchBits) THEN In_("jtag")
  ELSE IF bits = SwitchBits THEN In_("lost") ELSE [target EXCEPT !.bits = bits]

\* Ones in a row, up to this edge.
Ones(b) == IF b = 0 THEN 0 ELSE IF target.ones < ResetSeen THEN target.ones + 1 ELSE ResetSeen
Counted(t, b) == [t EXCEPT !.ones = Ones(b)]

\* What a rising edge with b on the line does.
Edge(b) ==
  CASE target.phase = "turn" -> Answer /\ UNCHANGED bad
    [] target.phase = "speak" ->
         /\ target' = IF Len(target.bits) > 1 THEN [target EXCEPT !.bits = Tail(@)] ELSE In_("back")
         /\ UNCHANGED <<done, bad>>
    [] target.phase = "back" ->
         /\ target' = IF target.said = "OK" /\ ~IsRead(target.request) THEN In_("data") ELSE In_("idle")
         /\ UNCHANGED <<done, bad>>
    [] target.phase = "data" -> Takes(b)
    [] target.phase \in {"jtag", "switch"} ->
         /\ target' = Counted(IF target.phase = "switch" THEN Switches(b)
                              ELSE IF b = 0 /\ target.ones = ResetSeen
                                THEN [target EXCEPT !.phase = "switch", !.bits = <<0>>] ELSE target, b)
         /\ UNCHANGED <<done, bad>>
    [] target.phase \in {"idle", "packet", "reset", "lost"} ->
         /\ target' = Counted(
              IF Ones(b) = ResetSeen THEN [In_("reset") EXCEPT !.fresh = TRUE]
              ELSE CASE target.phase = "idle" -> IF b = 1 THEN In_("packet") ELSE target
                     [] target.phase = "packet" -> Packet(b)
                     [] target.phase = "reset" -> IF b = 0 THEN In_("idle") ELSE target
                     [] target.phase = "lost" -> target, b)
         /\ UNCHANGED <<done, bad>>

----------------------------------------------------------------------------
Nothing == [op |-> "nothing"]
Connect == [op |-> "connect", request |-> IdCode]
Transfers ==
  {[op |-> "read", request |-> r] : r \in {q \in Requests : IsRead(q)}}
    \union {[op |-> "write", request |-> r, word |-> w] :
              r \in {q \in Requests : ~IsRead(q)}, w \in Words}

\* A target out of its power-on reset speaks JTAG; one that was used before
\* waits for a request.
Init ==
  /\ todo = <<>> /\ stage = "sequence" /\ heard = <<>> /\ call = Nothing /\ status = "new"
  /\ target \in [phase : {"jtag", "idle"}, bits : {<<>>}, ones : {0}, request : {IdCode},
                 said : {"OK"}, sent : {Times(DataBits, 0)}, fresh : {FALSE}]
  /\ done = <<>> /\ bad = FALSE /\ flips = 0 /\ synced = FALSE

Begins(c, what, cycles) ==
  /\ status # "running"
  /\ call' = c /\ status' = "running" /\ heard' = <<>>
  /\ stage' = what /\ todo' = cycles
  /\ done' = <<>> /\ bad' = FALSE

\* init_debug: PORT_INIT raises SWDIO and SWCLK, which may be an edge.
BeginConnect ==
  /\ \E edge \in 0 .. 1 : Begins(Connect, "sequence", Times(edge, Out(1)) \o JtagToSwd)
  /\ flips' = 0 /\ synced' = FALSE
  /\ UNCHANGED target

BeginTransfer(c) ==
  /\ synced
  /\ Begins(c, "request", RequestCycles(c.request))
  /\ UNCHANGED <<target, flips, synced>>

\* off, or the process dies: at any time.  Only a connection can follow.
Leave ==
  /\ status' = "new" /\ todo' = <<>> /\ synced' = FALSE
  /\ UNCHANGED <<stage, heard, call, target, done, bad, flips>>

\* One cycle.  A bit that is sampled may be received wrong.
Clock ==
  /\ status = "running" /\ todo # <<>>
  /\ LET c == Head(todo) IN
     \E line \in OnLine(c), flip \in Bit :
       /\ flips + flip <= MaxFlips /\ (flip = 1 => synced)
       /\ flips' = flips + flip
       /\ LET b == IF flip = 1 THEN 1 - line ELSE line IN
            /\ heard' = IF c.samples THEN Append(heard, b) ELSE heard
            /\ Edge(b)
  /\ todo' = Tail(todo)
  /\ UNCHANGED <<stage, call, status, synced>>

\* After the sequences the request, after the acknowledge the rest.
Continue ==
  /\ status = "running" /\ todo = <<>> /\ stage # "body"
  /\ IF stage = "sequence"
       THEN /\ stage' = "request" /\ todo' = RequestCycles(call.request)
            /\ synced' = TRUE /\ done' = <<>> /\ bad' = FALSE
       ELSE /\ stage' = "body" /\ todo' = BodyCycles(heard, call)
            /\ UNCHANGED <<synced, done, bad>>
  /\ UNCHANGED <<heard, call, status, target, flips>>

Return ==
  /\ status = "running" /\ todo = <<>> /\ stage = "body"
  /\ status' = Result(heard, call)
  /\ UNCHANGED <<todo, stage, heard, call, target, done, bad, flips, synced>>

Next ==
  \/ BeginConnect \/ \E c \in Transfers : BeginTransfer(c)
  \/ Clock \/ Continue \/ Return \/ Leave

Spec == Init /\ [][Next]_vars

----------------------------------------------------------------------------
(* Properties.                                                             *)

\* Types of the state.
LineTypeOK ==
  /\ todo \in Seq([drives : BOOLEAN, bit : Bit, samples : BOOLEAN])
  /\ stage \in {"sequence", "request", "body"}
  /\ heard \in Seq(Bit) /\ Len(heard) <= DataBits + 4
  /\ call \in Transfers \union {Nothing, Connect}
  /\ status \in {"new", "running", "OK", "WAIT", "FAULT", "ERROR", "NONE"}
  /\ target.phase \in {"jtag", "switch", "lost", "reset", "idle", "packet", "turn", "speak",
                       "back", "data"}
  /\ target.bits \in Seq(Bit) /\ target.ones \in 0 .. ResetSeen
  /\ done \in Seq([request : Requests, word : Words \union {<<>>} \union [1 .. DataBits -> Bit]])
  /\ flips \in 0 .. MaxFlips /\ bad \in BOOLEAN /\ synced \in BOOLEAN

\* The turnarounds: once the target is in step, the host drives SWDIO only in
\* cycles in which the target listens, whatever acknowledge it took for what.
NoContention == synced /\ status = "running" /\ todo # <<>> /\ Head(todo).drives => Listens

Finished == synced /\ status \notin {"new", "running"}

\* Every way out of a transfer, the back-off of a protocol error included,
\* ends where the target waits for a request or is deaf.
InStep == Finished => target.phase \in {"idle", "lost"}

Access == [request |-> call.request, word |-> IF call.op = "write" THEN call.word ELSE <<>>]

\* One wrong bit makes the target do nothing it was not asked for: what it
\* does in a transfer is that transfer, and at most once.
OnlyAsked == synced => done \in {<<>>, <<Access>>}

\* What a transfer returns is what the target answered.  OK means that the
\* target has done it, or has seen that the word to write came wrong.
AnswerIsTrue ==
  Finished =>
    /\ status = "OK" => IF bad THEN call.op = "write" /\ flips > 0 ELSE done = <<Access>>
    /\ status \in {"WAIT", "FAULT"} => done = <<>> /\ target.said = status
    /\ status = "OK" /\ IsRead(call.request) => SubSeq(heard, 4, DataBits + 3) = target.sent

\* What a transfer of which a bit may be wrong does and tells.
TransferIsTrue == OnlyAsked /\ AnswerIsTrue

\* The invariant of the wires: types, one driver at a time, and no way out of a
\* transfer that leaves the sides out of step.
LineInv == LineTypeOK /\ NoContention /\ InStep

\* jtag_to_swd, from wherever the target was left, in the middle of a word it
\* sent or was sent too: the read of IDCODE after it is answered.
Connects == Finished /\ call.op = "connect" /\ flips = 0 => status = "OK"

\* No transfer, and no back-off before another, resets the line.
NoFalseReset ==
  [][target'.phase = "reset" /\ target.phase # "reset" => stage = "sequence"]_vars
============================================================================

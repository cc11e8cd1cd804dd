----------------------------- MODULE SwdTarget -----------------------------
(***************************************************************************)
(* The target's core as the host commands it (swd_iface.cpp):              *)
(* set_target_state, the core registers, the call of a function of the     *)
(* flash algorithm, and the read command of main.cpp that uses them.       *)
(*                                                                         *)
(* A call is a list of exchanges, Plan(call), done one by one.  A word is  *)
(* written or read as a whole here (SwdMemory has the transfers it is made *)
(* of): the exchange succeeds, or fails with or without its effect.        *)
(* The core and its debug registers are external.                          *)
(***************************************************************************)
EXTENDS Integers, Sequences, SequencesExt

CONSTANTS
  Functions,   \* calls of functions of an algorithm: entry and arguments
  RegOrder,    \* the core registers of a call, in the order they are written:
               \* R0 - R3, R9, R13 - R15 and xPSR in the code
  RegPolls,    \* `timeout' of the polls for S_REGRDY (100 in the code)
  HaltPolls,   \* MAX_TIMEOUT of wait_until_halted (1000000 in the code)
  Ranges,      \* <<address, length>> of the reads of the command line
  Space,       \* addresses are counted modulo Space (2^32 in the code)
  Chunk        \* bytes read_memory of main.cpp reads at a time (32 in the code)

ASSUME TargetAssumption ==
  /\ RegOrder \in Seq(STRING) /\ {"r0", "r15"} \subseteq ToSet(RegOrder)
  /\ RegPolls \in Nat \ {0} /\ HaltPolls \in Nat \ {0}
  /\ Space \in Nat \ {0} /\ Chunk \in Nat \ {0}
  /\ Ranges \subseteq (0 .. Space - 1) \X (0 .. Space - 1)
  /\ Functions \cap {"own", "junk", "zero", "error", "none"} = {}

VARIABLES
  core,        \* "running" or "halted"
  doing,       \* what runs or ran last: "firmware", "wild" or a function
  regs,        \* who gave each core register its value
  dhcsr,       \* the bits of DHCSR and EMCR: debugen, halt, catch
  dcr,         \* DCRDR, and S_REGRDY of the last transfer asked for
  pins,        \* _initialised of the board: "on" or "off"
  call,        \* the call in progress or the last one
  at,          \* the place of the next exchange in its plan
  polls,       \* the rounds of the present poll, as far as they are counted
  status,      \* "new", "running", or what the call returned
  result,      \* what a call that goes on after an error will return
  shown,       \* the addresses the read command has printed
  started, outcome,    \* history: this call's function was started, its result
  wasReset, lost       \* history: this call has reset the core, lost an exchange

target == <<core, doing, regs, dhcsr, dcr>>
host == <<pins, call, at, polls, status, result, shown>>
history == <<started, outcome, wasReset, lost>>
vars == <<target, host, history>>

----------------------------------------------------------------------------
(* The exchanges, and what follows when one fails: "false" returns false,  *)
(* "next" goes on, "run" resumes the target and returns false, "end" ends  *)
(* the call.                                                               *)

Exchange(op, reg, val) == [op |-> op, reg |-> reg, val |-> val, max |-> 0, else |-> "false"]
Put(reg, val) == Exchange("put", reg, val)
Get(reg) == Exchange("get", reg, "none")
Port(reg) == Exchange("port", reg, "none")
Pins(val) == Exchange("pins", "none", val)
ReadAt(a, n) == Exchange("read", "memory", a .. (a + n) - 1)

\* Reads of DHCSR until the bit is seen, max times at most, or without limit.
Poll(bit, max) == [Exchange("poll", bit, "none") EXCEPT !.max = max]
NoLimit == 0

Regs == ToSet(RegOrder)

WriteCore_NoLimit(n, f) == <<Put("DCRDR", f), Put("DCRSR", n), Poll("REGRDY", NoLimit)>>

\* write_core_register and read_core_register.
WriteCore(n, f) == <<Put("DCRDR", f), Put("DCRSR", n), Poll("REGRDY", RegPolls)>>
ReadCore(n) == <<Get("DCRSR"), Poll("REGRDY", RegPolls), Get("DCRDR")>>

\* The first n registers of RegOrder, three exchanges for each.
WriteRegs(n, f) ==
  [i \in 1 .. 3 * n |-> WriteCore(RegOrder[((i - 1) \div 3) + 1], f)[((i - 1) % 3) + 1]]

WriteDebugState_RunsEarly(f) ==
  <<Port("SELECT")>> \o WriteRegs(Len(RegOrder) - 1, f)
    \o <<Put("DHCSR", {"debugen"})>> \o WriteCore(Last(RegOrder), f) \o <<Port("STAT")>>

\* write_debug_state: the registers, then the core is let go, then the status
\* of the port is looked at.
WriteDebugState(f) ==
  <<Port("SELECT")>> \o WriteRegs(Len(RegOrder), f) \o <<Put("DHCSR", {"debugen"}), Port("STAT")>>

\* flash_syscall_exec: wait_until_halted and the function's result in R0.
SyscallExec(f) == WriteDebugState(f) \o <<Poll("HALT", HaltPolls)>> \o ReadCore("r0")

HaltCore_NotAwaited == <<Put("DHCSR", {"debugen", "halt"})>>
HaltCore == <<Put("DHCSR", {"debugen", "halt"}), Poll("HALT", NoLimit)>>

SoftReset == <<Get("AIRCR"), Put("AIRCR", "reset")>>

\* In TARGET_RESET_PROGRAM the result of the write is not looked at.
TriedReset == <<Get("AIRCR"), [Put("AIRCR", "reset") EXCEPT !.else = "next"]>>

ResetProgram ==
  <<Pins("on"), Port("init_debug")>> \o HaltCore \o <<Put("EMCR", "catch")>>
    \o TriedReset \o <<Poll("HALT", NoLimit), Put("EMCR", "none")>>

Halt_ByReset == ResetProgram
Halt == <<Pins("on"), Port("init_debug")>> \o HaltCore

Run == <<Put("DHCSR", {}), Pins("off")>>

\* set_target_state; the states without a case of their own return false.
SetTargetState(s) ==
  CASE s = "RESET_HOLD" -> <<Pins("on")>>   \* set_target_reset has no pin
    [] s = "RESET_RUN" -> <<Pins("on")>> \o HaltCore \o SoftReset \o <<Pins("off")>>
    [] s = "RESET_PROGRAM" -> ResetProgram
    [] s = "NO_DEBUG" -> <<Pins("on"), Put("DHCSR", {})>>
    [] s = "DEBUG" -> <<Pins("on"), Port("jtag_to_swd"), Port("ABORT"), Port("SELECT"),
                        Port("CTRL"), Put("DHCSR", {"debugen"})>>
    [] s = "HALT" -> Halt
    [] s = "RUN" -> Run
    [] s = "POST_FLASH_RESET" -> <<Pins("on")>>
    [] OTHER -> <<Pins("on"), Exchange("refuse", "none", "none")>>

States == {"RESET_HOLD", "RESET_RUN", "RESET_PROGRAM", "NO_DEBUG", "DEBUG", "HALT", "RUN",
           "POST_FLASH_RESET", "POWER_ON"}

\* The loop of main.cpp's read_memory.  rd_end is the 32-bit sum: a range that
\* reaches the end of the address space has no piece.
Pieces(a, n) ==
  LET end == (a + n) % Space
      count == IF end < a THEN 0 ELSE ((end - a) + (Chunk - 1)) \div Chunk
      size(i) == IF i < count THEN Chunk ELSE (end - a) - ((count - 1) * Chunk) IN
  [i \in 1 .. count |->
     [ReadAt(a + ((i - 1) * Chunk), size(i)) EXCEPT !.else = "run"]]

\* The read command: what becomes of the final resume is not looked at.
Resume == [i \in 1 .. Len(Run) |-> [Run[i] EXCEPT !.else = "end"]]
ReadCommand(r) == Halt \o Pieces(r[1], r[2]) \o Resume

Plan(c) ==
  CASE c.op = "state" -> SetTargetState(c.state)
    [] c.op = "exec" -> SyscallExec(c.function)
    [] c.op = "read" -> ReadCommand(c.range)

Never == [op |-> "never"]
Calls ==
  {[op |-> "state", state |-> s] : s \in States}
    \union {[op |-> "exec", function |-> f] : f \in Functions}
    \union {[op |-> "read", range |-> r] : r \in Ranges}

----------------------------------------------------------------------------
(* The core (external).                                                    *)

All(who) == [r \in Regs |-> who]

\* What runs when the core is let go.
Resumed ==
  IF regs = All("own") THEN "firmware"
  ELSE IF \E f \in Functions : regs = All(f) THEN regs["r15"]
  ELSE "wild"

\* A write of DHCSR.
SetDhcsr(bits) ==
  /\ dhcsr' = [dhcsr EXCEPT !.debugen = "debugen" \in bits, !.halt = "halt" \in bits]
  /\ IF core = "halted" /\ "halt" \notin bits
       THEN core' = "running" /\ doing' = Resumed
       ELSE UNCHANGED <<core, doing>>
  /\ UNCHANGED <<regs, dcr>>

\* A system reset: the core halts at its first instruction if that is asked
\* for, and starts its firmware if not.
SystemReset ==
  /\ core' = IF dhcsr.catch /\ dhcsr.debugen THEN "halted" ELSE "running"
  /\ doing' = "firmware" /\ regs' = All("own")
  /\ dhcsr' = [dhcsr EXCEPT !.halt = FALSE]
  /\ dcr' = [dcr EXCEPT !.ready = FALSE]

\* A core register is transferred only while the core is halted.
Transferred(n) ==
  /\ regs' = IF core = "halted" THEN [regs EXCEPT ![n] = dcr.data] ELSE regs
  /\ dcr' = [dcr EXCEPT !.ready = (core = "halted")]
  /\ UNCHANGED <<core, doing, dhcsr>>

Fetched(n) ==
  /\ dcr' = [data |-> IF core = "halted" THEN regs[n] ELSE dcr.data, ready |-> (core = "halted")]
  /\ UNCHANGED <<core, doing, regs, dhcsr>>

Effect(x) ==
  CASE x.op = "put" /\ x.reg = "DHCSR" -> SetDhcsr(x.val)
    [] x.op = "put" /\ x.reg = "EMCR" ->
         dhcsr' = [dhcsr EXCEPT !.catch = (x.val = "catch")] /\ UNCHANGED <<core, doing, regs, dcr>>
    [] x.op = "put" /\ x.reg = "AIRCR" -> SystemReset
    [] x.op = "put" /\ x.reg = "DCRDR" ->
         dcr' = [dcr EXCEPT !.data = x.val] /\ UNCHANGED <<core, doing, regs, dhcsr>>
    [] x.op = "put" /\ x.reg = "DCRSR" -> Transferred(x.val)
    [] x.op = "get" /\ x.reg = "DCRSR" -> Fetched("r0")
    [] OTHER -> UNCHANGED target

\* The core halts some time after it was asked to, or never.
CoreHalts ==
  /\ core = "running" /\ dhcsr.debugen /\ dhcsr.halt
  /\ core' = "halted"
  /\ regs' = IF doing = "firmware" THEN regs ELSE All("junk")
  /\ UNCHANGED <<doing, dhcsr, dcr, host, history>>

\* A function reaches the breakpoint at its return address, with its result
\* in R0; so may what runs wild.
FunctionEnds ==
  /\ core = "running" /\ dhcsr.debugen /\ doing # "firmware"
  /\ core' = "halted"
  /\ \E r \in {"zero", "error"} :
       /\ regs' = [All("junk") EXCEPT !["r0"] = r]
       /\ outcome' = IF started THEN r ELSE outcome
  /\ UNCHANGED <<doing, dhcsr, dcr, host, started, wasReset, lost>>

Target == CoreHalts \/ FunctionEnds

----------------------------------------------------------------------------
\* Any target, one that a process before has left in the middle included.
Init ==
  /\ core \in {"running", "halted"}
  /\ doing = "firmware" /\ regs \in {All("own"), All("junk")}
  /\ dhcsr \in [debugen : BOOLEAN, halt : {FALSE}, catch : BOOLEAN]
  /\ core = "halted" => dhcsr.debugen
  /\ core = "running" => regs = All("own")
  /\ dcr = [data |-> "junk", ready |-> FALSE]
  /\ pins = "off" /\ call = Never /\ at = 1 /\ polls = 0
  /\ status = "new" /\ result = "true" /\ shown = {}
  /\ started = FALSE /\ outcome = "none" /\ wasReset = FALSE /\ lost = FALSE

\* The user: any call after any other, whatever that returned.
Begin(c) ==
  /\ status # "running"
  /\ call' = c /\ at' = 1 /\ polls' = 0
  /\ status' = "running" /\ result' = "true" /\ shown' = {}
  /\ started' = FALSE /\ outcome' = "none" /\ wasReset' = FALSE /\ lost' = FALSE
  /\ UNCHANGED <<target, pins>>

User == \E c \in Calls : Begin(c)

Goes == at' = at + 1 /\ polls' = 0 /\ UNCHANGED <<status, result>>
Ends(with) == status' = with /\ UNCHANGED <<at, polls, result>>

\* What a failed exchange leads to.
Fails(x) ==
  CASE x.else = "false" -> Ends("false")
    [] x.else = "next" -> Goes
    [] x.else = "run" ->
         /\ at' = (Len(Plan(call)) - Len(Resume)) + 1
         /\ polls' = 0 /\ result' = "false" /\ UNCHANGED status
    [] x.else = "end" -> Ends(result)

Moves(x, done) ==
  /\ started' = (started \/ (done /\ call.op = "exec" /\ core = "halted" /\ core' = "running"))
  /\ wasReset' = (wasReset \/ (done /\ x.reg = "AIRCR" /\ x.op = "put"))
  /\ UNCHANGED outcome

Wrong_Inverted(x) == x.op = "get" /\ x.reg = "DCRDR" /\ dcr.data = "zero"

\* The word read_core_register ends with decides the call: "Flash functions
\* return false if successful".
Wrong(x) == x.op = "get" /\ x.reg = "DCRDR" /\ dcr.data # "zero"

Succeeds(x) ==
  /\ x.op \in {"put", "get", "port", "read"} /\ pins = "on"
  /\ Effect(x) /\ Moves(x, TRUE)
  /\ IF Wrong(x) THEN Ends("false") ELSE Goes
  /\ shown' = IF x.op = "read" THEN shown \union x.val ELSE shown
  /\ UNCHANGED <<pins, call, lost>>

\* An exchange fails; what it was to do may have been done.
Loses(x) ==
  /\ x.op \in {"put", "get", "port", "read", "poll"}
  /\ lost' = TRUE
  /\ \/ UNCHANGED target /\ Moves(x, FALSE)
     \/ pins = "on" /\ x.op = "put" /\ Effect(x) /\ Moves(x, TRUE)
  /\ Fails(x)
  /\ UNCHANGED <<pins, call, shown>>

Seen(bit) == IF bit = "HALT" THEN core = "halted" ELSE dcr.ready

\* One round of a poll.  Rounds without limit are not counted.
Polls(x) ==
  /\ x.op = "poll" /\ pins = "on"
  /\ \/ Seen(x.reg) /\ Goes
     \/ /\ ~Seen(x.reg)
        /\ IF x.max # NoLimit /\ polls + 1 = x.max THEN Ends("false")
           ELSE /\ polls' = IF x.max = NoLimit THEN polls ELSE polls + 1
                /\ UNCHANGED <<at, status, result>>
  /\ UNCHANGED <<target, pins, call, shown, history>>

\* init and off of the board; a state without a case.
Switches(x) == x.op = "pins" /\ pins' = x.val /\ Goes /\ UNCHANGED <<target, call, shown, history>>
Refuses(x) == x.op = "refuse" /\ Ends("false") /\ UNCHANGED <<target, pins, call, shown, history>>

Ongoing == status = "running" /\ at <= Len(Plan(call))
This == Plan(call)[at]

Return ==
  /\ status = "running" /\ at > Len(Plan(call))
  /\ Ends(result) /\ UNCHANGED <<target, pins, call, shown, history>>

Advance ==
  \/ Ongoing /\ (Succeeds(This) \/ Polls(This) \/ Switches(This) \/ Refuses(This))
  \/ Ongoing /\ pins = "off" /\ Loses(This)   \* nothing answers
  \/ Return

Next == User \/ Advance \/ (Ongoing /\ Loses(This)) \/ Target

\* The host goes on by itself.  Nothing is assumed of the target, and no
\* exchange need be lost: a poll without limit may go on for ever.
Spec == Init /\ [][Next]_vars
FairSpec == Spec /\ WF_vars(Advance)

----------------------------------------------------------------------------
(* Properties.                                                             *)

Returned(what) == status = what /\ call.op # "never"
Done(s) == Returned("true") /\ call.op = "state" /\ call.state = s

\* Types of the state.
TargetTypeOK ==
  /\ core \in {"running", "halted"} /\ doing \in {"firmware", "wild"} \union Functions
  /\ regs \in [Regs -> {"own", "junk", "zero", "error"} \union Functions]
  /\ dhcsr \in [debugen : BOOLEAN, halt : BOOLEAN, catch : BOOLEAN]
  /\ dcr \in [data : {"own", "junk", "zero", "error"} \union Functions, ready : BOOLEAN]
  /\ pins \in {"on", "off"} /\ call \in Calls \union {Never}
  /\ status \in {"new", "running", "true", "false"} /\ result \in {"true", "false"}
  /\ status = "running" => at \in 1 .. Len(Plan(call)) + 1
  /\ polls \in 0 .. RegPolls + HaltPolls /\ shown \subseteq 0 .. Space - 1

\* set_target_state: when it returns true the core is in the state asked for,
\* the pins are released where the session ends, and a reset has taken place
\* unless the one write whose result is dropped was lost.
StateReached ==
  /\ Done("RESET_PROGRAM") => /\ core = "halted" /\ dhcsr.debugen /\ ~dhcsr.catch
                              /\ pins = "on" /\ (wasReset \/ lost)
  /\ Done("RESET_RUN") => wasReset /\ pins = "off" /\ (core = "running" \/ dhcsr.catch)
  /\ Done("HALT") => core = "halted" /\ dhcsr.debugen
  /\ Done("RUN") => core = "running" /\ ~dhcsr.debugen /\ pins = "off"
  /\ Done("DEBUG") => dhcsr.debugen

\* flash_syscall_exec: true means that the function of this very call was
\* started, has come back and has returned zero; not one that an earlier call
\* left running and that ends only now.
SyscallAnswers == Returned("true") /\ call.op = "exec" => outcome = "zero" /\ core = "halted"

\* write_debug_state: a call of a function lets the core go only when every
\* register holds what this call gave it.
StartsWhole ==
  [][status = "running" /\ call.op = "exec" /\ core = "halted" /\ core' = "running"
       => regs = All(call.function)]_vars

\* TARGET_HALT and TARGET_RUN, "without resetting it", and the read command:
\* the firmware they interrupt finds its registers as they were.
FirmwareKept ==
  [][status = "running" /\ (call.op = "read" \/ (call.op = "state" /\ call.state \in {"HALT", "RUN"}))
       => ~wasReset' /\ (doing = "firmware" => regs' = regs)]_vars

\* The read command: true means that every address of the range was printed,
\* and none besides, if its end is an address; nothing is printed if not.  The
\* target runs again if no exchange was lost.
ReadShowsRange ==
  Returned("true") /\ call.op = "read" =>
    /\ shown = LET a == call.range[1] n == call.range[2] IN
                 IF a + n < Space THEN a .. (a + n) - 1 ELSE {}
    /\ ~lost => core = "running" /\ ~dhcsr.debugen /\ pins = "off"

\* The invariant of the target's state: types, and what true means for a change
\* of the state and for a read.
TargetInv == TargetTypeOK /\ StateReached /\ ReadShowsRange

\* Every call returns, unless the core is asked to halt and never does: only
\* those polls have no limit.
CallReturns ==
  \/ (status = "running") ~> (status # "running")
  \/ <>[](dhcsr.halt /\ core = "running")
============================================================================

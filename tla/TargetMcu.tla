------------------------------ MODULE TargetMcu ------------------------------
(***************************************************************************)
(* The microcontroller at the other end of the SWD wires, as far as the    *)
(* programmer depends on it.  It is not part of the repository: what it    *)
(* does is taken from how target_flash.cpp and swd_iface.cpp use it.       *)
(*                                                                         *)
(* Every operator below is one exchange.  An exchange may fail for any     *)
(* reason (a line error, a timeout, a function that reports an error), and *)
(* the host does not know how much of it took place.                       *)
(***************************************************************************)
EXTENDS FlashLayout

VARIABLES
    flash,      \* contents of the flash
    resident,   \* the algorithm whose blob is intact in RAM, or NoAlgo
    prepared,   \* the algorithm whose Init has run, with no UnInit since
    core,       \* "running" or "halted"
    buffer      \* contents of the algorithm's program buffer in RAM

mcu == <<flash, resident, prepared, core, buffer>>

McuTypeOK ==
    /\ flash \in [Addr -> Byte]
    /\ resident \in Algos \cup {NoAlgo}
    /\ prepared \in Algos \cup {NoAlgo}
    /\ core \in {"running", "halted"}
    /\ buffer \in Seq(Byte)

\* The target as it is found: any flash out of Images, its firmware running.
McuInit(Images) ==
    /\ flash \in Images
    /\ resident = NoAlgo
    /\ prepared = NoAlgo
    /\ core = "running"
    /\ buffer = << >>

-----------------------------------------------------------------------------
\* Every mixture of old and new contents over the cells of span.
Mixed(old, new, span) ==
    {[x \in Addr |-> IF x \in S THEN new[x] ELSE old[x]] : S \in SUBSET span}

Span(addr, n) == {x \in Addr : addr <= x /\ x < addr + n}

\* algo can be called: it is in RAM, initialised, and the core is stopped.
Callable(algo) == resident = algo /\ prepared = algo /\ core = "halted"

(***************************************************************************)
(* set_target_state.  A reset ends whatever ran and the RAM is no longer   *)
(* trusted.  When the exchange fails the reset may or may not have been    *)
(* done.                                                                   *)
(***************************************************************************)
ResetTo(state) ==
    /\ resident' = NoAlgo
    /\ prepared' = NoAlgo
    /\ core' = state
    /\ UNCHANGED <<flash, buffer>>

ResetFails ==
    /\ \/ UNCHANGED <<resident, prepared>>
       \/ resident' = NoAlgo /\ prepared' = NoAlgo
    /\ core' \in {"running", "halted"}
    /\ UNCHANGED <<flash, buffer>>

\* write_memory of an algorithm blob; a failure leaves a damaged blob.
Download(algo) ==
    /\ resident' = algo
    /\ UNCHANGED <<flash, prepared, core, buffer>>

DownloadFails ==
    /\ resident' = NoAlgo
    /\ UNCHANGED <<flash, prepared, core, buffer>>

\* The Init and UnInit functions.  A failed call may leave the core running,
\* and a failed UnInit may have done its work.
CallInit(algo) ==
    /\ resident = algo /\ core = "halted"
    /\ prepared' = algo
    /\ UNCHANGED <<flash, resident, core, buffer>>

CallInitFails ==
    /\ core' \in {"running", "halted"}
    /\ UNCHANGED <<flash, resident, prepared, buffer>>

CallUnInit(algo) ==
    /\ resident = algo
    /\ prepared' = NoAlgo
    /\ core' = "halted"
    /\ UNCHANGED <<flash, resident, buffer>>

CallUnInitFails ==
    /\ prepared' \in {prepared, NoAlgo}
    /\ core' \in {"running", "halted"}
    /\ UNCHANGED <<flash, resident, buffer>>

\* EraseSector and EraseChip over the cells of span.
Erased == [x \in Addr |-> FF]

CallErase(algo, span) ==
    /\ Callable(algo)
    /\ span # {} /\ span \subseteq Covers[algo]
    /\ flash' = [x \in Addr |-> IF x \in span THEN FF ELSE flash[x]]
    /\ UNCHANGED <<resident, prepared, core, buffer>>

CallEraseFails(span) ==
    /\ flash' \in Mixed(flash, Erased, span)
    /\ core' \in {"running", "halted"}
    /\ UNCHANGED <<resident, prepared, buffer>>

\* What the host puts in the program buffer.
Load(data) ==
    /\ buffer' = data
    /\ UNCHANGED <<flash, resident, prepared, core>>

LoadFails ==
    /\ buffer' = << >>
    /\ UNCHANGED <<flash, resident, prepared, core>>

(***************************************************************************)
(* ProgramPage from the program buffer.  A cell can be programmed only     *)
(* when it is erased; over another value it becomes anything.              *)
(***************************************************************************)
Programmed(addr, junk) ==
    [x \in Addr |->
        IF x \notin Span(addr, Len(buffer)) THEN flash[x]
        ELSE LET new == buffer[x - addr + 1] IN
             IF flash[x] = FF THEN new
             ELSE IF new \in {FF, flash[x]} THEN flash[x] ELSE junk]

CallProgram(algo, addr) ==
    /\ Callable(algo)
    /\ addr + Len(buffer) - 1 \in Covers[algo]
    /\ Span(addr, Len(buffer)) \subseteq Covers[algo]
    /\ \E junk \in Byte : flash' = Programmed(addr, junk)
    /\ UNCHANGED <<resident, prepared, core, buffer>>

CallProgramFails(addr) ==
    /\ \E junk \in Byte :
        flash' \in Mixed(flash, Programmed(addr, junk), Span(addr, Len(buffer)))
    /\ core' \in {"running", "halted"}
    /\ UNCHANGED <<resident, prepared, buffer>>

\* The algorithm's verify function compares flash and program buffer.
Holds(addr, data) == \A i \in 1 .. Len(data) : addr + i - 1 \in Addr => flash[addr + i - 1] = data[i]

CallVerify(algo, addr) ==
    /\ Callable(algo)
    /\ Holds(addr, buffer)
    /\ UNCHANGED mcu

CallVerifyFails ==
    /\ core' \in {"running", "halted"}
    /\ UNCHANGED <<flash, resident, prepared, buffer>>
=============================================================================

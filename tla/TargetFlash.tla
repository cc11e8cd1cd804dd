----------------------------- MODULE TargetFlash -----------------------------
(***************************************************************************)
(* TargetFlash (target_flash.cpp): the flash primitives.  A primitive is a *)
(* call that runs in several exchanges with the target, one step each; at  *)
(* says where the call stands ("idle": no call, result holds what the last *)
(* one returned).  The callers are other modules: they start a call with   *)
(* one of the Call operators and go on when at is "idle" again.            *)
(***************************************************************************)
EXTENDS TargetMcu

VARIABLES
    flash_cfg,        \* _flash_cfg is set
    last_func,        \* _last_func_type
    current_algo,     \* _current_flash_algo
    tf_state,         \* TargetFlash::_flash_state, what flash_busy reports
    flash_start,      \* _flash_start_addr, the argument of Init
    default_region,   \* _default_flash_region, an index of Regions or 0
    at,               \* where the call stands
    addr, buf,        \* its arguments
    region,           \* flash_erase_chip: the region of the loop
    unverified,       \* write_size_duplicated
    result            \* what the last call returned

device == <<flash_cfg, last_func, current_algo, tf_state, flash_start, default_region>>
frame == <<at, addr, buf, region, unverified, result>>
tf_vars == <<mcu, device, frame>>

Func == {"NOP", "ERASE", "PROGRAM", "VERIFY"}
Err == {"NONE", "FAILURE", "INTERNAL", "RESET", "ALGO_DL", "ALGO_MISSING", "ALGO_DATA_SEQ",
        "INIT", "UNINIT", "ERASE_SECTOR", "ERASE_ALL", "WRITE", "WRITE_VERIFY"}
At == {"idle", "init", "uninit", "resume", "algo_set", "download", "erase", "erase_exec",
       "program", "page", "program_exec", "verify", "chip", "chip_algo", "chip_download",
       "chip_start", "chip_exec"}

DeviceTypeOK ==
    /\ flash_cfg \in BOOLEAN
    /\ last_func \in Func
    /\ current_algo \in Algos \cup {NoAlgo}
    /\ tf_state \in {"CLOSED", "OPEN"}
    /\ flash_start \in Addr
    /\ default_region \in {0} \cup DOMAIN Regions

FrameTypeOK ==
    /\ at \in At
    /\ addr \in Nat
    /\ buf \in Seq(Byte)
    /\ region \in Nat
    /\ unverified \in Nat
    /\ result \in Err

TFTypeOK == McuTypeOK /\ DeviceTypeOK /\ FrameTypeOK

DeviceInit ==
    /\ flash_cfg = FALSE
    /\ last_func = "NOP"
    /\ current_algo = NoAlgo
    /\ tf_state = "CLOSED"
    /\ flash_start = 0
    /\ default_region = 0
    /\ at = "idle"
    /\ addr = 0 /\ buf = << >> /\ region = 0 /\ unverified = 0
    /\ result = "NONE"

-----------------------------------------------------------------------------
(***************************************************************************)
(* Calls and returns.                                                      *)
(***************************************************************************)
StartCall(op, a, data) ==
    /\ at' = op
    /\ addr' = a
    /\ buf' = data
    /\ region' = 1
    /\ UNCHANGED <<mcu, device, unverified, result>>

CallFlashInit == StartCall("init", 0, << >>)
CallFlashUninit == StartCall("uninit", 0, << >>)
CallAlgoSet(a) == StartCall("algo_set", a, << >>)
CallEraseSector(a) == StartCall("erase", a, << >>)
CallProgramPage(a, data) == StartCall("program", a, data)
CallEraseChip == StartCall("chip", 0, << >>)

Goto(next) == at' = next /\ UNCHANGED <<addr, buf, region, unverified, result>>

Return(err) ==
    /\ at' = "idle"
    /\ result' = err
    \* the frame is gone
    /\ addr' = 0 /\ buf' = << >> /\ region' = 0 /\ unverified' = 0

\* The call goes on at next, or returns the error of a failed exchange.
GotoOr(ok, next, fails, err) ==
    \/ ok /\ Goto(next)
    \/ fails /\ Return(err)

-----------------------------------------------------------------------------
(***************************************************************************)
(* flash_func_start: UnInit when the current function ends with the        *)
(* session or with its algorithm, Init when the first function starts.     *)
(* Between two functions nothing is called.                                *)
(***************************************************************************)
Finishes_ProgramOnly(func) == last_func = "PROGRAM" /\ func = "NOP"
Finishes(func) == last_func # "NOP" /\ func = "NOP"

Starts_ProgramOnly(func) == last_func = "NOP" /\ func = "PROGRAM"
Starts(func) == last_func = "NOP" /\ func # "NOP"

FuncStartOk(func) ==
    /\ IF Finishes(func) THEN CallUnInit(current_algo)
       ELSE IF Starts(func) THEN CallInit(current_algo)
       ELSE UNCHANGED mcu
    /\ last_func' = func

FuncStartFails(func) ==
    /\ \/ Finishes(func) /\ CallUnInitFails
       \/ Starts(func) /\ CallInitFails
    /\ UNCHANGED last_func

FuncStartErr(func) == IF func = "NOP" THEN "UNINIT" ELSE "INIT"

\* flash_func_start(func), then the call goes on at next or returns the error.
FuncStart(func, next) ==
    /\ GotoOr(FuncStartOk(func), next, FuncStartFails(func), FuncStartErr(func))
    /\ UNCHANGED <<flash_cfg, current_algo, tf_state, flash_start, default_region>>

\* get_flash_algo: the algorithm, and the region it belongs to (0: none).
AlgoRegion(a) == IF RegionOf(a) # 0 THEN RegionOf(a) ELSE default_region
get_flash_algo(a) == IF AlgoRegion(a) = 0 THEN NoAlgo ELSE Regions[AlgoRegion(a)].algo
NoteStart_End(a) ==
    flash_start' = IF AlgoRegion(a) = 0 THEN flash_start ELSE Regions[AlgoRegion(a)].end
NoteStart(a) ==
    flash_start' = IF AlgoRegion(a) = 0 THEN flash_start ELSE Regions[AlgoRegion(a)].start

-----------------------------------------------------------------------------
(***************************************************************************)
(* flash_init.                                                             *)
(***************************************************************************)
FlashInit ==
    /\ at = "init"
    /\ flash_cfg' = TRUE
    /\ last_func' = "NOP"
    /\ current_algo' = NoAlgo
    /\ \/ /\ ResetTo("halted")
          /\ default_region' = IF FirstDefault # 0 THEN FirstDefault ELSE default_region
          /\ tf_state' = "OPEN"
          /\ Return("NONE")
       \/ /\ ResetFails
          /\ UNCHANGED <<default_region, tf_state>>
          /\ Return("RESET")
    /\ UNCHANGED flash_start

(***************************************************************************)
(* flash_uninit.  The result of the last reset is not looked at.           *)
(***************************************************************************)
FlashUninit ==
    /\ at = "uninit"
    /\ IF flash_cfg THEN FuncStart("NOP", "resume")
                    ELSE Return("FAILURE") /\ UNCHANGED <<mcu, device>>

FlashResume ==
    /\ at = "resume"
    /\ ResetTo("running") \/ ResetFails
    /\ tf_state' = "CLOSED"
    /\ Return("NONE")
    /\ UNCHANGED <<flash_cfg, last_func, current_algo, flash_start, default_region>>

(***************************************************************************)
(* flash_algo_set, called by itself or from the loop of flash_erase_chip   *)
(* (from): next is where the call goes on, dl where the download is.       *)
(***************************************************************************)
AlgoSet(from, next, dl) ==
    /\ at = from
    /\ NoteStart(addr)
    /\ LET new == get_flash_algo(addr) IN
       CASE new = NoAlgo -> Return("ALGO_MISSING") /\ UNCHANGED <<mcu, last_func>>
         [] new # NoAlgo /\ new = current_algo ->
              /\ IF next = "idle" THEN Return("NONE") ELSE Goto(next)
              /\ UNCHANGED <<mcu, last_func>>
         [] OTHER -> GotoOr(FuncStartOk("NOP"), dl, FuncStartFails("NOP"), "UNINIT")
    /\ UNCHANGED <<flash_cfg, current_algo, tf_state, default_region>>

AlgoDownload(from, next) ==
    /\ at = from
    /\ \/ /\ Download(get_flash_algo(addr))
          /\ current_algo' = get_flash_algo(addr)
          /\ IF next = "idle" THEN Return("NONE") ELSE Goto(next)
       \/ /\ DownloadFails
          /\ Return("ALGO_DL")
          /\ UNCHANGED current_algo
    /\ UNCHANGED <<flash_cfg, last_func, tf_state, flash_start, default_region>>

FlashAlgoSet == AlgoSet("algo_set", "idle", "download") \/ AlgoDownload("download", "idle")

(***************************************************************************)
(* flash_erase_sector.                                                     *)
(***************************************************************************)
\* The code divides by the size without a check: outside the table of sectors it
\* is 0 and what happens is undefined.  No caller goes there: the accessor erases
\* sectors it has looked up, and FlashDirect's user keeps to them.
OnSectorBoundary(a) == flash_erase_sector_size(a) # 0 /\ a % flash_erase_sector_size(a) = 0

FlashErase ==
    /\ at = "erase"
    /\ CASE ~flash_cfg -> Return("FAILURE") /\ UNCHANGED <<mcu, device>>
         [] flash_cfg /\ current_algo = NoAlgo -> Return("INTERNAL") /\ UNCHANGED <<mcu, device>>
         [] flash_cfg /\ current_algo # NoAlgo /\ ~OnSectorBoundary(addr) ->
              Return("ERASE_SECTOR") /\ UNCHANGED <<mcu, device>>
         [] OTHER -> FuncStart("ERASE", "erase_exec")

FlashEraseExec ==
    /\ at = "erase_exec"
    /\ \/ CallErase(current_algo, SectorCells(addr)) /\ Return("NONE")
       \/ CallEraseFails(SectorCells(addr)) /\ Return("ERASE_SECTOR")
    /\ UNCHANGED device

(***************************************************************************)
(* flash_program_page: one round of the loop per program buffer.           *)
(***************************************************************************)
FlashProgram ==
    /\ at = "program"
    /\ CASE ~flash_cfg -> Return("FAILURE") /\ UNCHANGED <<mcu, device>>
         [] flash_cfg /\ current_algo = NoAlgo ->
              Return("ALGO_MISSING") /\ UNCHANGED <<mcu, device>>
         [] OTHER -> FuncStart("PROGRAM", "page")

Page_Remainder == SubSeq(buf, 1, Len(buf) % PageSize[current_algo])
Page == SubSeq(buf, 1, Smaller(Len(buf), PageSize[current_algo]))

FlashPage ==
    /\ at = "page"
    /\ IF buf = << >>
       THEN Return("NONE") /\ UNCHANGED mcu
       ELSE GotoOr(Load(Page), "program_exec", LoadFails, "ALGO_DATA_SEQ")
    /\ UNCHANGED device

FlashProgramExec ==
    /\ at = "program_exec"
    /\ \/ /\ CallProgram(current_algo, addr)
          /\ at' = "verify"
          /\ unverified' = Len(buffer)
          /\ UNCHANGED <<addr, buf, region, result>>
       \/ CallProgramFails(addr) /\ Return("WRITE")
    /\ UNCHANGED device

\* n bytes are done with: addr += n, buf += n, size -= n.
Advance_WholeChunk(n) ==
    /\ addr' = addr + n
    /\ buf' = SubSeq(buf, n + 1, Len(buf))
    /\ unverified' = unverified - VerifyChunk
    /\ at' = IF unverified <= VerifyChunk THEN "page" ELSE "verify"
    /\ UNCHANGED <<region, result>>
Advance(n) ==
    /\ addr' = addr + n
    /\ buf' = SubSeq(buf, n + 1, Len(buf))
    /\ unverified' = unverified - n
    /\ at' = IF unverified = n THEN "page" ELSE "verify"
    /\ UNCHANGED <<region, result>>

\* With the algorithm's own verify function.
FlashVerifyCall ==
    /\ at = "verify"
    /\ HasVerify[current_algo]
    /\ last_func' = "VERIFY"
    /\ \/ CallVerify(current_algo, addr) /\ Advance(unverified)
       \/ CallVerifyFails /\ Return("WRITE_VERIFY")
    /\ UNCHANGED <<flash_cfg, current_algo, tf_state, flash_start, default_region>>

\* Without one: read back in pieces and compare.
VerifySize == Smaller(unverified, VerifyChunk)

ReadBackMatches_FirstByte == flash[addr] = buf[1]
ReadBackMatches == Holds(addr, SubSeq(buf, 1, VerifySize))

FlashVerifyRead ==
    /\ at = "verify"
    /\ ~HasVerify[current_algo]
    /\ \/ ReadBackMatches /\ Advance(VerifySize)
       \/ ~ReadBackMatches /\ Return("WRITE_VERIFY")
       \/ Return("ALGO_DATA_SEQ")
    /\ UNCHANGED <<mcu, device>>

(***************************************************************************)
(* flash_erase_chip: every region that has an algorithm, then a reset if   *)
(* the configuration asks for one.                                         *)
(***************************************************************************)
ChipDone_OffByOne == region >= Len(Regions)
ChipDone == region > Len(Regions)

FlashChipRegion ==
    /\ at = "chip"
    /\ CASE ~flash_cfg -> Return("FAILURE") /\ UNCHANGED <<mcu, device>>
         [] flash_cfg /\ ChipDone ->
              /\ IF EraseReset THEN Goto("init") ELSE Return("NONE")
              /\ UNCHANGED <<mcu, device>>
         [] OTHER ->
              /\ NoteStart(Regions[region].start)
              /\ IF get_flash_algo(Regions[region].start) = NoAlgo
                 THEN region' = region + 1 /\ UNCHANGED <<at, addr>>
                 ELSE at' = "chip_algo" /\ addr' = Regions[region].start /\ UNCHANGED region
              /\ UNCHANGED <<mcu, flash_cfg, last_func, current_algo, tf_state, default_region,
                             buf, unverified, result>>

FlashChipAlgo ==
    \/ AlgoSet("chip_algo", "chip_start", "chip_download")
    \/ AlgoDownload("chip_download", "chip_start")

FlashChipStart == at = "chip_start" /\ FuncStart("ERASE", "chip_exec")

FlashChipExec ==
    /\ at = "chip_exec"
    /\ \/ /\ CallErase(current_algo, Covers[current_algo])
          /\ at' = "chip"
          /\ region' = region + 1
          /\ UNCHANGED <<addr, buf, unverified, result>>
       \/ CallEraseFails(Covers[current_algo]) /\ Return("ERASE_ALL")
    /\ UNCHANGED device

-----------------------------------------------------------------------------
TFStep ==
    \/ FlashInit \/ FlashUninit \/ FlashResume
    \/ FlashAlgoSet
    \/ FlashErase \/ FlashEraseExec
    \/ FlashProgram \/ FlashPage \/ FlashProgramExec \/ FlashVerifyCall \/ FlashVerifyRead
    \/ FlashChipRegion \/ FlashChipAlgo \/ FlashChipStart \/ FlashChipExec

-----------------------------------------------------------------------------
(***************************************************************************)
(* A function of an algorithm is only called while that algorithm is in    *)
(* the target's RAM and, for everything but UnInit, initialised on a       *)
(* halted core: after an error, after a reset and after another algorithm  *)
(* was downloaded nothing is run that is no longer there.                  *)
(***************************************************************************)
CallsUnInit == at \in {"uninit", "algo_set", "chip_algo"} /\ last_func # "NOP"
CallsFunction == at \in {"erase_exec", "program_exec", "chip_exec"}

SyscallReady ==
    /\ CallsFunction => Callable(current_algo)
    /\ CallsUnInit => \/ resident = current_algo
                      \/ at # "uninit" /\ get_flash_algo(addr) \in {NoAlgo, current_algo}
=============================================================================

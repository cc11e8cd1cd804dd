---------------------------- MODULE FlashAccessor ----------------------------
(***************************************************************************)
(* FlashAccessor (flash_accessor.cpp): buffers the packets of a session    *)
(* one sector at a time and flushes a sector when a packet leaves it.  It  *)
(* derives from TargetFlash and calls it: pc says where the accessor's own *)
(* call stands, and it only moves when the primitive it called is through  *)
(* (at = "idle").                                                          *)
(*                                                                         *)
(* The user is any caller of init, write and uninit.  The process may die  *)
(* between any two exchanges and be started again.                         *)
(***************************************************************************)
EXTENDS TargetFlash, FlashImage

CONSTANTS Packets,      \* the packets a user may write: [addr, data]
          Images        \* the flash contents a target may come with

ASSUME UserAssumption ==
    /\ Packets \subseteq [addr : Nat, data : Seq(Byte)]
    /\ Images \subseteq [Addr -> Byte]

VARIABLES
    state,              \* FlashAccessor::_flash_state (hides the base's)
    sector_valid, last_packet,
    block_addr, block_size,       \* _current_write_block_*
    sector_addr, sector_size,     \* _current_sector_*
    page_empty, page,             \* _page_buf_empty, _page_buffer
    pc,                 \* where the call stands
    packet, data,       \* write: packet_addr and what is left of the data
    flush_to,           \* flush_current_block: its argument
    back_to,            \* where a helper returns to
    status,             \* the status a helper is about to return
    acc_result          \* what the last call returned

\* History: the packet of the running call, and what the calls promise.
VARIABLES taken, image, open, beyond, scope, outcome

sector == <<state, sector_valid, last_packet, block_addr, block_size, sector_addr, sector_size,
            page_empty, page>>
args == <<packet, data, flush_to, back_to, status>>
history == <<taken, image, open, beyond, scope, outcome>>
acc_vars == <<sector, pc, args, acc_result>>
vars == <<tf_vars, acc_vars, history>>

Pc == {"idle", "init", "valid", "block", "sector", "loop", "more", "copy",
       "setup", "setup_algo", "setup_undo",
       "flush", "compare", "erase", "erase_undo", "write", "flushed",
       "close", "closing"}

Fill(n) == [i \in 1 .. n |-> FF]

ResetSector ==
    /\ sector_valid' = FALSE
    /\ last_packet' = 0
    /\ block_addr' = 0 /\ block_size' = 0
    /\ sector_addr' = 0 /\ sector_size' = 0
    /\ page_empty' = TRUE

AccInit ==
    /\ state = "CLOSED"
    /\ sector_valid = FALSE /\ last_packet = 0
    /\ block_addr = 0 /\ block_size = 0 /\ sector_addr = 0 /\ sector_size = 0
    /\ page_empty = TRUE /\ page = << >>
    /\ pc = "idle"
    /\ packet = 0 /\ data = << >> /\ flush_to = 0 /\ back_to = "idle" /\ status = "NONE"
    /\ acc_result = "NONE"

NoPacket == [addr |-> 0, data |-> << >>]

HistoryInit ==
    /\ taken = NoPacket
    /\ image = Blank /\ open = NoSector /\ beyond = FALSE /\ scope = {} /\ outcome = "none"

\* Nothing is promised: the session begins, or it has failed.
Forget ==
    /\ taken' = NoPacket /\ image' = Blank /\ open' = NoSector
    /\ beyond' = FALSE /\ scope' = {}

Init == McuInit(Images) /\ DeviceInit /\ AccInit /\ HistoryInit

-----------------------------------------------------------------------------
Idle == at = "idle"

Jump(next) == pc' = next /\ UNCHANGED <<packet, data, flush_to, back_to, status, acc_result>>

\* Call a helper that comes back at next.
Gosub(helper, next) ==
    /\ pc' = helper
    /\ back_to' = next
    /\ UNCHANGED <<packet, data, status, acc_result>>

AccReturn(err) ==
    /\ pc' = "idle"
    /\ acc_result' = err
    /\ packet' = 0 /\ data' = << >> /\ flush_to' = 0 /\ back_to' = "idle" /\ status' = "NONE"

\* write fails: the session is in error from here on.
WriteFails(err) ==
    /\ state' = "ERROR"
    /\ AccReturn(err)
    /\ Forget
    /\ UNCHANGED outcome

-----------------------------------------------------------------------------
(***************************************************************************)
(* init                                                                    *)
(***************************************************************************)
CallInitSession ==
    /\ pc = "idle" /\ Idle
    /\ IF state # "CLOSED"
       THEN AccReturn("INTERNAL") /\ UNCHANGED <<tf_vars, sector>>
       ELSE /\ ResetSector
            /\ CallFlashInit
            /\ Jump("init")
            /\ UNCHANGED <<state, page>>
    /\ UNCHANGED history

InitDone ==
    /\ pc = "init" /\ Idle
    /\ AccReturn(result)
    /\ IF result = "NONE"
       THEN state' = "OPEN" /\ Forget /\ outcome' = "none"
       ELSE UNCHANGED <<state, history>>
    /\ UNCHANGED <<tf_vars, sector_valid, last_packet, block_addr, block_size, sector_addr,
                   sector_size, page_empty, page>>

-----------------------------------------------------------------------------
(***************************************************************************)
(* setup_next_sector(packet): the geometry of the packet's sector, then    *)
(* its algorithm, then a blank buffer.  When the algorithm cannot be set   *)
(* the target is given back at once.                                       *)
(***************************************************************************)
Setup ==
    /\ pc = "setup" /\ Idle
    /\ LET size == flash_erase_sector_size(packet) IN
       IF size = 0
       THEN /\ WriteFails("INTERNAL")
            /\ UNCHANGED <<tf_vars, sector_valid, last_packet, block_addr, block_size,
                           sector_addr, sector_size, page_empty, page>>
       ELSE /\ sector_addr' = ROUND_DOWN(packet, size)
            /\ sector_size' = size
            /\ block_addr' = ROUND_DOWN(packet, size)
            /\ block_size' = size
            /\ page' = IF block_size = size THEN page ELSE Fill(size)
            /\ CallAlgoSet(ROUND_DOWN(packet, size))
            /\ Jump("setup_algo")
            /\ UNCHANGED <<history, state, sector_valid, last_packet, page_empty>>

SetupAlgo ==
    /\ pc = "setup_algo" /\ Idle
    /\ IF result = "NONE"
       THEN /\ page' = Fill(block_size)
            /\ Jump(back_to)
            /\ UNCHANGED tf_vars
       ELSE /\ CallFlashUninit
            /\ pc' = "setup_undo"
            /\ status' = result
            /\ UNCHANGED <<page, packet, data, flush_to, back_to, acc_result>>
    /\ UNCHANGED <<history, state, sector_valid, last_packet, block_addr, block_size,
                   sector_addr, sector_size, page_empty>>

\* The helper fails, and with it write.
SetupUndo ==
    /\ pc = "setup_undo" /\ Idle
    /\ WriteFails(status)
    /\ UNCHANGED <<tf_vars, sector_valid, last_packet, block_addr, block_size,
                   sector_addr, sector_size, page_empty, page>>

-----------------------------------------------------------------------------
(***************************************************************************)
(* flush_current_block(flush_to) and compare_flush_current_block.  The     *)
(* block is read back (in pieces, any of which may fail): one that already *)
(* holds the data is left alone, one that is not blank has its sector      *)
(* erased first.                                                           *)
(***************************************************************************)
Flush ==
    /\ pc = "flush" /\ Idle
    /\ Jump(IF page_empty THEN "flushed" ELSE "compare")
    /\ UNCHANGED <<tf_vars, history, sector>>

FlushWith(err, next) ==
    /\ pc' = next
    /\ status' = err
    /\ UNCHANGED <<packet, data, flush_to, back_to, acc_result>>

BlockReadable == block_addr + block_size - 1 <= MaxAddr
SameAsFlash == Holds(block_addr, page)
FlashIsEmpty_FirstByte == flash[block_addr] = FF
FlashIsEmpty == \A a \in Span(block_addr, block_size) : flash[a] = FF

Compare ==
    /\ pc = "compare" /\ Idle
    /\ \/ /\ FlushWith("ALGO_DATA_SEQ", "flushed")
          /\ UNCHANGED tf_vars
       \/ /\ BlockReadable
          /\ CASE SameAsFlash -> Jump("flushed") /\ UNCHANGED tf_vars
               [] ~SameAsFlash /\ FlashIsEmpty ->
                    CallProgramPage(block_addr, page) /\ Jump("write")
               [] OTHER -> CallEraseSector(sector_addr) /\ Jump("erase")
    /\ UNCHANGED <<history, sector>>

EraseDone ==
    /\ pc = "erase" /\ Idle
    /\ IF result = "NONE"
       THEN CallProgramPage(block_addr, page) /\ Jump("write")
       ELSE CallFlashUninit /\ FlushWith(result, "erase_undo")
    /\ UNCHANGED <<history, sector>>

EraseUndo ==
    /\ pc = "erase_undo" /\ Idle
    /\ Jump("flushed")
    /\ UNCHANGED <<tf_vars, history, sector>>

WriteDone ==
    /\ pc = "write" /\ Idle
    /\ FlushWith(result, "flushed")
    /\ UNCHANGED <<tf_vars, history, sector>>

\* The end of flush_current_block, and what its caller does with the status.
Flushed ==
    /\ pc = "flushed" /\ Idle
    /\ page_empty' = TRUE
    /\ page' = Fill(block_size)
    /\ block_addr' = IF block_size = 0 THEN block_addr ELSE ROUND_DOWN(flush_to, block_size)
    /\ LET err == IF block_size = 0 THEN "INTERNAL" ELSE status IN
       IF back_to # "close" /\ err # "NONE"
       THEN WriteFails(err)
       ELSE FlushWith(err, back_to) /\ UNCHANGED <<state, history>>
    /\ UNCHANGED <<tf_vars, sector_valid, last_packet, block_size, sector_addr, sector_size>>

-----------------------------------------------------------------------------
(***************************************************************************)
(* write                                                                   *)
(***************************************************************************)
Accepting == state = "OPEN"

Write(p, d) ==
    /\ pc = "idle" /\ Idle
    /\ IF ~Accepting
       THEN AccReturn("INTERNAL") /\ UNCHANGED history
       ELSE /\ packet' = p /\ data' = d
            /\ taken' = [addr |-> p, data |-> d]
            /\ scope' = scope \cup SectorsOf(p, d)
            /\ pc' = IF sector_valid THEN "block" ELSE "setup"
            /\ back_to' = IF sector_valid THEN "idle" ELSE "valid"
            /\ UNCHANGED <<flush_to, status, acc_result, image, open, beyond, outcome>>
    /\ UNCHANGED <<tf_vars, sector>>

Valid ==
    /\ pc = "valid" /\ Idle
    /\ sector_valid' = TRUE
    /\ last_packet' = packet
    /\ Jump("block")
    /\ UNCHANGED <<tf_vars, history, state, block_addr, block_size, sector_addr, sector_size,
                   page_empty, page>>

\* non-increasing address support: the packet is in another block
CheckBlock ==
    /\ pc = "block" /\ Idle
    /\ IF ROUND_DOWN(packet, block_size) # ROUND_DOWN(last_packet, block_size)
       THEN Gosub("flush", "sector") /\ flush_to' = packet
       ELSE Jump("sector")
    /\ UNCHANGED <<tf_vars, history, sector>>

CheckSector ==
    /\ pc = "sector" /\ Idle
    /\ IF ROUND_DOWN(packet, sector_size) # ROUND_DOWN(last_packet, sector_size)
       THEN Gosub("setup", "loop") /\ UNCHANGED flush_to
       ELSE Jump("loop")
    /\ UNCHANGED <<tf_vars, history, sector>>

LoopFlush ==
    /\ pc = "loop" /\ Idle
    /\ IF packet >= block_addr + block_size
       THEN Gosub("flush", "more") /\ flush_to' = packet
       ELSE Jump("more")
    /\ UNCHANGED <<tf_vars, history, sector>>

\* Nothing left: write returns, and the packet is accepted.
LoopEnd ==
    /\ pc = "more" /\ Idle
    /\ data = << >>
    /\ last_packet' = packet
    /\ AccReturn("NONE")
    /\ image' = ImageAfter(image, open, taken.addr, taken.data)
    /\ open' = OpenAfter(open, taken.addr, taken.data)
    /\ beyond' = (beyond \/ PastEnd(taken.addr, taken.data))
    /\ taken' = NoPacket
    /\ UNCHANGED <<tf_vars, state, sector_valid, block_addr, block_size, sector_addr, sector_size,
                   page_empty, page, scope, outcome>>

\* the sector's end counted as part of it
LoopSector_OffByOne ==
    /\ pc = "more" /\ Idle
    /\ data # << >>
    /\ IF packet > sector_addr + sector_size
       THEN Gosub("setup", "copy") /\ UNCHANGED flush_to
       ELSE Jump("copy")
    /\ UNCHANGED <<tf_vars, history, sector>>
LoopSector ==
    /\ pc = "more" /\ Idle
    /\ data # << >>
    /\ IF packet >= sector_addr + sector_size
       THEN Gosub("setup", "copy") /\ UNCHANGED flush_to
       ELSE Jump("copy")
    /\ UNCHANGED <<tf_vars, history, sector>>

CopySize_OffByOne == Smaller(Len(data), block_size - (packet - block_addr) - 1)
CopySize == Smaller(Len(data), block_size - (packet - block_addr))

Copy ==
    /\ pc = "copy" /\ Idle
    /\ LET start == packet - block_addr
           n == CopySize IN
       /\ page' = [i \in 1 .. block_size |->
                      IF start < i /\ i <= start + n THEN data[i - start] ELSE page[i]]
       /\ page_empty' = (n = 0)
       /\ packet' = packet + n
       /\ data' = SubSeq(data, n + 1, Len(data))
    /\ pc' = "loop"
    /\ UNCHANGED <<tf_vars, history, state, sector_valid, last_packet, block_addr, block_size,
                   sector_addr, sector_size, flush_to, back_to, status, acc_result>>

-----------------------------------------------------------------------------
(***************************************************************************)
(* uninit                                                                  *)
(***************************************************************************)
Uninit ==
    /\ pc = "idle" /\ Idle
    /\ CASE state = "CLOSED" -> AccReturn("INTERNAL")
         [] state = "OPEN" -> Gosub("flush", "close") /\ flush_to' = 0
         [] state = "ERROR" -> Jump("close")
    /\ UNCHANGED <<tf_vars, history, sector>>

Close ==
    /\ pc = "close" /\ Idle
    /\ CallFlashUninit
    /\ Jump("closing")
    /\ UNCHANGED <<history, sector>>

\* Make sure an error from a page write or from an uninit gets propagated.
UninitResult_UninitOnly == result
UninitResult == IF result # "NONE" THEN result ELSE status

Closing ==
    /\ pc = "closing" /\ Idle
    /\ ResetSector
    /\ state' = "CLOSED"
    /\ AccReturn(UninitResult)
    /\ IF state = "OPEN" /\ UninitResult = "NONE"
       THEN outcome' = "ok" /\ UNCHANGED <<taken, image, open, beyond, scope>>
       ELSE outcome' = "failed" /\ Forget
    /\ UNCHANGED <<tf_vars, page>>

-----------------------------------------------------------------------------
(***************************************************************************)
(* The process dies and is started again: every variable of the host is as *)
(* its constructor leaves it, the target stays as it was.                  *)
(***************************************************************************)
Die ==
    /\ pc # "idle" \/ state # "CLOSED"
    /\ UNCHANGED mcu
    /\ flash_cfg' = FALSE /\ last_func' = "NOP" /\ current_algo' = NoAlgo
    /\ tf_state' = "CLOSED" /\ flash_start' = 0 /\ default_region' = 0
    /\ Return("NONE")
    /\ ResetSector
    /\ state' = "CLOSED" /\ page' = << >>
    /\ AccReturn("NONE")
    /\ Forget /\ outcome' = "none"

AccStep ==
    \/ InitDone
    \/ Setup \/ SetupAlgo \/ SetupUndo
    \/ Flush \/ Compare \/ EraseDone \/ EraseUndo \/ WriteDone \/ Flushed
    \/ Valid \/ CheckBlock \/ CheckSector \/ LoopFlush \/ LoopEnd \/ LoopSector \/ Copy
    \/ Close \/ Closing

DeviceStep == TFStep /\ UNCHANGED <<acc_vars, history>>

User ==
    \/ CallInitSession
    \/ \E k \in Packets : Write(k.addr, k.data)
    \/ Uninit

Next == User \/ AccStep \/ DeviceStep \/ Die

(***************************************************************************)
(* A call that was started goes on until it returns: the code is a single  *)
(* thread, and every exchange with the target ends.  Nobody has to call.   *)
(***************************************************************************)
Spec == Init /\ [][Next]_vars /\ WF_vars(AccStep \/ DeviceStep)
-----------------------------------------------------------------------------
(***************************************************************************)
(* Properties                                                              *)
(***************************************************************************)
AccTypeOK ==
    /\ state \in {"CLOSED", "OPEN", "ERROR"}
    /\ sector_valid \in BOOLEAN
    /\ last_packet \in Nat
    /\ block_addr \in Nat /\ block_size \in Nat
    /\ sector_addr \in Nat /\ sector_size \in Nat
    /\ page_empty \in BOOLEAN
    /\ page \in Seq(Byte)
    /\ pc \in Pc /\ back_to \in {"idle", "valid", "sector", "loop", "more", "copy", "close"}
    /\ packet \in Nat /\ data \in Seq(Byte) /\ flush_to \in Nat
    /\ status \in Err /\ acc_result \in Err

HistoryTypeOK ==
    /\ taken \in [addr : Nat, data : Seq(Byte)]
    /\ image \in [Addr -> Byte \cup {Unset}]
    /\ open \in Nat \cup {NoSector}
    /\ beyond \in BOOLEAN
    /\ scope \subseteq Nat
    /\ outcome \in {"none", "ok", "failed"}

\* Every variable has its type: what the C++ declarations promise.
TypeOK == TFTypeOK /\ AccTypeOK /\ HistoryTypeOK

(***************************************************************************)
(* ProgramPage is only called on erased cells: a sector that is not blank  *)
(* is erased before any page of it is programmed, whatever failed before.  *)
(***************************************************************************)
ErasedBeforeProgram ==
    at = "program_exec" => \A a \in Span(addr, Len(buffer)) : flash[a] = FF

(***************************************************************************)
(* memcpy stays inside _page_buffer: when bytes are copied, the packet's   *)
(* address lies in the current block, the block is the packet's sector,    *)
(* and the buffer is as long as the block.                                 *)
(***************************************************************************)
CopyInsideBlock ==
    pc = "copy" =>
        /\ block_addr <= packet /\ packet < block_addr + block_size
        /\ block_addr = Base(packet) /\ block_size = flash_erase_sector_size(packet)
        /\ Len(page) = block_size

(***************************************************************************)
(* The accessor implements a flash session: whatever the packets, the      *)
(* failures and the deaths of the process, the flash changes only in       *)
(* sectors of the packets, and a session closed with success leaves the    *)
(* image of the packets it accepted.                                       *)
(***************************************************************************)
Session == INSTANCE FlashSession WITH
    cells <- flash,
    mode <- IF state = "OPEN" THEN "open" ELSE IF state = "ERROR" THEN "error" ELSE "closed"

ImplementsSession == Session!Spec

(***************************************************************************)
(* Every call of the accessor returns: the loop of write consumes its      *)
(* data, that of flash_program_page its buffer.                            *)
(***************************************************************************)
CallsReturn == pc # "idle" ~> pc = "idle"
=============================================================================

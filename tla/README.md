# Linux-MCU-Prog: specification

Linux-MCU-Prog programs the flash of a microcontroller from a Linux board: GPIO
pins drive the SWD wires, a debug port gives access to the target's memory, a
vendor's flash algorithm (an FLM file) is loaded into the target's RAM and its
functions are called from outside, and a file is written with them.

This directory models that program in TLA+, checks the models with TLC and
proves what matters most with TLAPS.

## 1. The system

    main.cpp            options, one run of program() or read_memory()
      FileProgrammer    opens the file, loops over 256-byte pieces, shows progress
        BinaryProgram, HexProgram, StreamProgrammer
          FlashAccessor buffers a sector, compares, erases, programs
            TargetFlash flash primitives: loads the algorithm, calls its functions
              SWDIface  memory, registers and state of the core over DP and AP
                SWD     the board: GPIO and the bit level (sw_dp.h)
      Algorithm         the store of algorithms made from FLM files (Tool: merge)

Everything is one thread. What makes the program hard is not concurrency inside
it but the target: it is a second machine with state of its own (flash, RAM,
core) that the program knows only by what it has sent. Every exchange can fail,
a failed one may have had any effect, and the error paths go on talking to the
same target. Below that, the wires are shared with the target, and the ports of
the board with other processes.

| component | state | operations | hard part | what makes it correct |
|---|---|---|---|---|
| FlashAccessor | session state, the buffered sector, last packet | `init`, `write`, `uninit` | packets in any order over sectors of several sizes; errors in helpers; calls in a wrong state | the flash ends as the image of the accepted packets; nothing else is touched; the copy stays in the buffer |
| TargetFlash | configuration, current algorithm, open function, default region | `flash_init`, `flash_uninit`, `flash_algo_set`, `flash_erase_sector`, `flash_program_page`, `flash_erase_chip` | Init and UnInit are lazy; host and target get out of step on errors | no function is called that is not there; success means verified |
| FileProgrammer and its three writers | file position, progress, the writer's address | `program`, `init`, `write`, `clean` | errors between write and clean | success is only reported when the image is in flash |
| hex parser, HexProgram | record state, base address, partial data | `parse_hex_blob`, `write_hex` | records cut by the 256-byte pieces, early returns | every data byte once, at its address |
| SWDIface, transport | cached SELECT and CSW | `read_dp` ... `write_memory` | retries; caches against failed transfers; posted reads | the value returned is the one at that address |
| SWDIface, state | nothing but `_initialised` of the board; the rest is in the target | `set_target_state`, `write_debug_state`, `flash_syscall_exec`, core registers | polls, some without limit; calls on a target left in any state | the core is in the state asked for; the answer is that of this call |
| SW-DP bit driver | the pins, and where a transfer stands | `transfer`, `swj_sequence`, `jtag_to_swd` | who drives the line in which cycle, after WAIT, FAULT, parity errors, garbled answers | both sides in step after every way out; one wrong bit does nothing unasked |
| boards | directions and levels in registers shared by 32 pins | pin operations, `init`, `off` | load and store without a lock | one rising edge with its bit per cycle; other pins untouched |
| Algorithm, Tool | a file of TLV records | `extract`, `merge`, `find`, `list_device` | widths of lengths, end of the walk | what was merged is found, whole; code, stack and buffer apart |
| main | the arguments | `flash`, `read`, `list_algo` | which algorithm is used; the bounds of a read | the right one; the whole range and no more |

The hazards, each with the line where it bites, are in `PROJECT.json`.

## 2. Modules

    FlashLayout         memory map: sectors, regions, algorithms, the look-ups
    TargetMcu           the target (external): flash, RAM, core, one operator per exchange
    TargetFlash         the flash primitives
    FlashDirect         a user of the primitives
    FlashImage          what packets make of an image
    FlashSession        abstract specification of a session
    FlashAccessor       the accessor over TargetFlash, implements FlashSession
    Programs            the binary and the hex program, each over a FlashSession
    FileProgrammer      program() over Programs, implements FlashSession
    StreamProgrammer    init, write, clean over Programs
    HexParser           characters of a hex file to packets
    SwdTarget           the state of the core, calls of its functions, the read command
    SwdMemory           memory over SWD: transfers, retries, caches, blocks
    SwdLine             one transfer, cycle by cycle, against a target
    GpioPort            the pins as registers of five boards
    AlgorithmStore      algorithm files: extract, merge, find, list
    FlashMaps, MC*      instances for TLC
    *Proofs             theorems

`FlashSession` is where the parts meet. `FlashAccessor` over `TargetFlash` is
shown to implement it; `Programs` uses what it promises instead of the accessor,
so that the programmers can be checked with whole files; `FileProgrammer` is
then shown to use the flash as one session at a time. `HexParser` stands beside
them: what it hands over in packets is what a hex chunk is in `Programs`.

Below the exchanges of `TargetMcu`, which take for granted that what reports
success was done, there are four layers, each with the one beneath it reduced to
a step: `SwdTarget` makes an exchange of reads and writes of words, `SwdMemory`
a word of transfers, `SwdLine` a transfer of clock cycles, `GpioPort` a cycle of
accesses to registers. What one layer assumes of the next is what the next one's
properties say: `SyscallAnswers` and `StateReached` (a call of a function, a
reset), `ReadsRight` and `WritesRight` (a word), `AnswerIsTrue` and `InStep` (a
transfer), `OneEdge` and `BitAtEdge` (a cycle). The layers are not composed in
one state space, and where a lower property is conditional, see below, so is
everything above it. `AlgorithmStore` yields the configuration the flash modules
start from.

### TargetMcu

The target is not in the repository; `TargetMcu` says what `target_flash.cpp`
relies on. `flash` is the flash; `resident` the algorithm whose blob is intact
in RAM; `prepared` the one whose Init has run; `core` whether it runs; `buffer`
the program buffer in RAM. One operator is one exchange (a reset, a download, a
call of an algorithm's function). Each has a failing twin: a failed erase or
program leaves any mixture of old and new cells, a failed download a damaged
blob, a failed call a core that may still run. Programming a cell that is not
erased gives any value: erase before program is what the code has to get right.

### TargetFlash

A primitive is a call that runs in several exchanges. `at` is where it stands,
`addr`, `buf`, `region`, `unverified` are its locals, `result` what it returned.
Each action is the code between two exchanges with the exchange that ends it:
`FlashErase` is the checks and `flash_func_start` of `flash_erase_sector`,
`FlashEraseExec` the call of EraseSector. `AlgoSet`/`AlgoDownload` are
`flash_algo_set`, used by itself and inside the loop of `flash_erase_chip`.
Regions are looked up as in the code, end included, default region last.

### FlashAccessor

The variables are the members of the class (`state` is `_flash_state`, which
hides the base's, here `tf_state`). `pc` is where the accessor's call stands;
its steps are taken while no primitive runs. The helpers `setup_next_sector` and
`flush_current_block` are entered with `Gosub` and return to `back_to`. The
page-size constant of the accessor does not exist in the code: a block is a
sector (`block_size = sector_size`), which `Geometry` in the proofs states.

`Die` is the end of the process at any moment: the host's state is that of the
constructors, the target stays. `taken`, `image`, `open`, `beyond`, `scope` and
`outcome` are history: they record what was accepted and what was promised and
no action reads them except to record.

### FlashSession and the refinement

`FlashSession` has the flash, a mode (closed, open, error) and the promises. A
session accepts packets; the flash may change by `Work` only inside sectors of
accepted or running packets; `CloseOk` is possible only if the flash holds the
image; failing, dying and closing with an error promise nothing. The property
`ImplementsSession` is `FlashSession!Spec` under the mapping in `FlashAccessor`.

The image is that of whole sectors (`FlashImage`): a sector is opened blank
(0xFF), takes bytes while it is the open one, and is blank again when a packet
comes back to it from another one (`Fresh`). The last is what the code does and
not what one expects; see the remarks.

### Programs, FileProgrammer and StreamProgrammer

Two programs exist at a time, with an accessor each, on one target. A call of a
program (`ProgramInit`, `ProgramWrite`, `ProgramClean`) hands packets to the
session one by one (`PacketBegin`, then `PacketAccepted` or `PacketFails`);
between the two the session may change any cell in its scope (`Work`). A binary
chunk is bytes, a hex chunk is records, one of which may be garbled. When two
sessions are open at once nothing is promised and `torn` says so.

`FileProgrammer` is `program()`: the refusals, the loop of buffers (`Read`,
`Written`, `Finish`), the progress and its callback, the clean-up of each way
out, and death at any moment. Calls are repeated, for either kind of file.
`StreamProgrammer` has the calls of its user in any order, a second `init`
included, and the destructor.

### HexParser

The parser works on characters: a colon, a line end, or a digit, which carries
the record it belongs to. So the nibble toggling, the index, the early exits
that have the caller feed a digit again (`load_unaligned_record`), and the
skipping of blocks for another version are as in the code; checksums and digits
are abstracted to "sound" and to the record they spell. An address is a high and
a low part of `Low` (2^16) values. `Step` is the loop of `write_hex`.

What a file means does not look at the parser: `Meaning(n)` folds `Meant` over the
records whose last digit is among the first `n` characters (`MeaningsOf`, a
recursive function). Nothing in the code checks a file. `WellFormed` says for which
ones `Decoded` and `HexInv` are meant: lines of a colon, the digits of a record and
one line end; data that stay within the 2^16 addresses of their high part, and an
extended address or no data behind data that end with them; extended addresses that
are multiples of 2^16; the end of the file at its end; and, in a file of several
versions, sound records and blocks that begin with an extended address and say
their version in the next record. Two of these are what section 4 says of segments
and of the end of a 64 KiB range.

### SwdMemory

A call is a list of transfers; its head is tried by `Exchange` until an answer
lets the call go on or fail, as in `transfer_retry`. `NextPiece` cuts the next
byte or block off a call and lists its transfers (`PlanOf`). A transfer of
SELECT or CSW sets the cache before it is tried and is skipped when the cache
agrees. The ports are external: posted reads, an address register that
increments within a page, an error that sticks until ABORT. An answer is one of:
done; acknowledged but in vain, which sticks; done and garbled on the way back;
refused (FAULT, an unknown acknowledge); no reply; WAIT. A garbled acknowledge
of a write is one in vain: the pulled-up line gives the target 32 ones and a
parity bit that is wrong for them. RDBUFF read twice gives the same word, which
is the kindest reading of its specification.

### SwdTarget

A call is a list of exchanges, as `Plan` lists them: `SetTargetState` has one
case per case of the switch, `SyscallExec` the registers in the code's order,
the release of the core, the status, the poll and the result in R0. One exchange
is a word written or read, a poll, or a switch of the board's pins; its `else`
says what the code does when it fails, which is to return false, to go on (the
write of AIRCR in RESET_PROGRAM), or to resume the target (the read command).
Polls with a limit count their rounds; those without do not. The core is
external: it halts some time after it was asked to, or never; a function ends
some time, or never, and what runs from half-set registers may do anything. The
user calls anything after anything, whatever the last call returned. `Init` has
the targets a dead process can leave.

### SwdLine

A transfer is a list of cycles, of which each drives, samples or leaves SWDIO:
`RequestCycles`, then, by the acknowledge heard, `BodyCycles`. `JtagToSwd` is
51 ones, 0xE79E, 51 ones and 8 zeros, which lead into the read of IDCODE. The
target is external: it counts ones for the reset of the line, selects SWD,
collects a packet, answers, sends or collects a word. The line is pulled up. Up
to `MaxFlips` bits per connection, 0 or 1, are received wrong, by the host or by
the target: two make one ACK of another, and keep the parity of a word. `Leave` is the end of the process at any cycle. The macro has code for
data phases after WAIT and FAULT that SWD_DATA_PHASE, a constant 0, switches off;
the model has none.

### GpioPort

Each board's inline functions are lists of accesses: a store of one pin's bit
(`Masked`, registers that set or clear), or a load and a store of the whole
register. `Offers` lets the calls of the bit driver come in any order in which
SWDIO is driven by write bits only; `SwdLine` has the real order. Another
process changes `Neighbour` with the same board's operations. On the H6 and H618
a load of the data register gives the level of an input. `overlap` records that
an access came between a load and its store; what the code promises then is
nothing, and the properties say so by naming it.

### AlgorithmStore

`Extract` makes the configuration of an ELF file (sections and symbols are
fields of the file, `ok` says that all of them could be read), `Record` the
cells that `append` writes for it with the total of `algorithm_info_write`, and
`Merge` is the loop of the Tool. A position is a number of cells, so that the
walk of `find` goes wrong when a total does. Every total, those of the regions and
their blobs too, is cut to 16 bits (`TotalLimit`), and so is wrong when it does not
fit. `NoName` is the name of a list. `Header` is a turn of the outer
loop, `Contents` one of the inner, `Beyond` the inner one after the last record,
`Ends` what `main` makes of the result. `"file"` is the `find` that reads a
file, `"flash"` the command with the embedded array.

## 3. Runs

| run | shows | bounds |
|---|---|---|
| `accessor` | refinement of FlashSession, erase before program, callable functions, memcpy in bounds, calls return | addresses 0..9: a hole, sectors of 2, 4 and 2, the end of the flash; two regions with an algorithm each, pages of 3, read-back in 2, one that verifies by itself; 5 packets: into the hole and across, back, from inside a sector over the end of one region, empty, past the end |
| `direct_gap` | the primitives by themselves: success is done, chip erase complete, host and target agree, calls return | addresses 0..6; three regions, the middle one without algorithm and looked up as such; a piece of two pages of which the first is verified in two pieces, one of two pages of the algorithm that verifies itself, one byte that contradicts the first, none; chip erase with reset |
| `file_programmer` | the whole file is handed over and held, sessions one at a time, progress, calls return | eight files (full and partial last buffer, empty, gap, garbled, unknown, missing, unreadable), buffers of 2, three start addresses |
| `stream_programmer` | pieces stay in order, a failure closes, clean closes | 3 bytes or records written to a stream, one `init` before a clean, addresses 0..3 |
| `hex_files` | every complete record reaches the flash, in order, others' blocks do not, calls return | records of 2 bytes, i.e. four digits; five files, every way to cut them |
| `swd_target` | the state asked for is reached, a function's answer is its own, firmware is kept, the read range, calls return | two functions, three registers, polls of 2 rounds, addresses 0..7, pieces of 2, a range of two pieces and one that ends with the address space |
| `swd_memory` | true means done, nothing else written, calls return | words of 2, pages of 4, memory of 8 bytes; a head byte, a block that ends a page, one of two words, a tail byte; 2 tries, 2 polls |
| `swd_line` | no contention, in step after every way out, nothing unasked, answers true, connects, no false reset | words of 8 bits, three of them; a reset of 26 ones, 27 sent; all 16 requests; one bit wrong |
| `gpio_port` | one edge with its bit per cycle, pins settled, others' pins kept | five boards, each with the five ways in which three pins can share ports |
| `algorithm_store` | totals lead from record to record, what was merged is found, listed and used, layout, walks end | every sequence of up to 3 of 5 files: two of one device, a full table, one too long for its total, one unreadable; totals of 32 |
| `last_flush` | finding 1 | |
| `swd_parity` | finding 2 | |

Each run checks one invariant that begins with the types of its module
(`TypeOK`, `DirectTypeOK`, `FileInv`, `StreamInv`, `HexInv`, `TargetInv`,
`MemoryInv`, `LineInv`, `PinsInv`, `StoreInv`) and goes on with the named parts
above it in the module, and besides these the properties that stand for
themselves.

Sectors of 2 and 4 bytes, pages of 3 and a verify piece of 2 are the least sizes
at which a block is larger and smaller than a page, a page is verified in two
pieces of different size, and a packet starts inside, ends at and crosses a
boundary, from the smaller sector to the larger one and back. Three byte values (erased, two others) are what compare, blank check
and programming tell apart. Failures are not bounded: any exchange may fail any
number of times, and sessions may be repeated without limit, because the state
space is finite anyway.

A buffer of 2 in `file_programmer` cuts files at both parities, so that a file
ends with a full, a partial or an empty read, and inside or at the end of a
sector; the hex records there are whole, and how chunks cut records is the
business of `hex_files`, where every chunk of 1 to `MaxChunk` characters is
possible at every position. `MaxChunk` is the length of the longest file. `MaxWritten`
and `MaxMixed` bound a stream: 3 bytes cross a sector, and one more `init` is
already the case that breaks the promise of the streams (two open sessions).
In `swd_memory` each retry has the same state as the one before it but for the
counter, which has a first, a last and, with WAIT, a saturated value. Its
target starts with any SELECT, CSW and sticky error. The properties `ReadsRight`,
`MemoryInv` and `WritesInRange` speak of calls since the last `init_debug`
after which no call failed (`trusted`), and `ReadsRight` of calls in which no
read of DRW was repeated (`repeated`): both restrictions are needed, see below.

In `swd_target` three registers stand for nine: the first one written, the one
that says where to start, and the last; one after another is the case that
matters for `StartsWhole`. Two functions tell this call's registers from those
of the one before. Polls of two rounds end in success at the first or the second
and in a timeout. In `swd_line` a word is 8 bits long; `LineAssumption` says
what the numbers must satisfy, and the code's do: the longest run of ones outside
`swd_reset` is 49, a reset takes 50. A parity bit detects every odd number of
wrong bits and no even one, so one is the most a promise can cover. Its words are
all zeros, all ones and one of odd parity. In `gpio_port` what a port holds of other
pins is one neighbour; with two pins of the program there are no other boards and
no other layouts than those of the run. In `direct_gap` the region without algorithm
comes before the one that ends where it starts: a region's end counts as part of it,
so that behind that region it would never be looked up, and nothing be skipped. In
`algorithm_store` a record of the four files that can be read has a length below
32 or, with `Large`, above, as is then the total of its region; the code's limit is
65536.

The liveness properties assume weak fairness of the modelled thread's own
steps: the code is one thread that goes on by itself, and every exchange ends.
The second half is an assumption of the flash modules: `transfer_retry` repeats a
WAIT and `set_target_state` polls for a halt without limit. In `swd_memory` it is
`WF(Answer)`: the target does not answer WAIT for ever. `swd_target` does not
assume it: `WF(Advance)` is the host's only, and `CallReturns` says that a call
returns unless the core was asked to halt and never does. `algorithm_store` has
weak fairness of the Tool's loop and of the walks'; the system may stop there
(`CHECK_DEADLOCK FALSE`), because a command is the end of the program. `swd_line`
and `gpio_port` check safety only. Nothing is assumed of the user, of death, of
lost exchanges or of the neighbour.

## 4. Findings

1. The last flush of a session, in `clean()`, has no way to report its error:
   `program()` returns true after it failed (`last_flush`).
   `flash_accessor.cpp:343` wants such an error propagated.
2. A read of DRW that is repeated after a parity error is answered with the next
   word; `read_block` returns true with the words shifted (`swd_parity`).

### Remarks

What else the code does that its reader may not expect. The models have it, and
the properties are stated so that they hold with it.

- Packets in any order (`flash_accessor.cpp:245`): a sector that was left is set
  up from 0xFF when a packet returns to it, and its earlier bytes are erased. The
  session reports success. `Fresh` in `FlashImage`.
- `target_flash.cpp:118` resumes the target and drops the result: a session can
  close with success while the target stays halted.
- Segment records of hex files: a data record keeps the high half of the address
  only (`hex_parser.c:170`), so that a segment that is not a multiple of 64 KiB
  loses its low bits; and a data record that ends with a 64 KiB range moves the
  records after it to the next one, unless an extended address comes in between.
- After a failed write of CSW or SELECT the cache claims what the target may not
  have, and only `init_debug` clears it; `TARGET_RUN` and `TARGET_RESET_RUN` go on
  without it. Hence `trusted`. A word or a byte written to address 0 ends
  with a read of a null pointer, as soon as the target acknowledges the last transfer
  (`Crashes`): the `if` of `swd_iface.cpp:305` has no braces.
- `target_flash.cpp:240` divides by the size of a sector, which is 0 for an address
  outside the table. The accessor asks only for sectors it has found, and so does
  the user of `FlashDirect`; `OnSectorBoundary` says that such an address is none.
- RESET_PROGRAM does not look at the result of the write of AIRCR
  (`swd_iface.cpp:885`); an error before its end leaves VC_CORERESET set
  (`swd_iface.cpp:874`), and RESET_RUN, "Reset target and run normally"
  (`swd_iface.h:38`), does not clear it. Both exceptions are in `StateReached`.
- A connection that is interrupted and made again may complete a write of the one
  before it: the target still collects the word, and the ones of `swd_reset` end
  it. `OnlyAsked` speaks of the time after `jtag_to_swd` (`synced`).
- `find` in a file never returns for the last device of the file
  (`algorithm.cpp:455`); nothing in the program calls it. `find` in the array
  reads past its end after the last record (`algorithm.cpp:555`). A record whose
  length is a multiple of 2^16 has a total of zero, and a walk stays there.
- Algorithms are laid out without their PrgData (`algorithm.cpp:229`): data that
  do not fit the rest of the last 256 bytes of the code share memory with the
  stack, or with the program buffer if they are longer than the stack. The
  comment there says 4K of stack, the constant is 0x800. `Layout` leaves the data
  out.
- `merge` does not check its writes, and the Tool not its result. `main` returns 0
  after a failed `flash` or `read`, and lets an exception of `swd_create` out of
  `read`.
- The README of the repository lists RK3588 and i.MX9352; `swd_create`
  (`main.cpp:110`) creates neither. Their classes are in `GpioPort`.
- `SG2002SWD::init` returns false (`sg2002_swd.cpp:56`); its caller does not look.
  Rows of the table of pads with zeros make `SG2002_GPIOBase` write the first
  register of the bank.

## 5. Proofs

Proved for every value of the constants, one module per component, but that
`FlashProofs` has the primitives and the accessor that calls them, and
`FileFormatProofs` the two that read files:

| module | theorems | hypothesis |
|---|---|---|
| `FlashLayoutProofs` | lemmas on look-ups, blocks, sectors and images | |
| `FlashProofs` | lemmas on the primitives without a caller; of `FlashDirect`: `DirectTypes`, `DirectSyscalls`, `DirectInStep`, `DirectProgram` (`ProgramIsVerified`) | |
| | `DirectErase` (`EraseIsComplete`) | `RegionsFound` |
| | `AccessorTypes`, `AccessorSyscalls` | |
| | `AccessorCopies` (`CopyInsideBlock`), `AccessorErases` (`ErasedBeforeProgram`), `AccessorImplements` (the refinement of `FlashSession`) | `SectorsAligned` |
| `StreamProgrammerProofs` | `StreamFailure`, `StreamClean` | |
| | `StreamOrder` (`StreamInv`) | `SectorsAligned` |
| `FileProgrammerProofs` | `FileWaysOut` (types, `ProgressHonest`, `NoneLeftOpen`), `FileImplements` (the refinement of `FlashSession`) | |
| | `FileOrder` (`FileInv`), `FileHeld` (`HoldsFile`) | `SectorsAligned` |
| `FileFormatProofs` | `HexIInvHolds` (the inductive invariant), `HexInvHolds` (`HexInv`), `HexDecodes` (`Decoded`) | `AllWellFormed` |
| | `StoreIInvHolds` (the inductive invariant), `StoreInvHolds` (`StoreInv`), `WalksAnswerHold` (`WalksAnswer`) | |
| `SwdTargetProofs` | `SyscallReturns` (`SyscallAnswers`), `StartedWhole` (`StartsWhole`), `TargetHolds` (`TargetInv`), `FirmwareHeld` (`FirmwareKept`) | |
| `SwdMemoryProofs` | `MemoryIInvHolds` (the inductive invariant), `MemoryInvHolds` (`MemoryInv`, which has `WritesRight`), `ReadsRightHolds` (`ReadsRight`), `WritesInRangeHolds` (`WritesInRange`) | |
| `SwdLineProofs` | `LineInductive`, `LineSafe` (`LineInv`), `LineTransfersAreTrue` (`TransferIsTrue`), `LineConnects` (`Connects`), `LineNoFalseReset` (`NoFalseReset`) | |

### Assumptions

Those of the modules (`LayoutAssumption`, `UserAssumption`, `DirectAssumption`,
`UnsetAssumption`, `ProgramAssumption`, `StreamAssumption`, `FileAssumption`,
`HexAssumption`, `TargetAssumption`, `LineAssumption`) state types. `FileAssumption` also says that `Packets`, the
set `FlashSession` takes its packets from, has the buffers of every binary and
the sound records of every hex file: it makes `Packets` large enough and
restricts no file. `LineAssumption` has the numbers of the protocol: a word is of
at least 8 bits and an even number of them, a reset is longer than the longest run
of ones outside of one (49 of 50 in the code, `DataBits + 17` here), `swd_reset`
sends enough ones, and at most one bit of a connection is wrong.

`MemoryAssumption` also says which memory there is and which calls are made: a page
is a number of words, the memory a number of pages, a call stays inside the memory,
and a word is aligned, since every caller of `read_word` and `write_word` names a
debug register. A byte or a block may be anywhere.

`StoreAssumption` has the types of what is read from an FLM file: a table has
`SectorNum` entries, and the functions it names lie inside of its code. A name on disk is
the name of one file.

Three hypotheses are about data that nothing in the code checks, two of them about
tables that come with a device; TLC evaluates them on the maps and the files of the
runs.

- `SectorsAligned`: each run of sectors starts on a multiple of the sizes of the
  runs before it and of its own. `ROUND_DOWN` gives the start of a sector only
  then, and the accessor depends on it everywhere.
- `RegionsFound`: what is looked up at the start of a region is that region's
  algorithm. A region's end counts as part of it in the code, so a table in which
  a region comes after the one that ends where it starts does not satisfy this,
  and `flash_erase_chip` would then use the wrong algorithm.
- `AllWellFormed`: the hex files are those the parser is made for (`WellFormed`).
  `MCHexParser` assumes it of the files of the run, garbled records, records of
  unknown types and several versions among them.

### The primitives

`FlashLayoutProofs`: the look-ups return what their tables hold (`Least` and
`Greatest` come from well-foundedness of the naturals), `ROUND_DOWN` gives the
start of a block, and in an aligned table every address of a sector has the
sector's size (`SectorUniform`).

The first part of `FlashProofs` treats the primitives without a caller. `TFInv` is the types
plus `Loops`: inside the page loop there is an algorithm, inside the chip loop a
region. `Funcs` is the invariant that survives every error: an algorithm with an
open function is in RAM. `Healthy` is what holds while nothing has failed; each
step keeps it or returns an error (`TFStepKeepsHealthy`). `Programming` and the
lemmas about verified pages say how far a page has got and that what is behind
is in the flash.

Then these are composed with the user of `FlashDirect`, who goes on only after
success.
For `ProgramIsVerified` and `EraseIsComplete` the invariant has to speak of a
call in the middle: `OwnSteps` (the steps that run are those of the call that was
made), `ProgramData` and `EraseData` (what it has done so far). A chip erase has
a set of regions done that grows by what their algorithms cover.

### The accessor

The second part of `FlashProofs`: `Geometry` ties buffer, block and packet together: the
block is that of the packet wherever bytes can be copied, and that of the last
packet between writes. It is needed already for the types, because the size of a
copy is a difference. `Device` says at which points of the accessor's code the
target is healthy. `Sectoring` adds the sector: its size is that of all its
addresses and it starts at or below the block.

It ends with the invariant of the refinement, `SessionInv`, in parts
that are kept one after the other, each with the help of those before it:

- `Buffered`: bytes are only in the buffer while the block is the sector, and none
  are when another sector is set up.
- `Flushes`: the primitives run on the block of the buffer; a page is programmed
  over cells that are blank from where it has got to; a flush that reports success
  leaves the buffer in the flash. `ErasedBeforeProgram` follows from these two.
- `Packeting`: what has been copied of the running packet and what is left make it
  up, and its sectors are in scope.
- `Blanks`, `Opening`: an empty buffer is blank; the history's notion of a sector
  that is still open (`open`) is the buffer of the code. This is where the code's
  treatment of a packet that returns to a sector comes in.
- `Promised`: every byte that the accepted packets, and the running one up to where
  it has got to, have promised is in the buffer, or in the flash where there is no
  buffer; and once bytes past the end of the flash are promised the buffer cannot
  be flushed, so that the session fails.

Each step then is one of `FlashSession` or a stutter: `InitDone` is `Open`, `Write`
is `Begin`, `LoopEnd` is `Accept`, an exchange that erases or programs is `Work`,
an error is `Fail`, `Closing` is `CloseOk` or `CloseFailed`.

### The programs

`Programs` counts on `FlashSession`; the proofs about its two users therefore need
only what packets make of an image. The lemma they rest on is `PacketCut` (with
`CutOpen`): in an aligned table, a packet and a second one that begins where it
ends make the same image, and leave the same sector open, as the two in one.

`StreamProgrammerProofs`: `CallInv` is what holds whatever the table (types, whose
call runs, one session unless `init` was called over an open stream). `InOrder` is
`StreamInOrder` at every step: in the middle of a write the image is that of the
bytes handed in so far (`HandedIn`), the packet on its way is the rest, and the
address still has to move by `decode_size`.

`FileProgrammerProofs`: `BaseInv` has the types, the arguments and the reading (the
end of the file is known when all of it has been read, and until then whole
buffers have been), `FlowInv` adds the one session, what is handed over and the
address of the next piece. `InOrder` is the same as for a stream. For a hex file
`RecordsInOrder` says that the session has accepted the first `n` records and the
next ones are on their way. What `n` records make of an image is a recursive
function (`AfterRecords`); that its definition determines it at every argument is
`RecordsAccepted`, an induction over the set of numbers at which it does (`UpTo`,
from `Least`). `Held` carries the image through the close. A step of `program()` is
a step of a `FlashSession` (`FlashOpens` is `Open`, `PacketBegin` `Begin`,
`PacketAccepted` `Accept`, `PacketFails` `Fail`, `CleanEnd` `CloseOk` or
`CloseFailed`) or a stutter; that needs `OneSession` only, hence no hypothesis.

### The hex parser

The first part of `FileFormatProofs` is about a file, a cut of it into chunks and a parser that sees
one character at a time. It begins with where the characters of a file are:
lines of one length (`LineAt`), each place in one of them (`PlaceOf`), a character
that tells its place (`CharTells`), the number of records complete behind a place
(`Count`), and what those mean (`MeansAt`), which is `Meaning` (`MeaningIs`). That
`MeaningsOf` has the values its definition says is `MeaningsAre`, by an induction
over a set of numbers as above.

`HexIInv` then has four modes:

- `Scans`: in line `i`, behind its `o`-th character, with `c` records seen
  (`LineState` for nibble, index and record), and `Held`, which is what is in the
  flash, in the buffer, and in the record the next call loads, is what those `c`
  records mean. `Based` says when the high part of the address is the base of the
  file: not behind data that end with a 64 KiB range, and not inside of a block for
  another version, whose data do not count. The record of an extended address is
  seen twice: its last digit is not consumed, so that there is a place with `i + 1`
  records seen, the third case of `LineState`.
- `SkipState`: behind a line `l` of data for another version no block has begun, so
  that nothing was added to the meaning since (`SkippedSays`). When the parser goes
  on, it is at a colon that begins a chunk, hence at the beginning of a line.
- `EndState`: the end of the file was seen, what comes is a line end.
- `FailState`: what is in the flash is a part of what was fed.

Each exit of the parser (`ReturnsKeep`) moves bytes between the three places of
`Held` and changes none. If the blocks of another version do not begin their chunks
(`aligned` is false) only `Justified` is left: each byte held is one of the meaning,
which is all that `HexInv` says of it.

The invariant was checked with TLC first. Three of its conjuncts were found by the
proof: that a call which returned without `UNALIGNED` has parsed its whole chunk (or
what `write_hex` then drops would be lost), that at the end of the file no exit asks
for another call, and that a parser that skips has not seen the end of the file.

### The algorithm store

The second part of `FileFormatProofs` is about any algorithm files, merged in any
order. It begins with what `Extract` and `Record` make of one: where in its record
each cell stands (`RecordCellsAre`), how long it is (`Rec`, `FlashAt`, `RamAt` for its
regions), and that a header stands at its beginning only (`InRecord`), which is why
a walk that sees one is at a record.

`StoreIInv` has a witness `S`, the place where each record begins:

- `Laid(S)`: the records of the files merged so far lie in the store one behind
  another, and nothing besides. `Merge` adds one, or stops at a file that cannot be
  read.
- `Walks(S)`: for each place of a walk, between two records, inside of one, behind a
  restart, at its end, which record `n` it is at and what it has of those before it
  (`Searched(n)`: the last one of the name, or all of the list). Inside of a record
  `ReadTo` has the three places where a cell of a record can be next: behind some of
  the sectors, behind the region of flash, at the end.

A walk that skips a record does it by the total in the header. That this leads to the
next one is the only use of `Fit`, the premise `Fits` of the properties; a walk inside
of a record goes by what it has read, and needs no total.

### The target

`SwdTargetProofs` begins with the plans: which exchange stands at each place of
`SyscallExec`, `ReadCommand` and each change of the state, for any number of
registers (three places for each) and any range. `PiecesShow` says that the
pieces print the range one after another and nothing besides, and nothing at all
if its 32-bit end wraps; `PlansFit` that every exchange is well formed. `BaseInv`
is the types; that a failed exchange leads to a place inside the plan needs the
plans.

The invariants then say how far the call in progress has got, by its place. Three
calls, three invariants:

- `ExecInv`: `Loading` up to the exchange that lets the core go (the registers
  written so far hold what this call gave them, and S_REGRDY was set by a halted
  core, which is why the wait for it in the first register also is the proof that
  the core has stopped), `Awaiting` after it (the function was started, C_HALT is
  clear, so a core that is seen halted has come back, with its result in R0).
- `StateInv`: one conjunct for each state that promises something. It holds until
  the next call begins, since what was reached must survive the return.
- `ReadInv`: what is printed is that of the pieces done, as long as none failed
  (`result`), and past its end the core runs with debugging off, so that it cannot
  halt again.

`FirmwareKept` needs only that the plans of HALT, RUN and the read command write
DHCSR and no other register (`QuietThis`).

### Memory access

`SwdMemoryProofs` is about one call of `read_memory`, `write_memory`, `read_word`
or `write_word`, cut into pieces: a byte, or a block that ends with a page. A
piece of `w` accesses is `w + 5` transfers (SELECT, CSW, a read of RDBUFF that
fetches the last answer, TAR, the accesses, RDBUFF), for every `w`, and some of
the first are left out when the caches say so. `MemoryIInv` gives, for each place
in it, what is left (`AreLeft`, in the code's order) and what the ports hold
(`InPiece`, `PortsAt`): TAR has moved by the accesses done (`DoneAfter`), the port
has fetched one access more than the host has taken (`KeptAfter`), because a read
is answered by the transfer after it, and what is taken so far is what the memory
holds (`ReadTo`), what is written so far what the call gave (`WrittenTo`).

- The caches. `CacheOK` has CSW and SELECT right only while no call has failed, the
  port is not in error, and the transfer that sets the register is not the one
  under way: the code sets its cache before the transfer, so that in between they
  differ, and a transfer in vain lets them differ for good.
- Errors. A write that is acknowledged in vain makes the port sticky. From there on
  it refuses the transfers of a piece, the RDBUFF at its end too (`Accepts`), so
  that the piece cannot end well; nothing need then be known
  of TAR or of what was written. ABORT clears the error, but it is sent by
  `init_debug` only, and there the caches are unset. This is the argument of
  `WritesRight`: the last transfer of a piece is what makes its writes sure.
- Repeats. A transfer that is garbled on its way back has been done and is done
  again. For SELECT, CSW, TAR and RDBUFF that changes nothing; for a read of DRW it
  is finding 2, and `repeated` says so; a write is not repeated after it was done.
- The bytes. `Laned` puts the bytes of a call on the lanes of a word, `OnLanes` says
  that a fetched word has those of the memory. That a word in a block is aligned, so that the lanes of one access are
  the bytes of the call, needs `Page % WordSize = 0` and arithmetic of remainders,
  which the lemmas at the beginning have.

TLC checked `MemoryIInv` on the bounds of the run before the proof.

### The line

`SwdLineProofs` is about the wires, for any length of a word and of the reset.
`LineIInv` gives, for every number of cycles that the host has still to clock
(`ToGo`), what they are and where the target can be. A lemma for each phase of the
target (`EdgeIdle` to `EdgeLost`) says what a bit makes of it, one for each list of
cycles (`SequencePlan`, `RequestPlan`, ...) what the host has planned, and the step
of `Clock` is proved phase by phase, the others in a lemma each.

- `InSequence` is a race. `FirstReset`: whatever the target was busy with when the
  process died, a packet, a word, a switch, is over before the first reset ends,
  and enough ones are left to reset it, to let it stumble over a malformed packet,
  or to reach 50 in JTAG. `Switching`: the 16 bits of 0xE79E select SWD, or are
  lost on a target that is, or are read as the start of a packet by one that is in
  SWD already, whose park bit is then wrong. `SecondReset` ends all of these.
- `InRequest` has the target in step (`Waiting`, `Collecting`, `Turning`,
  `Answered`), or what one wrong bit makes of it: a start bit that was missed, so
  that the target takes a later one for it (`Missed`), or a packet it did not
  understand (`Deaf`). Each has a bound on the ones the target has counted, which
  is what keeps it from a reset nobody sent (`NoFalseReset`).
- `InBody` has the data phase by what the host has understood and the target meant:
  `Reading`, `Writing` and `Refused` in step, `SentInVain` and `TakenInVain` when
  the ACK came wrong and the host backs off, `Astray` after a request that did.
  `swj_back_off` is as long as the data phase the target may be in.
- `Got` says that the bits that arrived are those sent, or with one wrong. That the
  parity catches this one is `ParityFlip`, from the cardinality of the set of ones;
  `AckJudged` says that one bit does not make one ACK of another.

The invariant was checked with TLC before the proof, on the bounds of the run with
`LineIInv` as an invariant. With two wrong bits `InStep` itself fails: the host takes
an OK for a FAULT and returns while the target speaks. That is why `MaxFlips` is at
most 1.

### What the proofs changed

`LineAssumption` had `MaxFlips` any number, and no types for the lengths of the
reset. `MemoryAssumption` had any addresses and any calls; in a memory with half a
page the address register leaves it, and a word that is not aligned is not the one at
its address.

The registers of `write_debug_state` were flattened from a sequence of sequences,
a fold; `WriteRegs` counts the places instead.

A packet of no bytes beyond the end of the flash made a session `beyond`, which no
run reached and the accessor does not do. `PastEnd` of `FlashImage` wants a byte
there. And what a hex file makes of an image was a fold whose every step the prover
would have had to unfold; it is the function above. For the same reason `Meaning` of
`HexParser` is a recursive function. It was stated of any file; which files it is
meant for, `WellFormed`, came with the proof.

In `AlgorithmStore` only the totals of records were cut to 16 bits, and those of their
regions, which have the same type in the code, were not: no run could tell, since no
walk is led by one, but the types of the invariant could. `OnDisk` could have had two files of one name. A list had
the empty name, which could have been that of a device, and is `NoName`. The lengths
and the cells of sectors were folds, and are functions for the reason above.

### Only model-checked

Liveness, which is beyond the prover: each component's calls return (or end, or the
walks do). And `GpioPort`, which has no parameter beyond its boards and layouts: the
run takes all of them, so that TLC's answer is the whole one. None of the modules
declares a RECURSIVE operator.

## 6. Not modelled, and the plan

Left out for good: how the sections and symbols of an ELF file are read (one pass
over somebody else's format), the tables of pads, pulls and addresses of the
boards and their mmap (data that only a chip's manual can be checked against),
delays, logging, option parsing and the layout of the dump. One memory map per
behaviour: several calls of `program()` for targets with different maps are not
modelled, and neither is what `_default_flash_region` keeps of an earlier one.

Left out of the modules above: the 32-bit arithmetic of the percentage; hex
records of more than the 32 data bytes a `hex_line_t` holds; an empty chunk for
the parser while it skips a block; a universal hex file whose blocks do not each
begin a chunk keeps only that no other version's data are flashed; `read_ap`,
which nothing calls; `delay_calculate`; failures of the writes of `merge`.

Next: the composition of `SwdTarget` with the exchanges of `TargetMcu` as a
refinement, over a target with memory.

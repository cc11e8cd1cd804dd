------------------------------- MODULE Programs -------------------------------
(***************************************************************************)
(* BinaryProgram and HexProgram (bin_program.cpp, hex_program.cpp), each   *)
(* with a FlashAccessor of its own on the one target.  An accessor is what *)
(* FlashSession promises: a session that accepts packets, fails, and is    *)
(* closed well or badly; between the beginning and the end of a call it    *)
(* may change any cell of the sectors it was handed.                       *)
(*                                                                         *)
(* A binary chunk is a sequence of bytes.  A hex chunk is a sequence of    *)
(* records, each a packet or Garbled (its checksum fails): how characters  *)
(* become records is not modelled here.                                    *)
(***************************************************************************)
EXTENDS FlashImage

CONSTANTS Images,       \* the flash contents a target may come with
          Garbled

ASSUME ProgramAssumption == Images \subseteq [Addr -> Byte]

Progs == {"bin", "hex"}

VARIABLES
    mode,               \* FlashAccessor::_flash_state of each program
    outcome,            \* how the last session ended: "none", "ok", "failed"
    cells, image, open, beyond, scope,      \* as in FlashSession
    torn,               \* two sessions were open at once: nothing is promised
    program_addr,       \* _program_addr of each program
    call, prog,         \* the running call, and whose it is
    todo,               \* the packets it has still to hand over
    busy,               \* it is inside FlashAccessor::write
    bad,                \* the chunk ends in a garbled record
    decode_size,
    answer              \* what the last init or write returned

session == <<mode, outcome, cells, image, open, beyond, scope, torn>>
running == <<call, prog, todo, busy, bad, decode_size>>
prog_vars == <<session, program_addr, running, answer>>

ProgInit ==
    /\ mode = [i \in Progs |-> "closed"] /\ outcome = "none"
    /\ cells \in Images
    /\ image = Blank /\ open = NoSector /\ beyond = FALSE /\ scope = {} /\ torn = FALSE
    /\ program_addr = [i \in Progs |-> 0]
    /\ call = "none" /\ prog = "bin" /\ todo = << >> /\ busy = FALSE /\ bad = FALSE
    /\ decode_size = 0 /\ answer = FALSE

Free == call = "none"
Forget == image' = Blank /\ open' = NoSector /\ beyond' = FALSE /\ scope' = {}
\* A session that was torn promises nothing to begin with.
Forgotten == IF torn THEN UNCHANGED <<image, open, beyond, scope>> ELSE Forget
Answer(result) == call' = "none" /\ answer' = result
Drop == todo' = << >> /\ busy' = FALSE /\ bad' = FALSE /\ decode_size' = 0 /\ UNCHANGED prog

-----------------------------------------------------------------------------
\* init

OthersOpen(i) == \E j \in Progs \ {i} : mode[j] # "closed"

\* _flash.init: refused in a session, and it may fail.
FlashOpens(i) ==
    /\ mode[i] = "closed"
    /\ mode' = [mode EXCEPT ![i] = "open"]
    /\ outcome' = "none"
    /\ IF OthersOpen(i) THEN torn' = TRUE /\ UNCHANGED <<image, open, beyond, scope>>
                        ELSE torn' = FALSE /\ Forget
    /\ Answer(TRUE)
    /\ UNCHANGED cells

FlashRefuses == Answer(FALSE) /\ UNCHANGED session

StartAddr(i, addr) == IF i = "bin" THEN addr ELSE 0

ProgramInit(i, addr) ==
    /\ Free
    /\ \/ i = "bin" /\ addr = 0         \* a binary needs an address
          /\ Answer(FALSE) /\ UNCHANGED <<session, program_addr>>
       \/ /\ i = "bin" => addr # 0
          /\ program_addr' = [program_addr EXCEPT ![i] = StartAddr(i, addr)]
          /\ FlashOpens(i) \/ FlashRefuses
    /\ Drop

-----------------------------------------------------------------------------
\* write

\* The records of a chunk up to the first garbled one.
Sound(chunk) ==
    LET n == CHOOSE n \in 0 .. Len(chunk) :
                /\ \A k \in 1 .. n : chunk[k] # Garbled
                /\ n < Len(chunk) => chunk[n + 1] = Garbled
    IN SubSeq(chunk, 1, n)

PacketsOf(i, chunk) ==
    IF i = "bin" THEN <<[addr |-> program_addr[i], data |-> chunk]>> ELSE Sound(chunk)

ProgramWrite(i, chunk) ==
    /\ Free
    /\ call' = "write" /\ prog' = i
    /\ todo' = PacketsOf(i, chunk)
    /\ bad' = (i = "hex" /\ Garbled \in {chunk[k] : k \in DOMAIN chunk})
    /\ busy' = FALSE /\ decode_size' = 0
    /\ UNCHANGED <<session, program_addr, answer>>

\* A hex file starts where its first data record says.
FirstAddr(packet) ==
    IF prog = "hex" /\ program_addr[prog] = 0 THEN packet.addr ELSE program_addr[prog]

CanWrite(i) == mode[i] = "open"

\* _flash.write, which an accessor without a good session refuses.
PacketBegin ==
    /\ call = "write" /\ ~busy /\ todo # << >>
    /\ program_addr' = [program_addr EXCEPT ![prog] = FirstAddr(Head(todo))]
    /\ \/ /\ CanWrite(prog)
          /\ scope' = scope \cup SectorsOf(Head(todo).addr, Head(todo).data)
          /\ busy' = TRUE
          /\ UNCHANGED <<mode, outcome, cells, image, open, beyond, torn,
                         call, prog, todo, bad, decode_size, answer>>
       \/ /\ ~CanWrite(prog)
          /\ Answer(FALSE) /\ Drop
          /\ UNCHANGED session

PacketAccepted ==
    /\ busy
    /\ LET p == Head(todo).addr
           data == Head(todo).data
       IN /\ IF torn THEN UNCHANGED <<image, open, beyond>>
             ELSE /\ image' = ImageAfter(image, open, p, data)
                  /\ open' = OpenAfter(open, p, data)
                  /\ beyond' = (beyond \/ PastEnd(p, data))
          /\ decode_size' = decode_size + Len(data)
    /\ todo' = Tail(todo) /\ busy' = FALSE
    /\ UNCHANGED <<mode, outcome, cells, scope, torn, program_addr, call, prog, bad, answer>>

PacketFails ==
    /\ busy
    /\ mode' = [mode EXCEPT ![prog] = "error"]
    /\ Forgotten
    /\ Answer(FALSE) /\ Drop
    /\ UNCHANGED <<outcome, cells, torn, program_addr>>

\* Mutant: the address does not move.
WriteEnd_SameAddr ==
    /\ call = "write" /\ ~busy /\ todo = << >>
    /\ Answer(~bad) /\ Drop
    /\ UNCHANGED <<session, program_addr>>

\* Every packet is handed over: the program's address moves past them.
WriteEnd ==
    /\ call = "write" /\ ~busy /\ todo = << >>
    /\ program_addr' = IF bad THEN program_addr
                       ELSE [program_addr EXCEPT ![prog] = @ + decode_size]
    /\ Answer(~bad) /\ Drop
    /\ UNCHANGED session

-----------------------------------------------------------------------------
\* clean: the result of _flash.uninit is dropped

\* Mutant: an accessor in error stays as it is.
Closed_OpenOnly(i) ==
    mode' = IF mode[i] = "open" THEN [mode EXCEPT ![i] = "closed"] ELSE mode
Closed(i) == mode' = [mode EXCEPT ![i] = "closed"]

ProgramClean(i) ==
    /\ Free
    /\ program_addr' = [program_addr EXCEPT ![i] = 0]
    /\ \/ mode[i] = "closed" /\ UNCHANGED <<session, call, prog>>
       \/ /\ mode[i] = "error" /\ Closed(i) /\ outcome' = "failed"
          /\ Forgotten
          /\ UNCHANGED <<cells, torn, call, prog>>
       \/ mode[i] = "open" /\ call' = "clean" /\ prog' = i /\ UNCHANGED session
    /\ UNCHANGED <<todo, busy, bad, decode_size, answer>>

\* The last flush and flash_uninit are through.
CleanEnd ==
    /\ call = "clean"
    /\ Closed(prog)
    /\ \/ /\ torn \/ (Matches(image, cells) /\ ~beyond)
          /\ outcome' = "ok"
          /\ UNCHANGED <<image, open, beyond, scope>>
       \/ outcome' = "failed" /\ Forgotten
    /\ call' = "none"
    /\ UNCHANGED <<cells, torn, program_addr, prog, todo, busy, bad, decode_size, answer>>

-----------------------------------------------------------------------------
\* Inside write and clean the accessor works on the sectors it was handed.
Work ==
    /\ busy \/ call = "clean"
    /\ \E new \in [{a \in Addr : Base(a) \in scope} -> Byte] :
          cells' = [a \in Addr |-> IF a \in DOMAIN new THEN new[a] ELSE cells[a]]
    /\ UNCHANGED <<mode, outcome, image, open, beyond, scope, torn, program_addr, running, answer>>

Progress == PacketBegin \/ PacketAccepted \/ PacketFails \/ WriteEnd \/ CleanEnd

\* The process dies and is started again; the flash stays as it is.
ProgDie ==
    /\ mode' = [i \in Progs |-> "closed"] /\ outcome' = "none" /\ torn' = FALSE
    /\ Forget
    /\ program_addr' = [i \in Progs |-> 0]
    /\ call' = "none" /\ answer' = FALSE /\ Drop
    /\ UNCHANGED cells

ProgTypeOK ==
    /\ mode \in [Progs -> {"closed", "open", "error"}]
    /\ outcome \in {"none", "ok", "failed"}
    /\ cells \in [Addr -> Byte] /\ image \in [Addr -> Byte \cup {Unset}]
    /\ program_addr \in [Progs -> Nat]
    /\ call \in {"none", "write", "clean"} /\ prog \in Progs
    /\ busy => call = "write" /\ todo # << >> /\ mode[prog] = "open"
=============================================================================

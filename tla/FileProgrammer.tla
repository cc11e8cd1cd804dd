---------------------------- MODULE FileProgrammer ----------------------------
(***************************************************************************)
(* FileProgrammer::program (file_programmer.cpp): reads a file piece by    *)
(* piece, hands the pieces to the program its suffix selects and reports   *)
(* its progress.                                                           *)
(*                                                                         *)
(* A file's data are units, Chunk of them in a buffer: the bytes of a      *)
(* binary, the records of a hex file.  The user calls program with any     *)
(* file and address, one call after the other.                             *)
(***************************************************************************)
EXTENDS Programs

CONSTANTS Files,        \* [kind, exists, readable, data]
          Starts,       \* the addresses a user may give
          Chunk,        \* sizeof(_buffer)
          Packets       \* the packets Files and Starts give rise to

ASSUME FileAssumption ==
    /\ Chunk \in Nat \ {0} /\ Starts \subseteq Nat
    /\ \A f \in Files :
        /\ f.kind = "bin" =>
            /\ f.data \in Seq(Byte)
            /\ \A addr \in Starts \ {0}, k \in 0 .. Len(f.data) :
                LET from == k * Chunk
                    to == Smaller(from + Chunk, Len(f.data))
                IN  f.readable /\ from < Len(f.data) =>
                        [addr |-> addr + from, data |-> SubSeq(f.data, from + 1, to)] \in Packets
        /\ f.kind = "hex" =>
            f.data \in Seq({Garbled} \cup (Packets \cap [addr : Nat, data : Seq(Byte)]))

VARIABLES
    pc,                 \* where program() stands
    file, start,        \* its arguments
    pos, eof,           \* ftell and feof of the open file
    registered,         \* a progress callback is registered
    progress,           \* _program_progress
    result              \* what program() last returned

fp_vars == <<pc, file, start, pos, eof, registered, progress, result>>
vars == <<prog_vars, fp_vars>>

NoFile == [kind |-> "none", exists |-> FALSE, readable |-> FALSE, data |-> << >>]

Init ==
    /\ ProgInit
    /\ pc = "idle" /\ file = NoFile /\ start = 0 /\ pos = 0 /\ eof = FALSE
    /\ registered = FALSE /\ progress = 0 /\ result = FALSE

-----------------------------------------------------------------------------

register_progress_changed_callback ==
    /\ pc = "idle"
    /\ registered' = TRUE
    /\ UNCHANGED <<prog_vars, pc, file, start, pos, eof, progress, result>>

set_program_progress(value) ==
    progress' = IF registered THEN value ELSE progress

\* No path, an unknown suffix, no such file, no flash algorithm in the file
\* that should hold it.
Refused(f) == f.kind \notin Progs \/ ~f.exists

Program(f, addr) ==
    /\ pc = "idle"
    /\ file' = f /\ start' = addr
    /\ \/ pc' = "idle" /\ result' = FALSE /\ UNCHANGED <<pos, eof, progress>>
       \/ /\ ~Refused(f)
          /\ pc' = "init" /\ pos' = 0 /\ eof' = FALSE
          /\ set_program_progress(0)
          /\ UNCHANGED result
    /\ UNCHANGED <<prog_vars, registered>>

\* iface->init; nothing is cleaned when it fails.
StartProgram ==
    /\ pc = "init"
    /\ ProgramInit(file.kind, start)
    /\ IF answer' THEN pc' = "loop" /\ UNCHANGED result
                  ELSE pc' = "idle" /\ result' = FALSE
    /\ UNCHANGED <<file, start, pos, eof, registered, progress>>

\* fread reports the end of the file with the first buffer it cannot fill.
rd_size == IF file.readable THEN Smaller(Chunk, Len(file.data) - pos) ELSE 0

\* Mutants: a full buffer ends the file, too; an empty one does not.
AtEnd_OffByOne == file.readable /\ rd_size <= Chunk
AtEnd_Partial == file.readable /\ rd_size \in 1 .. Chunk - 1
AtEnd == file.readable /\ rd_size < Chunk

Read ==
    /\ pc = "loop" /\ ~eof
    /\ eof' = AtEnd
    /\ pos' = pos + rd_size
    /\ IF rd_size > 0
       THEN pc' = "write" /\ ProgramWrite(file.kind, SubSeq(file.data, pos + 1, pos + rd_size))
       ELSE UNCHANGED <<pc, prog_vars>>
    /\ UNCHANGED <<file, start, registered, progress, result>>

Percent == (pos * 100) \div Len(file.data)

\* Mutant: the program is not cleaned after a failure.
Written_NoClean ==
    /\ pc = "write" /\ Free
    /\ IF answer THEN set_program_progress(Percent) /\ pc' = "loop"
                 ELSE pc' = "failed" /\ UNCHANGED progress
    /\ UNCHANGED <<prog_vars, file, start, pos, eof, registered, result>>

Written ==
    /\ pc = "write" /\ Free
    /\ \/ /\ answer
          /\ set_program_progress(Percent)
          /\ pc' = "loop"
          /\ UNCHANGED prog_vars
       \/ /\ ~answer
          /\ ProgramClean(file.kind)
          /\ pc' = "failed" /\ UNCHANGED progress
    /\ UNCHANGED <<file, start, pos, eof, registered, result>>

Finish ==
    /\ pc = "loop" /\ eof
    /\ pc' = "finish"
    /\ set_program_progress(100)
    /\ UNCHANGED <<prog_vars, file, start, pos, eof, registered, result>>

Clean ==
    /\ pc = "finish"
    /\ ProgramClean(file.kind)
    /\ pc' = "clean"
    /\ UNCHANGED <<file, start, pos, eof, registered, progress, result>>

Done ==
    /\ pc \in {"clean", "failed"} /\ Free
    /\ pc' = "idle"
    /\ result' = (pc = "clean")
    /\ UNCHANGED <<prog_vars, file, start, pos, eof, registered, progress>>

\* What the process does by itself; the session works in between.
Step == StartProgram \/ Read \/ Written \/ Finish \/ Clean \/ Done
     \/ (Progress /\ UNCHANGED fp_vars)

Die ==
    /\ ProgDie
    /\ pc' = "idle" /\ file' = NoFile /\ start' = 0 /\ pos' = 0 /\ eof' = FALSE
    /\ registered' = FALSE /\ progress' = 0 /\ result' = FALSE

User == register_progress_changed_callback \/ (\E f \in Files, addr \in Starts : Program(f, addr))

Next == Step \/ (Work /\ UNCHANGED fp_vars) \/ User \/ Die

Spec == Init /\ [][Next]_vars

(***************************************************************************)
(* The process keeps running, and a call of the accessor returns           *)
(* (CallsReturn of FlashAccessor).                                         *)
(***************************************************************************)
FairSpec == Spec /\ WF_vars(Step)

-----------------------------------------------------------------------------
\* What a session makes of the whole file in one go.
AfterRecord(state, record) ==
    [image |-> ImageAfter(state.image, state.open, record.addr, record.data),
     open |-> OpenAfter(state.open, record.addr, record.data)]

AfterRecords(records) ==
    LET after[n \in 0 .. Len(records)] ==
            IF n = 0 THEN [image |-> Blank, open |-> NoSector]
            ELSE AfterRecord(after[n - 1], records[n])
    IN  after

FileImage(f, addr) ==
    IF f.kind = "bin" THEN ImageAfter(Blank, NoSector, addr, f.data)
    ELSE AfterRecords(f.data)[Len(f.data)].image

\* Every variable has its type.
FileTypeOK ==
    /\ ProgTypeOK
    /\ pc \in {"idle", "init", "loop", "write", "finish", "clean", "failed"}
    /\ pos \in Nat /\ (pc # "idle" => pos <= Len(file.data)) /\ progress \in 0 .. 100
    /\ eof \in BOOLEAN /\ registered \in BOOLEAN /\ result \in BOOLEAN

Sessions(m) == {i \in Progs : mode[i] = m}
SessionMode == CASE Sessions("open") # {} -> "open"
                 [] Sessions("error") # {} -> "error"
                 [] OTHER -> "closed"

Session == INSTANCE FlashSession WITH mode <- SessionMode

\* The two programs, each with its own accessor, use the flash as one session
\* at a time: a session begins when none is open, packets are handed to an open
\* one, and only it touches the flash (program() cleans up after each of its
\* failures).
SessionKept == Session!Spec

\* However the buffers cut the file, the session has got the image of the whole
\* file at its address when the read loop of program() is through.
HandedOver == pc = "finish" => image = FileImage(file, start)

\* When program() has returned true and its session was closed well, the flash
\* holds the file.
HoldsFile ==
    (pc = "idle" /\ result /\ outcome = "ok") => Matches(FileImage(file, start), cells)

\* No session is left open when program() has returned.
NoneLeftOpen == pc = "idle" => Sessions("closed") = Progs

\* The callback hears 100 only when the whole file has been handed over.
ProgressHonest ==
    (pc \in {"loop", "write", "finish"} /\ progress = 100) => pos = Len(file.data)

\* The invariant of program(): types, honest progress, nothing of the file is lost on the way to
\* the session, and every way out closes it.
FileInv == FileTypeOK /\ ProgressHonest /\ HandedOver /\ NoneLeftOpen

\* A call of program() returns if its file can be read: the loop waits for feof,
\* which a read error does not set.
ProgramReturns == (pc # "idle" /\ file.readable) ~> (pc = "idle")

\* What flash_accessor.cpp:343 asks for: "Make sure an error from a page write
\* or from an uninit gets propagated".
ErrorPropagated == (pc = "idle" /\ result /\ file.data # << >>) => outcome = "ok"
=============================================================================

--------------------------- MODULE StreamProgrammer ---------------------------
(***************************************************************************)
(* StreamProgrammer (stream_programmer.cpp): the same two programs, fed    *)
(* piece by piece by its user.  Any order of calls is allowed: init twice, *)
(* write without init, with an empty piece, after a failure.  Destroy is   *)
(* the destructor, after which the user makes a new StreamProgrammer over  *)
(* the same two programs.                                                  *)
(***************************************************************************)
EXTENDS Programs

CONSTANTS Starts,       \* the addresses a user may give
          Pieces,       \* Pieces[mode]: the chunks a user may write in a mode
          MaxMixed,     \* bound: inits of a stream that is not cleaned
          MaxWritten    \* bound: bytes or records written to a stream

ASSUME StreamAssumption ==
    /\ Starts \subseteq Nat /\ MaxWritten \in Nat /\ MaxMixed \in Nat
    /\ Pieces["bin"] \subseteq Seq(Byte)
    /\ Pieces["hex"] \subseteq Seq({Garbled} \cup [addr : Nat, data : Seq(Byte)])

VARIABLES
    iface,              \* _iface: a program, or "none"
    pc,                 \* the running call of the user
    failed_write        \* the last call was a write that returned false

\* History: where the stream starts and how much was written to it, the bytes
\* if it is a binary, whether it has been cleaned, and how often its user
\* called init before that (the bytes are forgotten once it happened).
VARIABLES start, written, sent, cleaned, mixed

sp_vars == <<iface, pc, failed_write>>
stream == <<start, written, sent, cleaned, mixed>>
vars == <<prog_vars, sp_vars, stream>>

Init ==
    /\ ProgInit
    /\ iface = "none" /\ pc = "idle" /\ failed_write = FALSE
    /\ start = 0 /\ written = 0 /\ sent = << >> /\ cleaned = TRUE /\ mixed = 0

NewStream(addr) == start' = addr /\ written' = 0 /\ sent' = << >>
EndStream == NewStream(0) /\ cleaned' = TRUE /\ UNCHANGED mixed

Idle == pc = "idle" /\ Free

-----------------------------------------------------------------------------

\* _iface is the new program even when its init fails.
InitStream(m, addr) ==
    /\ Idle
    /\ failed_write' = FALSE
    /\ mixed' = IF cleaned THEN mixed ELSE mixed + 1
    /\ mixed' <= MaxMixed
    /\ \/ /\ m \notin Progs
          /\ iface' = "none"
          /\ UNCHANGED <<prog_vars, pc, start, written, sent, cleaned>>
       \/ /\ m \in Progs
          /\ iface' = m
          /\ ProgramInit(m, addr)
          /\ NewStream(addr) /\ cleaned' = FALSE
          /\ UNCHANGED pc

Write(piece) ==
    /\ Idle
    /\ \/ /\ iface = "none"
          /\ failed_write' = TRUE
          /\ UNCHANGED <<prog_vars, iface, pc, stream>>
       \/ /\ iface # "none" /\ piece \in Pieces[iface]
          /\ written + Len(piece) <= MaxWritten
          /\ ProgramWrite(iface, piece)
          /\ pc' = "write"
          /\ failed_write' = FALSE
          /\ written' = written + Len(piece)
          /\ sent' = IF iface = "bin" /\ mixed = 0 THEN sent \o piece ELSE sent
          /\ UNCHANGED <<iface, start, cleaned, mixed>>

\* A write that fails cleans the program; the stream stays on it.
Written ==
    /\ pc = "write" /\ Free
    /\ failed_write' = ~answer
    /\ \/ answer /\ pc' = "idle" /\ UNCHANGED <<prog_vars, stream>>
       \/ ~answer /\ pc' = "clean" /\ ProgramClean(iface) /\ EndStream
    /\ UNCHANGED iface

Clean ==
    /\ Idle
    /\ failed_write' = FALSE
    /\ IF iface = "none" THEN UNCHANGED <<prog_vars, pc>>
                         ELSE ProgramClean(iface) /\ pc' = "clean"
    /\ EndStream
    /\ UNCHANGED iface

Cleaned ==
    /\ pc = "clean" /\ Free
    /\ pc' = "idle"
    /\ UNCHANGED <<prog_vars, iface, failed_write, stream>>

\* Mutant: the destructor leaves the session open.
Destroy_NoClean ==
    /\ Idle
    /\ failed_write' = FALSE
    /\ iface' = "none"
    /\ EndStream
    /\ UNCHANGED <<prog_vars, pc>>

\* The destructor cleans as well; a new StreamProgrammer has no program.
Destroy ==
    /\ Idle
    /\ failed_write' = FALSE
    /\ iface' = "none"
    /\ IF iface = "none" THEN UNCHANGED <<prog_vars, pc>>
                         ELSE ProgramClean(iface) /\ pc' = "clean"
    /\ EndStream

User ==
    \/ \E m \in Progs \cup {"none"}, addr \in Starts : InitStream(m, addr)
    \/ \E m \in Progs : \E piece \in Pieces[m] : Write(piece)
    \/ Clean \/ Destroy

Next ==
    \/ User \/ Written \/ Cleaned
    \/ (Progress \/ Work) /\ UNCHANGED <<sp_vars, stream>>

Spec == Init /\ [][Next]_vars

-----------------------------------------------------------------------------
\* Every variable has its type.
StreamTypeOK ==
    /\ ProgTypeOK
    /\ iface \in Progs \cup {"none"}
    /\ pc \in {"idle", "write", "clean"}
    /\ cleaned \in BOOLEAN /\ mixed \in 0 .. MaxMixed

\* However the user cuts a binary into pieces, empty ones too, the session has
\* the image of one write of all of them at the start address, and the next
\* piece goes behind the last one.
StreamInOrder ==
    (Idle /\ mixed = 0 /\ mode["bin"] = "open") =>
        /\ image = ImageAfter(Blank, NoSector, start, sent)
        /\ open = (IF sent = << >> THEN NoSector ELSE OpenAfter(NoSector, start, sent))
        /\ program_addr["bin"] = start + Len(sent)

\* The invariant of a stream: types, and nothing of it is lost or out of order.
StreamInv == StreamTypeOK /\ StreamInOrder

\* When write has returned false, the session it wrote to is closed: a later
\* write cannot go on behind the gap.
FailedWriteCloses ==
    (Idle /\ failed_write /\ iface # "none") => mode[iface] = "closed"

\* A user who always cleans before init never has two sessions at once, and
\* finds both programs closed: clean, the destructor and a failed write close
\* whatever init opened.
CleanCloses ==
    mixed = 0 =>
        /\ ~torn
        /\ (Idle /\ cleaned) => \A i \in Progs : mode[i] = "closed"
=============================================================================

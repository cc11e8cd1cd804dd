------------------------------ MODULE HexParser ------------------------------
(***************************************************************************)
(* HexProgram::write_hex (hex_program.cpp) and parse_hex_blob              *)
(* (hex_parser.c): a hex file comes in chunks cut at any character, and    *)
(* its data leave in packets for the flash.                                *)
(*                                                                         *)
(* A file is a sequence of characters: a colon, a line end, or one of the  *)
(* 2 * RecordBytes digits of a record, which carries the record it is of.  *)
(* An address has a high and a low part; Low is 2^16 in the code.  Records *)
(* have at most the 32 data bytes a hex_line_t holds.                      *)
(***************************************************************************)
EXTENDS Integers, Sequences, SequencesExt

CONSTANTS Files,        \* the sequences of characters to decode
          RecordBytes,  \* bytes of a record, all of them alike
          Low,          \* the number of low addresses
          MaxChunk      \* bound: the longest chunk

ASSUME HexAssumption == RecordBytes \in Nat \ {0} /\ Low \in Nat \ {0} /\ MaxChunk \in Nat

VARIABLES
    parser,             \* hex_parser_t
    blob, parsed,       \* hex_data of write_hex, and hex_parse_cnt
    buf, start,         \* _decode_buffer and bin_start_address
    status,             \* what parse_hex_blob returned
    pc,                 \* where write_hex stands
    flashed             \* the bytes handed to the flash, with their addresses

\* The file, what the user has fed of it, and whether every block of it began
\* with a chunk.
VARIABLES file, pos, aligned

vars == <<parser, blob, parsed, buf, start, status, pc, flashed, file, pos, aligned>>

NoRecord == [type |-> "none", value |-> 0, data |-> << >>, sound |-> FALSE]

\* memset(parser, 0)
reset_hex_parser ==
    [line |-> NoRecord, next_address_to_write |-> 0, low_nibble |-> FALSE, idx |-> 0,
     record_processed |-> FALSE, load_unaligned_record |-> FALSE,
     skip_until_aligned |-> FALSE, binary_version |-> 0]

Init ==
    /\ parser = reset_hex_parser
    /\ blob = << >> /\ parsed = 0 /\ buf = << >> /\ start = 0
    /\ status = "OK" /\ pc = "idle" /\ flashed = << >>
    /\ file \in Files /\ pos = 0 /\ aligned = TRUE

-----------------------------------------------------------------------------
IsColon(c) == c.type = "colon"
IsEnd(c) == c.type = "end"
Char == blob[parsed + 1]

\* HexProgram::init, for the next file or after a failure.
Reset ==
    /\ pc \in {"idle", "failed"}
    /\ parser' = reset_hex_parser
    /\ file' \in Files /\ pos' = 0 /\ aligned' = TRUE
    /\ flashed' = << >> /\ pc' = "idle"
    /\ UNCHANGED <<blob, parsed, buf, start, status>>

\* HexProgram::write with the next n characters.
Write(n) ==
    /\ pc = "idle" /\ pos + n <= Len(file)
    /\ blob' = SubSeq(file, pos + 1, pos + n)
    /\ pos' = pos + n
    /\ aligned' = (aligned /\ \A k \in 2 .. n : ~(IsColon(blob'[k]) /\ blob'[k].block))
    /\ pc' = "parse"
    /\ UNCHANGED <<parser, parsed, buf, start, status, flashed, file>>

-----------------------------------------------------------------------------
\* The address of a record: the high part of where the last one ended.
High(a) == a - (a % Low)
RecordAddr(p) == High(p.next_address_to_write) + p.line.value
After(p) == [p EXCEPT !.next_address_to_write = RecordAddr(p) + Len(p.line.data)]

Quiet == UNCHANGED <<blob, flashed, file, pos, aligned>>
Continue(p) == parser' = p /\ pc' = "scan" /\ UNCHANGED <<start, status>> /\ Quiet
\* The exits of the parser; first is the address behind the buffer.
Exit(p, result, behind) ==
    /\ parser' = p
    /\ status' = result /\ start' = behind - Len(buf')
    /\ pc' = "parsed"
    /\ Quiet
Leave(p, result) == Exit(p, result, p.next_address_to_write)

\* A block that is skipped because it does not begin with a record.
SkipBlob ==
    /\ pc = "parse" /\ parser.skip_until_aligned /\ ~IsColon(blob[1])
    /\ parsed' = 0 /\ buf' = << >>
    /\ Leave(parser, "OK")

\* The record that ended the last call comes first.
Enter ==
    /\ pc = "parse" /\ (parser.skip_until_aligned => IsColon(blob[1]))
    /\ parsed' = 0
    /\ LET p == [parser EXCEPT !.skip_until_aligned = FALSE, !.load_unaligned_record = FALSE]
       IN IF parser.load_unaligned_record
          THEN buf' = p.line.data /\ Continue(After(p))
          ELSE buf' = << >> /\ Continue(p)

Scanning == pc = "scan" /\ parsed < Len(blob)
Consume == parsed' = parsed + 1

EndOfBlob ==
    /\ pc = "scan" /\ parsed = Len(blob)
    /\ UNCHANGED <<parsed, buf>>
    /\ Leave(parser, "OK")

LineEnd == Scanning /\ IsEnd(Char) /\ Consume /\ UNCHANGED buf /\ Continue(parser)

\* Mutant: the colon clears the version, too.
Colon_ClearsAll ==
    /\ Scanning /\ IsColon(Char)
    /\ Consume /\ UNCHANGED buf
    /\ Continue(reset_hex_parser)

Colon ==
    /\ Scanning /\ IsColon(Char)
    /\ Consume /\ UNCHANGED buf
    /\ Continue([parser EXCEPT !.line = NoRecord, !.low_nibble = FALSE,
                               !.idx = 0, !.record_processed = FALSE])

\* A digit.  The parser toggles low_nibble with the character it consumes.
OnDigit == Scanning /\ Char.type = "digit"
Toggle(p) == [p EXCEPT !.low_nibble = ~p.low_nibble]

HighDigit ==
    /\ OnDigit /\ ~parser.low_nibble
    /\ Consume /\ UNCHANGED buf
    /\ Continue(Toggle([parser EXCEPT !.line = Char.record]))

Counted == [parser EXCEPT !.idx = @ + 1]
Complete == OnDigit /\ parser.low_nibble /\ Counted.idx >= RecordBytes

LowDigit ==
    /\ OnDigit /\ parser.low_nibble /\ Counted.idx < RecordBytes
    /\ Consume /\ UNCHANGED buf
    /\ Continue(Toggle(Counted))

ChecksumFails ==
    /\ Complete /\ ~parser.line.sound
    /\ UNCHANGED <<parsed, buf>>
    /\ Leave(Counted, "CKSUM_FAIL")

\* Mutant: a digit that is read again is not consumed.
Again_Stuck ==
    /\ Complete /\ parser.line.sound /\ parser.record_processed
    /\ UNCHANGED <<parsed, buf>>
    /\ Continue(parser)

\* More digits than the record has, or its last one once more.
Again ==
    /\ Complete /\ parser.line.sound /\ parser.record_processed
    /\ Consume /\ UNCHANGED buf
    /\ Continue(Toggle(Counted))

Processed == [Counted EXCEPT !.record_processed = TRUE]
Fresh(types) ==
    Complete /\ parser.line.sound /\ ~parser.record_processed /\ parser.line.type \in types

Metadata ==
    /\ Fresh({"meta"})
    /\ Consume /\ UNCHANGED buf
    /\ Continue(Toggle([Processed EXCEPT !.binary_version = parser.line.value]))

IsContiguous == RecordAddr(parser) = parser.next_address_to_write

Data ==
    /\ Fresh({"data"}) /\ parser.binary_version = 0 /\ IsContiguous
    /\ Consume
    /\ buf' = buf \o parser.line.data
    /\ Continue(Toggle(After(Processed)))

\* What is decoded is programmed first; the record is loaded by the next call.
DataUnaligned ==
    /\ Fresh({"data"}) /\ parser.binary_version = 0 /\ ~IsContiguous
    /\ Consume /\ UNCHANGED buf
    /\ Leave([Processed EXCEPT !.load_unaligned_record = TRUE], "UNALIGNED")

DataOfOther ==
    /\ Fresh({"data"}) /\ parser.binary_version # 0
    /\ UNCHANGED <<parsed, buf>>
    /\ Leave([Processed EXCEPT !.skip_until_aligned = TRUE], "OK")

EndOfFile ==
    /\ Fresh({"eof"})
    /\ UNCHANGED <<parsed, buf>>
    /\ Leave(Processed, "EOF")

\* Mutant: the address is changed before the buffer's is taken from it.
ExtendedAddr_Early ==
    /\ Fresh({"seg", "lin"})
    /\ UNCHANGED <<parsed, buf>>
    /\ Leave([Processed EXCEPT !.next_address_to_write = parser.line.value], "UNALIGNED")

\* Segment and linear address: the digit is not consumed.
ExtendedAddr ==
    /\ Fresh({"seg", "lin"})
    /\ UNCHANGED <<parsed, buf>>
    /\ Exit([Processed EXCEPT !.next_address_to_write = parser.line.value], "UNALIGNED",
            parser.next_address_to_write)

OtherRecord ==
    /\ Fresh({"other"})
    /\ Consume /\ UNCHANGED buf
    /\ Continue(Toggle(Processed))

Parse ==
    \/ SkipBlob \/ Enter \/ EndOfBlob \/ LineEnd \/ Colon \/ HighDigit \/ LowDigit \/ ChecksumFails \/ Again
    \/ Metadata \/ Data \/ DataUnaligned \/ DataOfOther \/ EndOfFile \/ ExtendedAddr \/ OtherRecord

-----------------------------------------------------------------------------
\* write_hex after a call of the parser.
Located(addr, data) == [k \in DOMAIN data |-> <<addr + k - 1, data[k]>>]

Rest == SubSeq(blob, parsed + 1, Len(blob))

FlashWrite ==
    /\ pc = "parsed" /\ status # "CKSUM_FAIL"
    /\ flashed' = flashed \o Located(start, buf)
    /\ IF status = "UNALIGNED" THEN pc' = "parse" /\ blob' = Rest
                               ELSE pc' = "idle" /\ blob' = << >>
    /\ buf' = << >> /\ parsed' = 0
    /\ UNCHANGED <<parser, start, status, file, pos, aligned>>

WriteFails ==
    /\ pc = "parsed"
    /\ status = "CKSUM_FAIL" \/ buf # << >>
    /\ pc' = "failed"
    /\ blob' = << >> /\ buf' = << >> /\ parsed' = 0
    /\ UNCHANGED <<parser, start, status, flashed, file, pos, aligned>>

Step == Parse \/ FlashWrite \/ WriteFails

Next == Step \/ Reset \/ \E n \in 1 .. MaxChunk : Write(n)

Spec == Init /\ [][Next]_vars
FairSpec == Spec /\ WF_vars(Step)

-----------------------------------------------------------------------------
(***************************************************************************)
(* What the hex format says: data records of the version 0 up to the end   *)
(* of the file, each at its own address above the last extended one.       *)
(***************************************************************************)
Started == [base |-> 0, version |-> 0, ended |-> FALSE, bytes |-> << >>]

Meant(state, r) ==
    IF state.ended THEN state
    ELSE IF ~r.sound \/ r.type = "eof" THEN [state EXCEPT !.ended = TRUE]
    ELSE IF r.type = "meta" THEN [state EXCEPT !.version = r.value]
    ELSE IF r.type \in {"seg", "lin"} THEN [state EXCEPT !.base = r.value]
    ELSE IF r.type = "data" /\ state.version = 0
         THEN [state EXCEPT !.bytes = @ \o Located(state.base + r.value, r.data)]
    ELSE state

\* A record counts when its last digit has been read.
EndsRecord(c) == c.type = "digit" /\ c.last

MeaningsOf(f) ==
    LET state[n \in 0 .. Len(f)] ==
            IF n = 0 THEN Started
            ELSE IF EndsRecord(f[n]) THEN Meant(state[n - 1], f[n].record) ELSE state[n - 1]
    IN  state

\* What the first n characters say.
Meaning(n) == MeaningsOf(file)[n].bytes

-----------------------------------------------------------------------------
(***************************************************************************)
(* The files the parser is made for.  Nothing checks a file: what is said  *)
(* of decoding is said of these; the README says what becomes of others.    *)
(***************************************************************************)
LineLength == 2 * RecordBytes + 2
Lines(f) == Len(f) \div LineLength
CharAt(f, i, o) == f[(i * LineLength) + o + 1]
RecordAt(f, i) == CharAt(f, i, 1).record
BlockAt(f, i) == CharAt(f, i, 0).block

IsSeq(s) == s \in Seq({s[k] : k \in DOMAIN s})

\* A colon, the digits of one record and a line end, line after line.
IsText(f) ==
    /\ IsSeq(f) /\ Len(f) = Lines(f) * LineLength
    /\ \A i \in 0 .. Lines(f) - 1 :
        /\ IsColon(CharAt(f, i, 0)) /\ BlockAt(f, i) \in BOOLEAN
        /\ \A o \in 1 .. 2 * RecordBytes :
             LET c == CharAt(f, i, o) IN
             /\ c.type = "digit" /\ c.record = RecordAt(f, i)
             /\ (c.last <=> o = 2 * RecordBytes)
        /\ IsEnd(CharAt(f, i, LineLength - 1))

IsExtended(r) == r.type \in {"seg", "lin"}

\* Data end within the 2^16 addresses of their high part; behind data that end with
\* them there is an extended address, or no data.  Extended addresses are multiples
\* of 2^16, and the end of the file is at its end.
RecordFits(f, i) ==
    LET r == RecordAt(f, i) IN
    /\ r.type \in {"data", "eof", "seg", "lin", "meta", "other"}
    /\ r.value \in Nat /\ r.sound \in BOOLEAN
    /\ IsSeq(r.data)
    /\ IsExtended(r) => r.value % Low = 0
    /\ r.type = "eof" => i + 1 = Lines(f)
    /\ r.type = "data" =>
        /\ r.value < Low /\ r.value + Len(r.data) <= Low
        /\ r.value + Len(r.data) = Low /\ i + 1 < Lines(f) =>
             RecordAt(f, i + 1).type \in {"eof", "seg", "lin"}

\* A universal hex file: a block begins with an extended address and says its version
\* in the record behind it.
HasVersions(f) ==
    \E i \in 0 .. Lines(f) - 1 : RecordAt(f, i).type = "meta" /\ RecordAt(f, i).value # 0

BlocksFit(f, i) ==
    /\ BlockAt(f, i) => IsExtended(RecordAt(f, i))
    /\ RecordAt(f, i).type = "meta" => i > 0 /\ BlockAt(f, i - 1)
    /\ HasVersions(f) => RecordAt(f, i).sound

WellFormed(f) ==
    IsText(f) /\ \A i \in 0 .. Lines(f) - 1 : RecordFits(f, i) /\ BlocksFit(f, i)

AllWellFormed == \A f \in Files : WellFormed(f)

-----------------------------------------------------------------------------
\* Every variable has its type.
HexTypeOK ==
    /\ pc \in {"idle", "parse", "scan", "parsed", "failed"}
    /\ status \in {"OK", "EOF", "UNALIGNED", "CKSUM_FAIL"}
    /\ parsed \in 0 .. Len(blob) /\ start \in Nat
    /\ parser.idx \in 0 .. RecordBytes + 1

\* However a file is cut into chunks, write_hex hands the bytes of its complete
\* records to the flash, each at its address and in the order of the file; and
\* before it returns, or when it fails, no other ones.  A file of several
\* versions has to begin a chunk with each of its blocks.
Decoded ==
    aligned =>
        /\ IsPrefix(flashed, Meaning(pos))
        /\ pc = "idle" => flashed = Meaning(pos)

\* However such a file is cut, the data of a block for another version are not
\* handed to the flash (its address may get lost: the blocks are meant to begin
\* a chunk).
OthersSkipped ==
    LET meant == Meaning(pos) IN
    \A k \in DOMAIN flashed : \E j \in DOMAIN meant : flashed[k][2] = meant[j][2]

\* The invariant of the parser: types, and no other version's data in the flash.
HexInv == HexTypeOK /\ OthersSkipped

\* The parser gets on with every chunk, also where it leaves a digit to be read
\* once more.
WriteReturns == pc \in {"parse", "scan", "parsed"} ~> pc \in {"idle", "failed"}
=============================================================================

--------------------------- MODULE MCFileProgrammer ---------------------------
\* FileProgrammer on three sectors of 2 bytes; the values are in the .cfg files.
EXTENDS FileProgrammer, FlashMaps

File(kind, data) == [kind |-> kind, exists |-> TRUE, readable |-> TRUE, data |-> data]
Record(a, d) == [addr |-> a, data |-> d]

\* A file that fills its last buffer and one that does not, an empty one, hex
\* files with a gap and with a garbled record, one of another suffix, one that
\* is not there, and a directory.
SomeFiles == {
    File("bin", <<D, FF, D>>), File("bin", <<FF, D>>), File("bin", << >>),
    File("hex", <<Record(1, <<D>>), Record(2, <<D, D>>), Record(5, <<D>>)>>),
    File("hex", <<Record(0, <<D>>), Garbled, Record(1, <<D>>)>>),
    File("elf", <<D>>),
    [kind |-> "bin", exists |-> FALSE, readable |-> FALSE, data |-> << >>],
    [kind |-> "bin", exists |-> TRUE, readable |-> FALSE, data |-> <<D>>]}

\* None, inside a sector, and so high that a file crosses the end of the flash.
SomeStarts == {0, 1, 4}

\* The buffers of the binaries at 1 and 4, and the hex records.
SomePackets == {
    Record(1, <<D, FF>>), Record(3, <<D>>), Record(1, <<FF, D>>),
    Record(4, <<D, FF>>), Record(6, <<D>>), Record(4, <<FF, D>>),
    Record(0, <<D>>), Record(1, <<D>>), Record(2, <<D, D>>), Record(5, <<D>>)}

ASSUME MapAssumption == SectorsAligned
=============================================================================

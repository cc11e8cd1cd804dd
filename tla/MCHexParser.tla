----------------------------- MODULE MCHexParser -----------------------------
\* HexParser on small files; the values are in the .cfg files.
EXTENDS HexParser

CONSTANTS A, B, C       \* values of a byte

Rec(type, value, data) == [type |-> type, value |-> value, data |-> data, sound |-> TRUE]
Garbled == [Rec("data", 2, <<C>>) EXCEPT !.sound = FALSE]

\* A record's line; block says that a block for one version begins here.
Line(r, block) ==
    <<[type |-> "colon", block |-> block]>>
    \o [k \in 1 .. 2 * RecordBytes |-> [type |-> "digit", record |-> r, last |-> k = 2 * RecordBytes]]
    \o <<[type |-> "end"]>>

Text(lines) == FlattenSeq([k \in DOMAIN lines |-> Line(lines[k][1], lines[k][2])])

Plain(records) == Text([k \in DOMAIN records |-> <<records[k], FALSE>>])
Eof == Rec("eof", 0, << >>)

\* Contiguous records, a gap, a step back, an empty record, a new high part
\* right behind data, and a garbled record.
PlainFiles == {
    Plain(<<Rec("data", 0, <<A, B>>), Rec("data", 2, <<C>>), Rec("data", 1, <<B>>), Eof>>),
    Plain(<<Rec("lin", 4, << >>), Rec("data", 1, <<A>>), Rec("lin", 8, << >>), Rec("data", 1, <<B, C>>), Eof>>),
    Plain(<<Rec("seg", 4, << >>), Rec("data", 0, <<A>>), Rec("other", 0, << >>), Rec("data", 1, <<B>>)>>),
    Plain(<<Rec("data", 3, << >>), Rec("data", 1, <<A>>), Garbled, Rec("data", 2, <<B>>)>>)}

\* A universal hex file: blocks for another version and for this one.
VersionFiles == {
    Text(<< <<Rec("lin", 0, << >>), TRUE>>, <<Rec("meta", 1, << >>), FALSE>>, <<Rec("data", 0, <<C>>), FALSE>>,
            <<Rec("lin", 4, << >>), TRUE>>, <<Rec("meta", 0, << >>), FALSE>>, <<Rec("data", 1, <<A>>), FALSE>>,
            <<Rec("lin", 0, << >>), TRUE>>, <<Rec("meta", 1, << >>), FALSE>>, <<Rec("data", 1, <<B>>), FALSE>> >>)}

SomeFiles == PlainFiles \cup VersionFiles

ASSUME FileAssumption == AllWellFormed
=============================================================================

-------------------------- MODULE MCStreamProgrammer --------------------------
\* StreamProgrammer on two sectors of 2 bytes; the values are in the .cfg files.
EXTENDS StreamProgrammer, FlashMaps

Record(a, d) == [addr |-> a, data |-> d]

ErasedOnly == {ErasedFlash}
SomeStarts == {0, 1}
\* Pieces that end before, at and behind a sector boundary; hex records, one of
\* them garbled, or none.
SomePieces == [m \in Progs |->
    IF m = "bin" THEN {<< >>, <<D>>, <<D, FF>>}
    ELSE {<< >>, <<Record(2, <<D>>)>>, <<Record(3, <<D>>), Garbled>>}]

ASSUME MapAssumption == SectorsAligned
=============================================================================

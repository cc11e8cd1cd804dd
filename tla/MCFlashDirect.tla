---------------------------- MODULE MCFlashDirect ----------------------------
\* FlashDirect on the memory maps of FlashMaps; the values are in the .cfg files.
EXTENDS FlashDirect, FlashMaps

Piece(a, d) == [addr |-> a, data |-> d]
\* A1 programs the first in two pages, and verifies the first of these in two
\* pieces; A2 the second in two pages.  One that says otherwise inside of the first,
\* and one of no bytes.
SomePieces == {Piece(0, <<D, E, FF, D>>), Piece(5, <<D, E>>), Piece(1, <<D>>), Piece(5, << >>)}

\* Two sectors of 2 bytes, then sectors of 1.
GapSectors == <<[start |-> 0, size |-> 2], [start |-> 4, size |-> 1]>>
\* A region without algorithm in the middle of the table.  It comes before the
\* region that ends where it starts, so that it is the one that is looked up.
GapRegions == <<[start |-> 5, end |-> 7, default |-> TRUE, algo |-> A2],
                [start |-> 4, end |-> 5, default |-> FALSE, algo |-> NoAlgo],
                [start |-> 0, end |-> 4, default |-> FALSE, algo |-> A1]>>
GapCovers == [a \in {A1, A2} |-> IF a = A1 THEN 0 .. 3 ELSE 5 .. 6]

ASSUME MapAssumption == RegionsFound
=============================================================================

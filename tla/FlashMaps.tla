------------------------------ MODULE FlashMaps ------------------------------
(***************************************************************************)
(* Small memory maps and flash contents for the model checker.             *)
(***************************************************************************)
EXTENDS FlashLayout

CONSTANTS A1, A2, D, E      \* two algorithms and two values of a byte

\* Nothing below address 2, then sectors of 2, 4 and 2 bytes.  The table has one
\* entry per run of equal sectors.
MixedSectors == <<[start |-> 2, size |-> 2], [start |-> 4, size |-> 4], [start |-> 8, size |-> 2]>>
\* Sectors of 2 bytes.
EqualSectors == <<[start |-> 0, size |-> 2]>>

\* What Algorithm::extract makes: one region, the default one.
OneRegion == <<[start |-> 0, end |-> MaxAddr + 1, default |-> TRUE, algo |-> A1]>>
\* Two algorithms, the second for the last sector; the code counts a region's
\* end as part of it, so the region that starts where the other ends comes first.
MixedRegions == <<[start |-> 8, end |-> 10, default |-> FALSE, algo |-> A2],
                  [start |-> 0, end |-> 8, default |-> FALSE, algo |-> A1]>>

\* A1 programs 3 bytes at a time, A2 programs 1 and verifies itself.
Pages == [a \in {A1, A2} |-> IF a = A1 THEN 3 ELSE 1]
Verifiers == [a \in {A1, A2} |-> a = A2]
OneCovers == [a \in {A1, A2} |-> IF a = A1 THEN Addr ELSE {}]
MixedCovers == [a \in {A1, A2} |-> IF a = A1 THEN 0 .. 7 ELSE 8 .. 9]

ErasedFlash == [a \in Addr |-> FF]
UsedFlash == [a \in Addr |-> IF a % 3 = 2 THEN E ELSE FF]
SomeImages == {ErasedFlash, UsedFlash}
UsedImages == {UsedFlash}
=============================================================================

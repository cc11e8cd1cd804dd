----------------------------- MODULE FlashImage -----------------------------
(***************************************************************************)
(* What a flash session makes of the packets it accepts, as operators on   *)
(* an image of the flash.  A sector is programmed as a whole: it is opened *)
(* blank, takes the bytes written while it is the open one, and is blank   *)
(* again when a later packet comes back to it.                             *)
(***************************************************************************)
EXTENDS FlashLayout

CONSTANT Unset      \* a cell no accepted packet has touched

ASSUME UnsetAssumption == Unset \notin Byte

Base(a) == IF flash_erase_sector_size(a) = 0 THEN a ELSE ROUND_DOWN(a, flash_erase_sector_size(a))

\* The addresses of a packet, and the sectors it opens (a packet without
\* data opens the sector of its address).
Covered(p, data) == p .. p + Len(data) - 1
SectorsOf(p, data) == {Base(a) : a \in Covered(p, data) \cup {p}}

\* Some byte of the packet lies past the end of the flash.
PastEnd(p, data) == data # << >> /\ p + Len(data) > MaxAddr + 1

Blank == [a \in Addr |-> Unset]

(***************************************************************************)
(* NoSector: no sector is open.  A packet that ends on a sector boundary   *)
(* closes its sector, and so does one without data in another sector.      *)
(***************************************************************************)
NoSector == -1

OpenAfter(open, p, data) ==
    LET end == p + Len(data) IN
    IF data = << >> THEN IF Base(p) = open THEN open ELSE NoSector
    ELSE IF Base(end) = end THEN NoSector ELSE Base(end)

\* The sectors that start blank: only the one a packet begins in may be open
\* still, since a packet that gets to the open sector from another has left it.
Fresh(open, p, data) ==
    IF data = << >> THEN {}
    ELSE IF Base(p) = open THEN SectorsOf(p, data) \ {open}
    ELSE SectorsOf(p, data)

ImageAfter(image, open, p, data) ==
    [a \in Addr |->
        IF a \in Covered(p, data) THEN data[a - p + 1]
        ELSE IF Base(a) \in Fresh(open, p, data) THEN FF
        ELSE image[a]]

Matches(image, cells) == \A a \in Addr : image[a] # Unset => cells[a] = image[a]
=============================================================================

----------------------------- MODULE FlashLayout -----------------------------
(***************************************************************************)
(* The target's memory map as the programmer sees it: the sector table,    *)
(* the flash regions and the flash algorithms of a target_cfg_t            *)
(* (flash_iface.h), and the look-ups TargetFlash makes in it.              *)
(*                                                                         *)
(* Memory is a range of byte addresses that starts at 0.  A byte is FF     *)
(* (erased) or one of a few other values.                                  *)
(***************************************************************************)
EXTENDS Integers, Sequences

CONSTANTS
    MaxAddr,      \* the last address that is modelled
    Sectors,      \* cfg.sector_info: runs of equal sectors, by rising start
    Regions,      \* cfg.flash_regions
    EraseReset,   \* cfg.erase_reset
    Algos,        \* the flash algorithms
    NoAlgo,       \* a null program_target_t pointer
    PageSize,     \* program_buffer_size of every algorithm
    HasVerify,    \* whether an algorithm brings a verify function
    Covers,       \* the addresses an algorithm can erase and program
    VerifyChunk,  \* sizeof(_verify_buf)
    Byte, FF      \* the values of a byte, and the erased one

Addr == 0 .. MaxAddr
Sector == [start : Nat, size : Nat]
Region == [start : Addr, end : Nat, default : BOOLEAN, algo : Algos \cup {NoAlgo}]

ASSUME LayoutAssumption ==
    /\ MaxAddr \in Nat
    /\ Sectors \in Seq(Sector)
    /\ Regions \in Seq(Region)
    /\ EraseReset \in BOOLEAN
    /\ NoAlgo \notin Algos
    /\ PageSize \in [Algos -> Nat \ {0}]
    /\ HasVerify \in [Algos -> BOOLEAN]
    /\ Covers \in [Algos -> SUBSET Addr]
    /\ VerifyChunk \in Nat \ {0}
    /\ FF \in Byte

-----------------------------------------------------------------------------

\* value - value % boundary
ROUND_DOWN(value, boundary) == value - (value % boundary)

Smaller(m, n) == IF m <= n THEN m ELSE n

(***************************************************************************)
(* The table is scanned from its last entry to its first: the entry that   *)
(* counts is the last one that starts at or below addr.  An address below  *)
(* the first entry has no sector, and its size is 0.                       *)
(***************************************************************************)
IsLastRun(i, addr) ==
    /\ addr >= Sectors[i].start
    /\ \A j \in DOMAIN Sectors : j > i => addr < Sectors[j].start

flash_erase_sector_size(addr) ==
    IF \E i \in DOMAIN Sectors : addr >= Sectors[i].start
    THEN Sectors[CHOOSE i \in DOMAIN Sectors : IsLastRun(i, addr)].size
    ELSE 0

\* Index of the first region that contains addr, its end included as in the
\* code; 0 when there is none.
InRegion(i, addr) == Regions[i].start <= addr /\ addr <= Regions[i].end

RegionOf(addr) ==
    IF \E i \in DOMAIN Regions : InRegion(i, addr)
    THEN CHOOSE i \in DOMAIN Regions :
            InRegion(i, addr) /\ \A j \in 1 .. i - 1 : ~InRegion(j, addr)
    ELSE 0

\* Index of the first region flagged REIGION_DEFAULT; 0 when there is none.
FirstDefault ==
    IF \E i \in DOMAIN Regions : Regions[i].default
    THEN CHOOSE i \in DOMAIN Regions :
            Regions[i].default /\ \A j \in 1 .. i - 1 : ~Regions[j].default
    ELSE 0

\* The cells of the sector that starts at addr.
SectorCells(addr) == {x \in Addr : addr <= x /\ x < addr + flash_erase_sector_size(addr)}

(***************************************************************************)
(* A run starts on a multiple of the sector size of every run before it,   *)
(* and of its own: no sector begins inside another.  Nothing in the code   *)
(* checks this of a sector table; memory maps are like that, and the       *)
(* arithmetic of the accessor needs it.                                    *)
(***************************************************************************)
SectorsAligned ==
    \A i, j \in DOMAIN Sectors :
        /\ Sectors[i].size > 0
        /\ i <= j => Sectors[j].start % Sectors[i].size = 0

(***************************************************************************)
(* What is looked up at the start of a region is its own algorithm: since  *)
(* a region's end counts as part of it, a region that another one ends at  *)
(* comes before that one.  Nothing checks this of a region table either;   *)
(* flash_erase_chip needs it to find the algorithm of every region.        *)
(***************************************************************************)
RegionsFound ==
    \A i \in DOMAIN Regions : Regions[i].algo # NoAlgo =>
        /\ RegionOf(Regions[i].start) # 0
        /\ Regions[RegionOf(Regions[i].start)].algo = Regions[i].algo
=============================================================================

--------------------------- MODULE AlgorithmStore ---------------------------
(***************************************************************************)
(* Flash algorithms: taken out of ELF files (Algorithm::extract), merged   *)
(* into one file of records at build time (Algorithm::merge, the Tool),    *)
(* embedded in the program and looked up by the name of a device (find,    *)
(* list_device), as the commands of main.cpp do.                           *)
(*                                                                         *)
(* The merged file is a sequence of cells.  A header, an information, a    *)
(* name, a sector and a region take one cell each, an algorithm as many as *)
(* its size; a position in the file is the number of cells before it.      *)
(***************************************************************************)
EXTENDS Integers, Sequences, SequencesExt

CONSTANTS
  Elfs,          \* the algorithm files there are
  MaxFiles,      \* how many of them are merged
  OnDisk,        \* the files the user can name: <<name, algorithm file>>
  Names,         \* names the user asks for
  RamStart,      \* where RAM starts (0x20000000)
  HeaderSize,    \* _flash_bolb_header
  StackSize,     \* CONFIG_ALGORITHM_STACK_SIZE
  Align,         \* 0x100
  SectorNum,     \* entries of a table of sectors (512)
  TotalLimit     \* totals are counted modulo TotalLimit (2^16)

SectorEnd == <<-1, -1>>
NoName == ""
FunctionNames == {"Init", "UnInit", "EraseChip", "EraseSector", "ProgramPage", "Verify"}

ASSUME StoreAssumption ==
  /\ {RamStart, MaxFiles} \subseteq Nat
  /\ {HeaderSize, StackSize, Align, SectorNum, TotalLimit} \subseteq Nat \ {0}
  /\ \A e \in Elfs : /\ e.ok \in BOOLEAN /\ {e.code, e.page, e.base, e.size} \subseteq Nat
                     /\ e.sectors \in Seq(Int \X Int) /\ Len(e.sectors) = SectorNum
                     /\ DOMAIN e.symbols \subseteq FunctionNames
                     /\ \A f \in DOMAIN e.symbols : e.symbols[f] \in 0 .. e.code - 1
  /\ OnDisk \subseteq Names \X Elfs
  /\ \A f, g \in OnDisk : f[1] = g[1] => f = g

VARIABLES
  elfs,        \* the files given to the Tool
  merged,      \* how many of them are in the file
  merging,     \* "running", or what merge returned
  store,       \* the merged file, a sequence of cells
  op, name,    \* the operation on it, and the device it is about
  at,          \* where it is: "header", "contents", "returned", ...
  hdrPos, readPos, tlv,
  cfg, ret,    \* what find fills in and returns
  shown,       \* the names list_device has printed
  used         \* what the command gave to the programmer

build == <<elfs, merged, merging, store>>
walk == <<op, name, at, hdrPos, readPos, tlv, cfg, ret, shown, used>>
store_vars == <<build, walk>>

----------------------------------------------------------------------------
(* The configuration made of an ELF file.                                  *)

RoundedUp(n) == ((n + Align - 1) \div Align) * Align

\* The entries of the table before the first end mark.
Before(table) ==
  LET end == SelectInSeq(table, LAMBDA s : s = SectorEnd) IN
  IF end = 0 THEN table ELSE SubSeq(table, 1, end - 1)

Entry(e, f) == IF f \in DOMAIN e.symbols THEN e.symbols[f] + HeaderSize + RamStart ELSE 0

AlgoSize(e) == HeaderSize + e.code

AlgorithmOf(e) ==
  LET size == AlgoSize(e)
      sp == RoundedUp(RamStart + size) + StackSize IN
  [size |-> size, blob |-> TRUE, start |-> RamStart,
   staticBase |-> RamStart + e.code + HeaderSize, breakpoint |-> RamStart + 1,
   stackPointer |-> sp, buffer |-> sp, bufferSize |-> e.page,
   functions |-> [f \in FunctionNames |-> Entry(e, f)]]

\* A region without algorithm is written, and read back, with one of zeros.
NoAlgorithm ==
  [size |-> 0, blob |-> FALSE, start |-> 0, staticBase |-> 0, breakpoint |-> 0,
   stackPointer |-> 0, buffer |-> 0, bufferSize |-> 0,
   functions |-> [f \in FunctionNames |-> 0]]

\* extract: sections or symbols that cannot be read make it fail, e.ok.
Extract(e) ==
  LET a == AlgorithmOf(e) IN
  [name |-> e.name,
   sectors |-> [i \in DOMAIN Before(e.sectors) |->
                  <<e.base + e.sectors[i][1], e.sectors[i][2]>>],
   flash |-> <<[start |-> e.base, end |-> e.base + e.size, default |-> TRUE, algo |-> a]>>,
   ram |-> <<[start |-> RamStart, end |-> a.buffer + a.bufferSize, default |-> FALSE,
              algo |-> NoAlgorithm]>>]

NoConfig == [name |-> NoName, sectors |-> <<>>, flash |-> <<>>, ram |-> <<>>]

----------------------------------------------------------------------------
(* The records of the merged file.                                         *)

Tlv(magic, total) == [is |-> "tlv", magic |-> magic, total |-> total % TotalLimit]
Cell(what, value) == [is |-> what, value |-> value]

RegionCells(r, magic) ==
  <<Tlv(magic, 1 + r.algo.size), Cell("region", r)>>
    \o [i \in 1 .. r.algo.size |-> Cell("blob", i)]

SectorCells(sectors) ==
  [i \in 1 .. 2 * Len(sectors) |->
     IF i % 2 = 1 THEN Tlv("SECTOR_INFO", 1) ELSE Cell("sector", sectors[i \div 2])]

CountedLength(regions) ==
  LET upto[n \in 0 .. Len(regions)] ==
        IF n = 0 THEN 0 ELSE upto[n - 1] + 2 + regions[n].algo.size
  IN  upto[Len(regions)]

Total_NoRam(c) == 4 + 2 * Len(c.sectors) + CountedLength(c.flash)
\* The length of a record, as algorithm_info_write counts it.
Total(c) == 4 + 2 * Len(c.sectors) + CountedLength(c.flash) + CountedLength(c.ram)

\* algorithm_info_write, then append's sectors and regions.
Record(c) ==
  <<Tlv("ALGO_HDR", Total(c)), Tlv("ALGO_INFO", 2), Cell("info", c.name), Cell("name", c.name)>>
    \o SectorCells(c.sectors)
    \o FlattenSeq([i \in DOMAIN c.flash |-> RegionCells(c.flash[i], "FLASH_REGION")])
    \o FlattenSeq([i \in DOMAIN c.ram |-> RegionCells(c.ram[i], "RAM_REGION")])

----------------------------------------------------------------------------
StoreInit ==
  /\ elfs \in SeqOf(Elfs, MaxFiles) /\ merged = 0 /\ merging = "running" /\ store = <<>>
  /\ op = "none" /\ name = NoName /\ at = "returned" /\ hdrPos = 0 /\ readPos = 0
  /\ tlv = Tlv("ALGO_HDR", 0) /\ cfg = NoConfig /\ ret = FALSE /\ shown = <<>>
  /\ used = NoConfig

\* One turn of the loop of merge; it ends at the first file that fails, and
\* leaves what it has written: the Tool does not look at what merge returns.
Merge ==
  /\ merging = "running"
  /\ IF merged = Len(elfs) THEN merging' = "true" /\ UNCHANGED <<merged, store>>
     ELSE LET e == elfs[merged + 1] IN
          IF e.ok
            THEN /\ store' = store \o Record(Extract(e)) /\ merged' = merged + 1
                 /\ UNCHANGED merging
            ELSE merging' = "false" /\ UNCHANGED <<merged, store>>
  /\ UNCHANGED <<elfs, walk>>

\* The operations: "file" is find in a merged file, "flash" the command (find
\* in the embedded array), "list" the command list_algo.
Begin(o, n) ==
  /\ merging # "running" /\ at = "returned" /\ op = "none"
  /\ op' = o /\ name' = n /\ at' = "header" /\ hdrPos' = 0 /\ readPos' = 0
  /\ tlv' = Tlv("ALGO_HDR", 0) /\ cfg' = NoConfig /\ ret' = FALSE /\ shown' = <<>>
  /\ used' = NoConfig /\ UNCHANGED build

Call == Begin("list", NoName) \/ \E n \in Names : Begin("file", n) \/ Begin("flash", n)

FilesNamed == {e \in Elfs : <<name, e>> \in OnDisk}

\* The end of the walk over the headers, and what main does with its result:
\* the embedded algorithm, else the file of that name, else the list.
Ends ==
  IF op # "flash" \/ ret
    THEN at' = "returned" /\ used' = (IF op = "flash" THEN cfg ELSE used) /\ UNCHANGED op
  ELSE IF FilesNamed # {}
    THEN /\ \E e \in FilesNamed : used' = IF e.ok THEN Extract(e) ELSE used
         /\ at' = "returned" /\ UNCHANGED op
  ELSE op' = "list" /\ at' = "restart" /\ UNCHANGED used

\* An unknown device: the list of the known ones.
Restart ==
  /\ at = "restart" /\ at' = "header" /\ hdrPos' = 0 /\ readPos' = 0
  /\ tlv' = Tlv("ALGO_HDR", 0)
  /\ UNCHANGED <<build, op, name, cfg, ret, shown, used>>

Matches_Kept(c) == [c EXCEPT !.name = name]

\* A device of that name: what was found before it is dropped.
Matches(c) == [c EXCEPT !.name = name, !.sectors = <<>>, !.flash = <<>>, !.ram = <<>>]

Passed_WhenFound(total, next) == IF op = "list" \/ next = "contents" THEN hdrPos + total ELSE hdrPos
Passed(total, next) == hdrPos + total

\* One turn of the outer loop.  In the array the loop ends at its length, in
\* a file at its end.  Where no header is, the loop does not get on.
Header ==
  /\ at = "header"
  /\ IF hdrPos >= Len(store)
       THEN Ends /\ UNCHANGED <<hdrPos, readPos, tlv, cfg, ret, shown>>
       ELSE LET cell == store[hdrPos + 1] IN
         IF cell.is # "tlv"
           THEN at' = "garbage" /\ UNCHANGED <<op, hdrPos, readPos, tlv, cfg, ret, shown, used>>
         ELSE IF cell.magic # "ALGO_HDR"
           THEN /\ readPos' = hdrPos /\ tlv' = cell
                /\ UNCHANGED <<op, at, hdrPos, cfg, ret, shown, used>>
         ELSE LET device == store[hdrPos + 4].value
                  found == op # "list" /\ device = name IN
              /\ tlv' = store[hdrPos + 2]
              /\ at' = IF found THEN "contents" ELSE "header"
              /\ hdrPos' = Passed(cell.total, at')
              /\ readPos' = IF found THEN hdrPos + 4 ELSE hdrPos'
              /\ ret' = IF found THEN TRUE ELSE ret
              /\ cfg' = IF found THEN Matches(cfg) ELSE cfg
              /\ shown' = IF op = "list" THEN Append(shown, device) ELSE shown
              /\ UNCHANGED <<op, used>>
  /\ UNCHANGED <<build, name>>

\* One turn of the inner loop, inside the file: it stops at the header of the
\* next record.
Contents ==
  /\ at = "contents" /\ readPos < Len(store)
  /\ LET cell == store[readPos + 1] IN
     /\ tlv' = cell
     /\ IF cell.magic = "ALGO_HDR"
          THEN at' = "header" /\ readPos' = hdrPos /\ UNCHANGED cfg
          ELSE LET value == store[readPos + 2].value IN
               /\ cfg' = CASE cell.magic = "SECTOR_INFO" -> [cfg EXCEPT !.sectors = Append(@, value)]
                           [] cell.magic = "FLASH_REGION" -> [cfg EXCEPT !.flash = Append(@, value)]
                           [] cell.magic = "RAM_REGION" -> [cfg EXCEPT !.ram = Append(@, value)]
               /\ readPos' = readPos + 2
                    + (IF cell.magic = "SECTOR_INFO" THEN 0 ELSE value.algo.size)
               /\ UNCHANGED at
  /\ UNCHANGED <<build, op, name, hdrPos, ret, shown, used>>

\* The inner loop after the last record.  In a file every read fails, tlv keeps
\* its region, and the loop adds regions for ever.  The array is read beyond
\* its end: zeros there are a header; of anything else the model says no more.
Beyond ==
  /\ at = "contents" /\ readPos >= Len(store)
  /\ IF op = "file"
       THEN tlv.magic # "ALGO_HDR" /\ at' = "endless" /\ UNCHANGED <<readPos, tlv>>
     ELSE \/ at' = "header" /\ readPos' = hdrPos /\ tlv' = Tlv("ALGO_HDR", 0)
          \/ at' = "garbage" /\ UNCHANGED <<readPos, tlv>>
  /\ UNCHANGED <<build, op, name, hdrPos, cfg, ret, shown, used>>

Turn == Header \/ Contents \/ Beyond \/ Restart

StoreNext == Merge \/ Call \/ Turn

StoreSpec == StoreInit /\ [][StoreNext]_store_vars

\* The Tool and the walks are sequential programs that keep running.
FairStoreSpec == StoreSpec /\ WF_store_vars(Merge) /\ WF_store_vars(Turn)

----------------------------------------------------------------------------
(* Properties.                                                             *)

\* Types of the state; hdrPos and the totals stay in their width.
StoreTypeOK ==
  /\ merged \in 0 .. Len(elfs) /\ merging \in {"running", "true", "false"}
  /\ \A i \in DOMAIN store : store[i].is = "tlv" => store[i].total \in 0 .. TotalLimit - 1
  /\ op \in {"none", "list", "file", "flash"}
  /\ at \in {"header", "contents", "restart", "returned", "garbage", "endless"}
  /\ hdrPos \in Nat /\ readPos \in Nat /\ ret \in BOOLEAN /\ shown \in Seq({e.name : e \in Elfs})

\* The files that are in the store: those before the first that is no good.
Stored == SelectInSeq(elfs, LAMBDA e : ~e.ok)
InStore == IF Stored = 0 THEN elfs ELSE SubSeq(elfs, 1, Stored - 1)

Length(e) == Len(Record(Extract(e)))
Starts ==
  {Len(store)} \union
  {p \in 0 .. Len(store) - 1 : store[p + 1].is = "tlv" /\ store[p + 1].magic = "ALGO_HDR"}

\* Every total fits its 16 bits.
Fits == \A i \in DOMAIN InStore : Length(InStore[i]) < TotalLimit

Known == {i \in DOMAIN InStore : InStore[i].name = name}
IsLastKnown(c) == \E i \in Known : (\A j \in Known : j <= i) /\ c = Extract(InStore[i])
IsLast == InStore # <<>> /\ Last(InStore).name = name

\* The totals lead from one record to the next: while they fit, the walks see
\* the headers of the records only, and take nothing else for one but what
\* follows the array.
StaysOnRecords ==
  Fits /\ merging # "running" =>
    /\ hdrPos \in Starts
    /\ at = "garbage" => op = "flash" /\ IsLast

\* What was merged is found again: by its name, whole, the last one of that
\* name; and a name that was not merged is not found.
FindsExtracted ==
  at = "returned" /\ op \in {"file", "flash"} /\ Fits =>
    /\ ret = (Known # {})
    /\ ret => IsLastKnown(cfg)

\* The list shows every device that was merged, in its order, also when it is
\* shown because a device is unknown.
ListsAll ==
  at = "returned" /\ op = "list" /\ Fits =>
    shown = [i \in DOMAIN InStore |-> InStore[i].name]

\* The command programs with the embedded algorithm of that name, else with
\* the file of that name, else not at all.
UsesTheRight ==
  at = "returned" /\ Fits /\ name # NoName /\ op # "file" =>
    LET files == {e \in Elfs : <<name, e>> \in OnDisk /\ e.ok} IN
    IF Known # {} THEN IsLastKnown(used)
    ELSE IF files = {} THEN used = NoConfig
    ELSE used \in {Extract(e) : e \in files}

\* Code, stack and buffer of every algorithm are apart, in this order, inside
\* the region of RAM; its functions are in the code.  Its data reach into the
\* stack unless they fit the rest of the last block of the code.
Layout ==
  \A i \in 1 .. merged :
    LET e == elfs[i]  c == Extract(e)  a == c.flash[1].algo IN
    /\ a.start + HeaderSize + e.code <= a.stackPointer - StackSize
    /\ a.stackPointer <= a.buffer /\ a.buffer + e.page <= c.ram[1].end
    /\ \A f \in FunctionNames : a.functions[f] = 0 \/ a.functions[f] \in a.start + HeaderSize .. a.start + a.size - 1

\* What the three operations on the merged file answer.
WalksAnswer == FindsExtracted /\ ListsAll /\ UsesTheRight

\* The invariant of the store: types, records that lead from one to the next,
\* and algorithms whose code, stack and buffer are apart.
StoreInv == StoreTypeOK /\ StaysOnRecords /\ Layout

\* A walk ends, whatever it finds, but find in a file for the device that was
\* merged last, and where a total did not fit.
WalkEnds ==
  Fits /\ op # "none" /\ ~(op = "file" /\ IsLast) ~> at \in {"returned", "garbage"}
=============================================================================

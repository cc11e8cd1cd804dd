----------------------------- MODULE FlashDirect -----------------------------
(***************************************************************************)
(* The flash primitives used directly, as FlashIface offers them: a user   *)
(* opens the target, sets algorithms, erases and programs in any order,    *)
(* erases the chip and closes the target.  After an error it only opens or *)
(* closes again, which is what FlashAccessor's ERROR state is there for.   *)
(***************************************************************************)
EXTENDS TargetFlash

CONSTANTS Pieces,       \* what is programmed: [addr, data]
          Contents      \* the flash contents a target may come with

ASSUME DirectAssumption ==
    /\ Pieces \subseteq [addr : Nat, data : Seq(Byte)]
    /\ Contents \subseteq [Addr -> Byte]

VARIABLES usable,       \* the target is open and nothing has failed since
          call          \* the call that runs or ran last: [op, addr, data]

direct_vars == <<tf_vars, usable, call>>

NoCall == [op |-> "none", addr |-> 0, data |-> << >>]

DirectInit == McuInit(Contents) /\ DeviceInit /\ usable = FALSE /\ call = NoCall

Calls(op, a, d) ==
    /\ at = "idle"
    /\ StartCall(op, a, d)
    /\ call' = [op |-> op, addr |-> a, data |-> d]

OpenTarget == Calls("init", 0, << >>) /\ usable' = FALSE

CloseTarget == flash_cfg /\ Calls("uninit", 0, << >>) /\ usable' = FALSE

SetAlgo(a) == usable /\ Calls("algo_set", a, << >>) /\ UNCHANGED usable

\* The address lies in a sector: flash_erase_sector divides by its size.
EraseAt(a) ==
    /\ usable /\ flash_erase_sector_size(a) # 0
    /\ Calls("erase", a, << >>)
    /\ UNCHANGED usable

ProgramAt(a, d) == usable /\ Calls("program", a, d) /\ UNCHANGED usable

EraseAll == usable /\ Calls("chip", 0, << >>) /\ UNCHANGED usable

\* The user looks at what a call returned.
Returned ==
    /\ at = "idle" /\ call # NoCall
    /\ usable' = ((call.op = "init" \/ usable) /\ result = "NONE")
    /\ call' = NoCall
    /\ UNCHANGED tf_vars

DirectDevice == TFStep /\ UNCHANGED <<usable, call>>

DirectUser ==
    \/ OpenTarget \/ CloseTarget \/ EraseAll
    \/ \E a \in Addr : SetAlgo(a) \/ EraseAt(a)
    \/ \E k \in Pieces : ProgramAt(k.addr, k.data)

DirectNext == (call = NoCall /\ DirectUser) \/ Returned \/ DirectDevice

\* A call that was started goes on, and its caller looks at the result.
DirectSpec == DirectInit /\ [][DirectNext]_direct_vars /\ WF_direct_vars(Returned \/ DirectDevice)

-----------------------------------------------------------------------------
DirectTypeOK ==
    /\ TFTypeOK
    /\ usable \in BOOLEAN
    /\ call \in [op : At \cup {"none"}, addr : Nat, data : Seq(Byte)]

Succeeded(op) == at = "idle" /\ call.op = op /\ result = "NONE"

(***************************************************************************)
(* flash_program_page reports success only when the flash holds the data,  *)
(* also over cells that were not erased and over several pages: every page *)
(* is verified, by the algorithm or by reading it back piece by piece.     *)
(***************************************************************************)
ProgramIsVerified == Succeeded("program") => Holds(call.addr, call.data)

(***************************************************************************)
(* A sector or chip erase that reports success has erased what it names:   *)
(* the sector, or what the algorithms of all regions cover.                *)
(***************************************************************************)
EraseIsComplete ==
    /\ Succeeded("erase") => \A a \in SectorCells(call.addr) : flash[a] = FF
    /\ Succeeded("chip") =>
         \A i \in DOMAIN Regions : Regions[i].algo # NoAlgo =>
            \A a \in Covers[Regions[i].algo] : flash[a] = FF

(***************************************************************************)
(* When a call has returned, the accessor's idea of the algorithm is the   *)
(* target's: an algorithm that is current is still in RAM, and a function  *)
(* that is still open has its Init done.  Holds while nothing has failed.  *)
(***************************************************************************)
InStep ==
    usable /\ at = "idle" /\ result = "NONE" =>
        /\ core = "halted"
        /\ resident = current_algo
        /\ last_func # "NOP" <=> prepared # NoAlgo
        /\ flash_cfg /\ tf_state = "OPEN"

\* Every primitive returns.
PrimitivesReturn == at # "idle" ~> at = "idle"
=============================================================================

----------------------------- MODULE FlashProofs -----------------------------
(***************************************************************************)
(* What holds of the flash primitives and of the flash accessor, for every *)
(* memory map, every packet and every failure.  The first part says of the *)
(* steps of the primitives what does not depend on who calls them, and     *)
(* what any use of them keeps (FlashDirect); the second part is about the  *)
(* accessor, their caller.                                                 *)
(***************************************************************************)
EXTENDS FlashAccessor, FlashDirect, FlashLayoutProofs

(***************************************************************************)
(* The types are not inductive by themselves: the page loop reads the page *)
(* size of the current algorithm, and the chip loop a region.              *)
(***************************************************************************)
Loops ==
    /\ at \in {"page", "program_exec", "verify"} => current_algo # NoAlgo
    /\ at \in {"chip", "chip_algo", "chip_download", "chip_start", "chip_exec"} => region >= 1

TFInv == TFTypeOK /\ Loops

\* Every entry of the region table is a region.
LEMMA RegionFields ==
    ASSUME NEW i \in DOMAIN Regions
    PROVE  /\ Regions[i].start \in Addr
           /\ Regions[i].algo \in Algos \cup {NoAlgo}
           /\ i \in Nat
<1>1. Regions[i] \in Region /\ DOMAIN Regions = 1 .. Len(Regions)
  BY LayoutAssumption
<1> QED BY <1>1 DEF Region

LEMMA AddrNat == Addr \subseteq Nat /\ 0 \in Addr
BY LayoutAssumption DEF Addr

\* get_flash_algo gives an algorithm of the table or none.
LEMMA GetAlgoType ==
    ASSUME NEW a \in Nat, default_region \in {0} \cup DOMAIN Regions
    PROVE  /\ get_flash_algo(a) \in Algos \cup {NoAlgo}
           /\ AlgoRegion(a) # 0 => Regions[AlgoRegion(a)].start \in Addr
<1>1. AlgoRegion(a) \in {0} \cup DOMAIN Regions
  BY RegionOfType DEF AlgoRegion
<1> QED
  BY <1>1, RegionFields DEF get_flash_algo

\* NoteStart keeps the type of its variable.
LEMMA NoteStartType ==
    ASSUME NEW a \in Nat, DeviceTypeOK, NoteStart(a)
    PROVE  flash_start' \in Addr
BY GetAlgoType DEF NoteStart, DeviceTypeOK

LEMMA SubSeqType ==
    ASSUME NEW s \in Seq(Byte), NEW m \in Nat \ {0}, NEW n \in Nat, n <= Len(s)
    PROVE  SubSeq(s, m, n) \in Seq(Byte)
<1>1. Len(s) \in Nat
  OBVIOUS
<1>2. \A i \in m .. n : s[i] \in Byte
  BY <1>1
<1> QED
  BY <1>1, <1>2
-----------------------------------------------------------------------------
\* A flash some of whose cells have changed is still a flash.
LEMMA MixedType ==
    ASSUME NEW old \in [Addr -> Byte], NEW span, NEW new,
           \A x \in Addr : new[x] \in Byte,
           NEW f \in Mixed(old, new, span)
    PROVE  f \in [Addr -> Byte]
BY DEF Mixed

LEMMA ProgrammedType ==
    ASSUME McuTypeOK, NEW a \in Nat, NEW junk \in Byte
    PROVE  Programmed(a, junk) \in [Addr -> Byte]
<1>1. ASSUME NEW x \in Addr, x \in Span(a, Len(buffer))
      PROVE  buffer[x - a + 1] \in Byte
  <2>1. x \in Nat /\ Len(buffer) \in Nat /\ buffer \in Seq(Byte)
    BY AddrNat DEF McuTypeOK
  <2>2. x - a + 1 \in 1 .. Len(buffer)
    BY <1>1, <2>1 DEF Span
  <2> QED BY <2>1, <2>2
<1>2. \A x \in Addr : flash[x] \in Byte
  BY DEF McuTypeOK
<1>3. FF \in Byte
  BY LayoutAssumption
<1> QED
  BY <1>1, <1>2, <1>3 DEF Programmed

\* Every exchange keeps the types of the target.
LEMMA ExchangeType ==
    ASSUME McuTypeOK
    PROVE  /\ \A s \in {"running", "halted"} : ResetTo(s) => McuTypeOK'
           /\ ResetFails => McuTypeOK'
           /\ \A a \in Algos \cup {NoAlgo} : Download(a) => McuTypeOK'
           /\ DownloadFails => McuTypeOK'
           /\ \A a \in Algos \cup {NoAlgo} :
                (CallInit(a) \/ CallUnInit(a) \/ CallInitFails \/ CallUnInitFails) => McuTypeOK'
           /\ \A d \in Seq(Byte) : Load(d) => McuTypeOK'
           /\ LoadFails => McuTypeOK'
           /\ CallVerifyFails => McuTypeOK'
<1> USE DEF McuTypeOK
<1>1. \A s \in {"running", "halted"} : ResetTo(s) => McuTypeOK'
  BY DEF ResetTo
<1>2. ResetFails => McuTypeOK'
  BY DEF ResetFails
<1>3. \A a \in Algos \cup {NoAlgo} : Download(a) => McuTypeOK'
  BY DEF Download
<1>4. DownloadFails => McuTypeOK'
  BY DEF DownloadFails
<1>5. \A a \in Algos \cup {NoAlgo} : CallInit(a) => McuTypeOK'
  BY DEF CallInit
<1>6. \A a \in Algos \cup {NoAlgo} : CallUnInit(a) => McuTypeOK'
  BY DEF CallUnInit
<1>7. CallInitFails => McuTypeOK'
  BY DEF CallInitFails
<1>8. CallUnInitFails => McuTypeOK'
  BY DEF CallUnInitFails
<1>9. \A d \in Seq(Byte) : Load(d) => McuTypeOK'
  BY DEF Load
<1>10. LoadFails => McuTypeOK'
  BY DEF LoadFails
<1>11. CallVerifyFails => McuTypeOK'
  BY DEF CallVerifyFails
<1> QED
  BY <1>1, <1>2, <1>3, <1>4, <1>5, <1>6, <1>7, <1>8, <1>9, <1>10, <1>11, Zenon

LEMMA EraseType ==
    ASSUME McuTypeOK, NEW a, NEW span, CallErase(a, span) \/ CallEraseFails(span)
    PROVE  McuTypeOK'
<1>1. FF \in Byte
  BY LayoutAssumption
<1>2. \A x \in Addr : Erased[x] \in Byte
  BY <1>1 DEF Erased
<1>3. CASE CallErase(a, span)
  BY <1>1, <1>3 DEF CallErase, McuTypeOK
<1>4. CASE CallEraseFails(span)
  <2>1. flash' \in [Addr -> Byte]
    BY <1>2, <1>4, MixedType DEF CallEraseFails, McuTypeOK
  <2> QED BY <1>4, <2>1 DEF CallEraseFails, McuTypeOK
<1> QED BY <1>3, <1>4

LEMMA ProgramType ==
    ASSUME McuTypeOK, NEW a, NEW n \in Nat, CallProgram(a, n) \/ CallProgramFails(n)
    PROVE  McuTypeOK'
<1>1. flash' \in [Addr -> Byte]
  <2>1. CASE CallProgram(a, n)
    BY <2>1, ProgrammedType DEF CallProgram
  <2>2. CASE CallProgramFails(n)
    <3>1. PICK junk \in Byte :
            flash' \in Mixed(flash, Programmed(n, junk), Span(n, Len(buffer)))
      BY <2>2 DEF CallProgramFails
    <3>2. \A x \in Addr : Programmed(n, junk)[x] \in Byte
      BY ProgrammedType
    <3> QED BY <3>1, <3>2, MixedType DEF McuTypeOK
  <2> QED BY <2>1, <2>2
<1> QED
  BY <1>1 DEF CallProgram, CallProgramFails, McuTypeOK
-----------------------------------------------------------------------------
LEMMA FuncStartType ==
    ASSUME McuTypeOK, DeviceTypeOK, NEW func \in Func, FuncStartOk(func) \/ FuncStartFails(func)
    PROVE  McuTypeOK' /\ last_func' \in Func
<1>1. current_algo \in Algos \cup {NoAlgo} /\ last_func \in Func
  BY DEF DeviceTypeOK
<1>2. McuTypeOK'
  <2>1. CASE UNCHANGED mcu  BY <2>1 DEF McuTypeOK, mcu
  <2>2. CASE CallUnInit(current_algo) \/ CallInit(current_algo) \/ CallUnInitFails \/ CallInitFails
    BY <2>2, <1>1, ExchangeType
  <2> QED BY <2>1, <2>2 DEF FuncStartOk, FuncStartFails
<1> QED BY <1>1, <1>2 DEF FuncStartOk, FuncStartFails

\* The frame of a call that has returned, and of one that goes on.
LEMMA ReturnType ==
    ASSUME NEW err \in Err, Return(err)
    PROVE  FrameTypeOK' /\ at' = "idle"
BY DEF Return, FrameTypeOK, At

LEMMA GotoType ==
    ASSUME FrameTypeOK, NEW next \in At, Goto(next)
    PROVE  FrameTypeOK' /\ at' = next /\ region' = region
BY DEF Goto, FrameTypeOK

\* flash_func_start keeps the types wherever the call goes on.
LEMMA FuncStartKeeps ==
    ASSUME TFTypeOK, NEW func \in Func, NEW next \in At, FuncStart(func, next)
    PROVE  /\ TFTypeOK'
           /\ at' = "idle" \/ (at' = next /\ region' = region)
           /\ current_algo' = current_algo
<1>1. FuncStartOk(func) \/ FuncStartFails(func)
  BY DEF FuncStart, GotoOr
<1>2. McuTypeOK' /\ last_func' \in Func
  BY <1>1, FuncStartType DEF TFTypeOK
<1>3. DeviceTypeOK'
  BY <1>2 DEF FuncStart, DeviceTypeOK, TFTypeOK
<1>4. CASE Goto(next)
  BY <1>2, <1>3, <1>4, GotoType DEF TFTypeOK, FuncStart
<1>5. CASE Return(FuncStartErr(func))
  <2>1. FuncStartErr(func) \in Err  BY DEF FuncStartErr, Err
  <2> QED BY <1>2, <1>3, <1>5, <2>1, ReturnType DEF TFTypeOK, FuncStart
<1> QED
  BY <1>4, <1>5 DEF FuncStart, GotoOr

\* flash_algo_set and its download, called by itself or from the chip loop.
LEMMA AlgoSetKeeps ==
    ASSUME TFTypeOK, NEW from, NEW next \in At, NEW dl \in At, AlgoSet(from, next, dl)
    PROVE  /\ TFTypeOK'
           /\ at' = "idle" \/ (at' \in {next, dl} /\ region' = region)
           /\ current_algo' = current_algo
<1> DEFINE new == get_flash_algo(addr)
<1>1. flash_start' \in Addr /\ addr \in Nat
  BY NoteStartType DEF AlgoSet, TFTypeOK, FrameTypeOK
<1>2. /\ flash_cfg' = flash_cfg /\ current_algo' = current_algo /\ tf_state' = tf_state
      /\ default_region' = default_region
  BY DEF AlgoSet
<1>3. CASE new = NoAlgo
  <2>1. Return("ALGO_MISSING") /\ UNCHANGED <<mcu, last_func>>  BY <1>3 DEF AlgoSet
  <2>2. FrameTypeOK' /\ at' = "idle"  BY <2>1, ReturnType DEF Err
  <2> QED BY <1>1, <1>2, <2>1, <2>2 DEF TFTypeOK, DeviceTypeOK, McuTypeOK, mcu
<1>4. CASE new # NoAlgo /\ new = current_algo
  <2>1. UNCHANGED <<mcu, last_func>> /\ (Return("NONE") \/ Goto(next))
    BY <1>4 DEF AlgoSet
  <2>2. FrameTypeOK' /\ (at' = "idle" \/ (at' = next /\ region' = region))
    BY <2>1, ReturnType, GotoType DEF Err, TFTypeOK
  <2> QED BY <1>1, <1>2, <2>1, <2>2 DEF TFTypeOK, DeviceTypeOK, McuTypeOK, mcu
<1>5. CASE new # NoAlgo /\ new # current_algo
  <2>1. GotoOr(FuncStartOk("NOP"), dl, FuncStartFails("NOP"), "UNINIT")
    BY <1>5 DEF AlgoSet
  <2>2. McuTypeOK' /\ last_func' \in Func
    BY <2>1, FuncStartType DEF GotoOr, TFTypeOK, Func
  <2>3. FrameTypeOK' /\ (at' = "idle" \/ (at' = dl /\ region' = region))
    BY <2>1, ReturnType, GotoType DEF GotoOr, Err, TFTypeOK
  <2> QED BY <1>1, <1>2, <2>2, <2>3 DEF TFTypeOK, DeviceTypeOK
<1> QED
  BY <1>3, <1>4, <1>5

LEMMA AlgoDownloadKeeps ==
    ASSUME TFTypeOK, NEW from, NEW next \in At, AlgoDownload(from, next)
    PROVE  /\ TFTypeOK'
           /\ at' = "idle" \/ (at' = next /\ region' = region)
<1>1. get_flash_algo(addr) \in Algos \cup {NoAlgo}
  BY GetAlgoType DEF TFTypeOK, FrameTypeOK, DeviceTypeOK
<1>2. McuTypeOK' /\ current_algo' \in Algos \cup {NoAlgo}
  BY <1>1, ExchangeType DEF AlgoDownload, TFTypeOK, DeviceTypeOK
<1>3. DeviceTypeOK'
  BY <1>2 DEF AlgoDownload, TFTypeOK, DeviceTypeOK
<1>4. FrameTypeOK' /\ (at' = "idle" \/ (at' = next /\ region' = region))
  <2>1. Return("NONE") \/ Return("ALGO_DL") \/ Goto(next)  BY DEF AlgoDownload
  <2> QED BY <2>1, ReturnType, GotoType DEF Err, TFTypeOK
<1> QED
  BY <1>2, <1>3, <1>4 DEF TFTypeOK

\* One round of a verify loop keeps the frame's types.
LEMMA AdvanceType ==
    ASSUME FrameTypeOK, NEW n \in Nat, n <= unverified, Advance(n)
    PROVE  FrameTypeOK' /\ at' \in {"page", "verify"} /\ region' = region
<1>1. SubSeq(buf, n + 1, Len(buf)) \in Seq(Byte)
  BY SubSeqType DEF FrameTypeOK
<1> QED
  BY <1>1 DEF Advance, FrameTypeOK, At

\* A call that starts finds the frame in order.
LEMMA StartCallKeeps ==
    ASSUME TFInv, NEW op \in {"init", "uninit", "algo_set", "erase", "program", "chip"},
           NEW a \in Nat, NEW d \in Seq(Byte), StartCall(op, a, d)
    PROVE  TFInv'
<1>1. McuTypeOK' /\ DeviceTypeOK'
  BY DEF StartCall, mcu, device, TFInv, TFTypeOK, McuTypeOK, DeviceTypeOK
<1>2. FrameTypeOK'
  BY DEF StartCall, TFInv, TFTypeOK, FrameTypeOK, At
<1>3. Loops'
  BY DEF StartCall, Loops
<1> QED
  BY <1>1, <1>2, <1>3 DEF TFInv, TFTypeOK

(***************************************************************************)
(* Every step of a flash primitive keeps the types of the target, of the   *)
(* device and of the frame of the call.                                    *)
(***************************************************************************)
LEMMA TFStepKeepsTypes ==
    ASSUME TFInv, TFStep
    PROVE  TFInv'
<1>0. TFTypeOK /\ McuTypeOK /\ DeviceTypeOK /\ FrameTypeOK /\ Loops
  BY DEF TFInv, TFTypeOK
<1>1. CASE FlashInit
  <2>1. McuTypeOK'
    BY <1>0, <1>1, ExchangeType DEF FlashInit
  <2>2. FrameTypeOK' /\ at' = "idle"
    BY <1>1, ReturnType DEF FlashInit, Err
  <2>3. DeviceTypeOK'
    BY <1>0, <1>1, FirstDefaultType DEF FlashInit, DeviceTypeOK, Func
  <2> QED BY <2>1, <2>2, <2>3 DEF TFInv, TFTypeOK, Loops
<1>2. CASE FlashUninit
  <2>1. CASE flash_cfg
    BY <1>0, <1>2, <2>1, FuncStartKeeps DEF FlashUninit, TFInv, Loops, Func, At
  <2>2. CASE ~flash_cfg
    <3>1. Return("FAILURE") /\ UNCHANGED <<mcu, device>>
      BY <1>2, <2>2 DEF FlashUninit
    <3>2. FrameTypeOK' /\ at' = "idle"
      BY <3>1, ReturnType DEF Err
    <3> QED
      BY <1>0, <3>1, <3>2 DEF TFInv, TFTypeOK, Loops, mcu, device, McuTypeOK, DeviceTypeOK
  <2> QED BY <2>1, <2>2
<1>3. CASE FlashResume
  <2>1. McuTypeOK'
    BY <1>0, <1>3, ExchangeType DEF FlashResume
  <2>2. FrameTypeOK' /\ at' = "idle"
    BY <1>3, ReturnType DEF FlashResume, Err
  <2>3. DeviceTypeOK'
    BY <1>0, <1>3 DEF FlashResume, DeviceTypeOK
  <2> QED BY <2>1, <2>2, <2>3 DEF TFInv, TFTypeOK, Loops
<1>4. CASE FlashAlgoSet
  <2>1. CASE AlgoSet("algo_set", "idle", "download")
    BY <1>0, <2>1, AlgoSetKeeps DEF TFInv, Loops, At
  <2>2. CASE AlgoDownload("download", "idle")
    BY <1>0, <2>2, AlgoDownloadKeeps DEF TFInv, Loops, At
  <2> QED BY <1>4, <2>1, <2>2 DEF FlashAlgoSet
<1>5. CASE FlashErase
  <2>1. CASE FuncStart("ERASE", "erase_exec")
    BY <1>0, <2>1, FuncStartKeeps DEF TFInv, Loops, Func, At
  <2>2. CASE ~FuncStart("ERASE", "erase_exec")
    <3>1. UNCHANGED <<mcu, device>> /\ \E e \in Err : Return(e)
      BY <1>5, <2>2 DEF FlashErase, Err
    <3>2. FrameTypeOK' /\ at' = "idle"
      BY <3>1, ReturnType
    <3> QED
      BY <1>0, <3>1, <3>2 DEF TFInv, TFTypeOK, Loops, mcu, device, McuTypeOK, DeviceTypeOK
  <2> QED BY <2>1, <2>2
<1>6. CASE FlashEraseExec
  <2>1. McuTypeOK'
    BY <1>0, <1>6, EraseType DEF FlashEraseExec
  <2>2. FrameTypeOK' /\ at' = "idle"
    BY <1>6, ReturnType DEF FlashEraseExec, Err
  <2>3. DeviceTypeOK'
    BY <1>0, <1>6 DEF FlashEraseExec, device, DeviceTypeOK
  <2> QED BY <2>1, <2>2, <2>3 DEF TFInv, TFTypeOK, Loops
<1>7. CASE FlashProgram
  <2>1. CASE flash_cfg /\ current_algo # NoAlgo
    <3>1. FuncStart("PROGRAM", "page")  BY <1>7, <2>1 DEF FlashProgram
    <3> QED BY <1>0, <2>1, <3>1, FuncStartKeeps DEF TFInv, Loops, Func, At
  <2>2. CASE ~(flash_cfg /\ current_algo # NoAlgo)
    <3>1. UNCHANGED <<mcu, device>> /\ \E e \in Err : Return(e)
      BY <1>0, <1>7, <2>2 DEF FlashProgram, Err, DeviceTypeOK
    <3>2. FrameTypeOK' /\ at' = "idle"
      BY <3>1, ReturnType
    <3> QED
      BY <1>0, <3>1, <3>2 DEF TFInv, TFTypeOK, Loops, mcu, device, McuTypeOK, DeviceTypeOK
  <2> QED BY <2>1, <2>2
<1>8. CASE FlashPage
  <2>1. DeviceTypeOK' /\ current_algo' = current_algo
    BY <1>0, <1>8 DEF FlashPage, device, DeviceTypeOK
  <2>2. current_algo # NoAlgo
    BY <1>0, <1>8 DEF FlashPage, Loops
  <2>3. Page \in Seq(Byte)
    <3>1. PageSize[current_algo] \in Nat /\ buf \in Seq(Byte) /\ Len(buf) \in Nat
      BY <1>0, <2>2, LayoutAssumption DEF DeviceTypeOK, FrameTypeOK
    <3>2. Smaller(Len(buf), PageSize[current_algo]) \in 0 .. Len(buf)
      BY <3>1 DEF Smaller
    <3> QED BY <3>1, <3>2, SubSeqType DEF Page
  <2>4. McuTypeOK'
    BY <1>0, <1>8, <2>3, ExchangeType DEF FlashPage, GotoOr, mcu, McuTypeOK
  <2>5. FrameTypeOK' /\ at' \in {"idle", "program_exec"}
    <3>1. Return("NONE") \/ Return("ALGO_DATA_SEQ") \/ Goto("program_exec")
      BY <1>8 DEF FlashPage, GotoOr
    <3> QED BY <1>0, <3>1, ReturnType, GotoType DEF Err, At
  <2> QED BY <2>1, <2>2, <2>4, <2>5 DEF TFInv, TFTypeOK, Loops
<1>9. CASE FlashProgramExec
  <2>1. McuTypeOK'
    BY <1>0, <1>9, ProgramType DEF FlashProgramExec, FrameTypeOK
  <2>2. DeviceTypeOK' /\ current_algo' = current_algo
    BY <1>0, <1>9 DEF FlashProgramExec, device, DeviceTypeOK
  <2>3. current_algo # NoAlgo
    BY <1>0, <1>9 DEF FlashProgramExec, Loops
  <2>4. FrameTypeOK' /\ at' \in {"idle", "verify"}
    <3>1. CASE Return("WRITE")
      BY <3>1, ReturnType DEF Err
    <3>2. CASE at' = "verify" /\ unverified' = Len(buffer) /\ UNCHANGED <<addr, buf, region, result>>
      <4>1. Len(buffer) \in Nat  BY <1>0 DEF McuTypeOK
      <4> QED BY <1>0, <3>2, <4>1 DEF FrameTypeOK, At
    <3> QED BY <1>9, <3>1, <3>2 DEF FlashProgramExec
  <2> QED BY <2>1, <2>2, <2>3, <2>4 DEF TFInv, TFTypeOK, Loops
<1>10. CASE FlashVerifyCall
  <2>1. McuTypeOK'
    BY <1>0, <1>10, ExchangeType DEF FlashVerifyCall, CallVerify, mcu, McuTypeOK
  <2>2. DeviceTypeOK' /\ current_algo' = current_algo
    BY <1>0, <1>10 DEF FlashVerifyCall, DeviceTypeOK, Func
  <2>3. current_algo # NoAlgo
    BY <1>0, <1>10 DEF FlashVerifyCall, Loops
  <2>4. FrameTypeOK' /\ at' \in {"idle", "page", "verify"}
    <3>1. unverified \in Nat /\ unverified <= unverified
      BY <1>0 DEF FrameTypeOK
    <3>2. Advance(unverified) \/ Return("WRITE_VERIFY")
      BY <1>10 DEF FlashVerifyCall
    <3> QED BY <1>0, <3>1, <3>2, ReturnType, AdvanceType DEF Err
  <2> QED BY <2>1, <2>2, <2>3, <2>4 DEF TFInv, TFTypeOK, Loops
<1>11. CASE FlashVerifyRead
  <2>1. McuTypeOK' /\ DeviceTypeOK' /\ current_algo' = current_algo
    BY <1>0, <1>11 DEF FlashVerifyRead, mcu, device, McuTypeOK, DeviceTypeOK
  <2>2. current_algo # NoAlgo
    BY <1>0, <1>11 DEF FlashVerifyRead, Loops
  <2>3. FrameTypeOK' /\ at' \in {"idle", "page", "verify"}
    <3>1. VerifySize \in Nat /\ VerifySize <= unverified
      BY <1>0, LayoutAssumption DEF VerifySize, Smaller, FrameTypeOK
    <3>2. Advance(VerifySize) \/ Return("WRITE_VERIFY") \/ Return("ALGO_DATA_SEQ")
      BY <1>11 DEF FlashVerifyRead
    <3> QED BY <1>0, <3>1, <3>2, ReturnType, AdvanceType DEF Err
  <2> QED BY <2>1, <2>2, <2>3 DEF TFInv, TFTypeOK, Loops
<1>12. CASE FlashChipRegion
  <2>1. CASE ~flash_cfg \/ ChipDone
    <3>1. UNCHANGED <<mcu, device>> /\ ((\E e \in Err : Return(e)) \/ Goto("init"))
      BY <1>0, <1>12, <2>1 DEF FlashChipRegion, Err, DeviceTypeOK
    <3>2. FrameTypeOK' /\ at' \in {"idle", "init"}
      BY <1>0, <3>1, ReturnType, GotoType DEF At
    <3> QED
      BY <1>0, <3>1, <3>2 DEF TFInv, TFTypeOK, Loops, mcu, device, McuTypeOK, DeviceTypeOK
  <2>2. CASE flash_cfg /\ ~ChipDone
    <3>1. region \in DOMAIN Regions /\ region \in Nat /\ region >= 1
      <4>1. region \in Nat /\ region >= 1  BY <1>0, <1>12 DEF FlashChipRegion, Loops, FrameTypeOK
      <4>2. Len(Regions) \in Nat /\ DOMAIN Regions = 1 .. Len(Regions)  BY LayoutAssumption
      <4> QED BY <2>2, <4>1, <4>2 DEF ChipDone
    <3>2. Regions[region].start \in Nat
      BY <3>1, RegionFields, AddrNat
    <3>3. /\ NoteStart(Regions[region].start)
          /\ \/ region' = region + 1 /\ UNCHANGED <<at, addr>>
             \/ at' = "chip_algo" /\ addr' = Regions[region].start /\ UNCHANGED region
          /\ UNCHANGED <<mcu, flash_cfg, last_func, current_algo, tf_state, default_region,
                         buf, unverified, result>>
      BY <1>12, <2>2 DEF FlashChipRegion
    <3>4. DeviceTypeOK'
      BY <1>0, <3>2, <3>3, NoteStartType DEF DeviceTypeOK
    <3>5. FrameTypeOK' /\ at' \in {"chip", "chip_algo"} /\ region' >= 1
      BY <1>0, <1>12, <3>1, <3>2, <3>3 DEF FrameTypeOK, At, FlashChipRegion
    <3>6. McuTypeOK'
      BY <1>0, <3>3 DEF mcu, McuTypeOK
    <3> QED BY <3>4, <3>5, <3>6 DEF TFInv, TFTypeOK, Loops
  <2> QED BY <2>1, <2>2
<1>13. CASE FlashChipAlgo
  <2>0. region >= 1
    BY <1>0, <1>13 DEF FlashChipAlgo, AlgoSet, AlgoDownload, Loops
  <2>1. CASE AlgoSet("chip_algo", "chip_start", "chip_download")
    BY <1>0, <2>0, <2>1, AlgoSetKeeps DEF TFInv, Loops, At
  <2>2. CASE AlgoDownload("chip_download", "chip_start")
    BY <1>0, <2>0, <2>2, AlgoDownloadKeeps DEF TFInv, Loops, At
  <2> QED BY <1>13, <2>1, <2>2 DEF FlashChipAlgo
<1>14. CASE FlashChipStart
  <2>1. FuncStart("ERASE", "chip_exec") /\ region >= 1
    BY <1>0, <1>14 DEF FlashChipStart, Loops
  <2> QED BY <1>0, <2>1, FuncStartKeeps DEF TFInv, Loops, Func, At
<1>15. CASE FlashChipExec
  <2>1. McuTypeOK'
    BY <1>0, <1>15, EraseType DEF FlashChipExec
  <2>2. DeviceTypeOK'
    BY <1>0, <1>15 DEF FlashChipExec, device, DeviceTypeOK
  <2>3. FrameTypeOK' /\ at' \in {"idle", "chip"} /\ (at' = "chip" => region' >= 1)
    <3>1. region \in Nat  BY <1>0 DEF FrameTypeOK
    <3>2. CASE Return("ERASE_ALL")
      BY <3>2, ReturnType DEF Err
    <3>3. CASE at' = "chip" /\ region' = region + 1 /\ UNCHANGED <<addr, buf, unverified, result>>
      BY <1>0, <3>1, <3>3 DEF FrameTypeOK, At
    <3> QED BY <1>15, <3>2, <3>3 DEF FlashChipExec
  <2> QED BY <2>1, <2>2, <2>3 DEF TFInv, TFTypeOK, Loops
<1> QED
  BY <1>1, <1>2, <1>3, <1>4, <1>5, <1>6, <1>7, <1>8, <1>9, <1>10, <1>11, <1>12, <1>13,
     <1>14, <1>15 DEF TFStep
-----------------------------------------------------------------------------
(***************************************************************************)
(* Which function of the algorithm is open.  It stays so through every     *)
(* error: an algorithm with an open function is in RAM, because the RAM is *)
(* only given up (download, reset) once the function is closed.            *)
(***************************************************************************)
Exec == {"erase_exec", "page", "program_exec", "verify", "chip_exec"}

Funcs ==
    /\ last_func # "NOP" => resident = current_algo
    /\ at \in {"resume", "download", "chip_download"} => last_func = "NOP"
    /\ at \in {"download", "chip_download"} => get_flash_algo(addr) # NoAlgo
    /\ at \in Exec => last_func # "NOP"
    /\ at \in Exec \cup {"chip_start"} => current_algo # NoAlgo

(***************************************************************************)
(* The target is as the accessor believes: nothing has failed since it was *)
(* opened.                                                                 *)
(***************************************************************************)
Healthy ==
    /\ core = "halted"
    /\ resident = current_algo
    /\ last_func = "NOP" => prepared = NoAlgo
    /\ last_func # "NOP" => prepared = current_algo /\ current_algo # NoAlgo
    /\ flash_cfg /\ tf_state = "OPEN"

LEMMA StartCallKeepsFuncs ==
    ASSUME Funcs, NEW op \in {"init", "uninit", "algo_set", "erase", "program", "chip"},
           NEW a, NEW d, StartCall(op, a, d)
    PROVE  Funcs' /\ (Healthy => Healthy')
BY DEF StartCall, Funcs, Exec, Healthy, mcu, device

\* flash_func_start: what it does to the open function.
LEMMA FuncStartFuncs ==
    ASSUME last_func # "NOP" => resident = current_algo,
           NEW func \in Func, FuncStartOk(func) \/ FuncStartFails(func)
    PROVE  /\ resident' = resident
           /\ FuncStartOk(func) => last_func' = func
           /\ FuncStartFails(func) => last_func' = last_func
           /\ last_func' # "NOP" => resident = current_algo
           /\ FuncStartOk(func) /\ Healthy /\ (func # "NOP" => current_algo # NoAlgo) =>
                /\ core' = "halted"
                /\ func = "NOP" => prepared' = NoAlgo
                /\ func # "NOP" => prepared' = current_algo
BY DEF FuncStartOk, FuncStartFails, Finishes, Starts, CallUnInit, CallInit, CallUnInitFails,
       CallInitFails, mcu, Healthy

\* After flash_func_start the call goes on in order, or has failed.
LEMMA FuncStartHealthy ==
    ASSUME last_func # "NOP" => resident = current_algo,
           NEW func \in Func, NEW next, FuncStart(func, next)
    PROVE  /\ resident' = resident /\ current_algo' = current_algo
           /\ last_func' # "NOP" => resident = current_algo
           /\ \/ at' = next /\ last_func' = func
              \/ at' = "idle" /\ result' # "NONE"
           /\ Healthy /\ (func # "NOP" => current_algo # NoAlgo) =>
                Healthy' \/ (at' = "idle" /\ result' # "NONE")
<1>1. /\ current_algo' = current_algo /\ flash_cfg' = flash_cfg /\ tf_state' = tf_state
      /\ FuncStartOk(func) \/ FuncStartFails(func)
  BY DEF FuncStart, GotoOr
<1>2. CASE FuncStartOk(func) /\ Goto(next)
  BY <1>1, <1>2, FuncStartFuncs DEF Goto, Healthy
<1>3. CASE FuncStartFails(func) /\ Return(FuncStartErr(func))
  BY <1>1, <1>3, FuncStartFuncs DEF Return, FuncStartErr
<1> QED
  BY <1>2, <1>3 DEF FuncStart, GotoOr

\* flash_algo_set up to its download.
LEMMA AlgoSetHealthy ==
    ASSUME Funcs, NEW from, NEW next, NEW dl, AlgoSet(from, next, dl)
    PROVE  /\ resident' = resident /\ current_algo' = current_algo
           /\ addr' = addr \/ at' = "idle"
           /\ default_region' = default_region
           /\ last_func' # "NOP" => resident = current_algo
           /\ \/ at' = next /\ current_algo # NoAlgo
              \/ at' = dl /\ last_func' = "NOP" /\ get_flash_algo(addr) # NoAlgo /\ addr' = addr
              \/ at' = "idle" /\ (next = "idle" \/ result' # "NONE")
           /\ Healthy => Healthy' \/ (at' = "idle" /\ result' # "NONE")
<1> DEFINE new == get_flash_algo(addr)
<1>0. /\ current_algo' = current_algo /\ flash_cfg' = flash_cfg /\ tf_state' = tf_state
      /\ default_region' = default_region
      /\ last_func # "NOP" => resident = current_algo
  BY DEF AlgoSet, Funcs
<1>1. CASE new = NoAlgo
  BY <1>0, <1>1 DEF AlgoSet, Return, mcu
<1>2. CASE new # NoAlgo /\ new = current_algo
  BY <1>0, <1>2 DEF AlgoSet, Return, Goto, mcu, Healthy
<1>3. CASE new # NoAlgo /\ new # current_algo
  <2>1. GotoOr(FuncStartOk("NOP"), dl, FuncStartFails("NOP"), "UNINIT")
    BY <1>3 DEF AlgoSet
  <2>2. CASE FuncStartOk("NOP") /\ Goto(dl)
    BY <1>0, <1>3, <2>2, FuncStartFuncs DEF Goto, Healthy, Func
  <2>3. CASE FuncStartFails("NOP") /\ Return("UNINIT")
    BY <1>0, <1>3, <2>3, FuncStartFuncs DEF Return, Func
  <2> QED BY <2>1, <2>2, <2>3 DEF GotoOr
<1> QED
  BY <1>1, <1>2, <1>3

LEMMA AlgoDownloadHealthy ==
    ASSUME Funcs, NEW from \in {"download", "chip_download"}, NEW next, AlgoDownload(from, next)
    PROVE  /\ last_func' = "NOP"
           /\ \/ at' = next /\ current_algo' # NoAlgo
              \/ at' = "idle" /\ (next = "idle" \/ result' # "NONE")
           /\ Healthy => Healthy' \/ (at' = "idle" /\ result' # "NONE")
<1>1. last_func = "NOP" /\ last_func' = "NOP" /\ get_flash_algo(addr) # NoAlgo
  BY DEF AlgoDownload, Funcs
<1> QED
  BY <1>1 DEF AlgoDownload, Download, DownloadFails, Return, Goto, Healthy

\* flash_init leaves a target in order, or fails.
LEMMA FlashInitHealthy ==
    ASSUME FlashInit
    PROVE  at' = "idle" /\ last_func' = "NOP" /\ (result' = "NONE" => Healthy')
BY DEF FlashInit, ResetTo, Return, Healthy

(***************************************************************************)
(* Every step of a primitive keeps track of the open function, whatever    *)
(* fails.                                                                  *)
(***************************************************************************)
LEMMA TFStepKeepsFuncs ==
    ASSUME Funcs, TFStep
    PROVE  Funcs'
<1>1. CASE FlashInit
  BY <1>1, FlashInitHealthy DEF Funcs, Exec
<1>2. CASE FlashUninit
  <2>1. CASE flash_cfg
    BY <1>2, <2>1, FuncStartHealthy DEF FlashUninit, Funcs, Exec, Func
  <2>2. CASE ~flash_cfg
    BY <1>2, <2>2 DEF FlashUninit, Return, Funcs, Exec, mcu, device
  <2> QED BY <2>1, <2>2
<1>3. CASE FlashResume
  BY <1>3 DEF FlashResume, ResetTo, ResetFails, Return, Funcs, Exec
<1>4. CASE FlashAlgoSet
  <2>1. CASE AlgoSet("algo_set", "idle", "download")
    BY <2>1, AlgoSetHealthy DEF Funcs, Exec, get_flash_algo, AlgoRegion
  <2>2. CASE AlgoDownload("download", "idle")
    BY <2>2, AlgoDownloadHealthy DEF Funcs, Exec
  <2> QED BY <1>4, <2>1, <2>2 DEF FlashAlgoSet
<1>5. CASE FlashErase
  <2>1. CASE FuncStart("ERASE", "erase_exec") /\ current_algo # NoAlgo
    BY <2>1, FuncStartHealthy DEF Funcs, Exec, Func
  <2>2. CASE ~(FuncStart("ERASE", "erase_exec") /\ current_algo # NoAlgo)
    <3>1. UNCHANGED <<mcu, device>> /\ at' = "idle"
      BY <1>5, <2>2 DEF FlashErase, Return
    <3> QED BY <3>1 DEF Funcs, Exec, mcu, device
  <2> QED BY <2>1, <2>2
<1>6. CASE FlashEraseExec
  BY <1>6 DEF FlashEraseExec, CallErase, CallEraseFails, Return, Funcs, Exec, device
<1>7. CASE FlashProgram
  <2>1. CASE FuncStart("PROGRAM", "page") /\ current_algo # NoAlgo
    BY <2>1, FuncStartHealthy DEF Funcs, Exec, Func
  <2>2. CASE ~(FuncStart("PROGRAM", "page") /\ current_algo # NoAlgo)
    <3>1. UNCHANGED <<mcu, device>> /\ at' = "idle"
      BY <1>7, <2>2 DEF FlashProgram, Return, FuncStart, GotoOr
    <3> QED BY <3>1 DEF Funcs, Exec, mcu, device
  <2> QED BY <2>1, <2>2
<1>8. CASE FlashPage
  BY <1>8 DEF FlashPage, GotoOr, Goto, Return, Load, LoadFails, Funcs, Exec, mcu, device
<1>9. CASE FlashProgramExec
  BY <1>9 DEF FlashProgramExec, CallProgram, CallProgramFails, Return, Funcs, Exec, device
<1>10. CASE FlashVerifyCall
  BY <1>10 DEF FlashVerifyCall, CallVerify, CallVerifyFails, Advance, Return, Funcs, Exec, mcu
<1>11. CASE FlashVerifyRead
  BY <1>11 DEF FlashVerifyRead, Advance, Return, Funcs, Exec, mcu, device
<1>12. CASE FlashChipRegion
  BY <1>12 DEF FlashChipRegion, Return, Goto, Funcs, Exec, mcu, device
<1>13. CASE FlashChipAlgo
  <2>1. CASE AlgoSet("chip_algo", "chip_start", "chip_download")
    BY <2>1, AlgoSetHealthy DEF Funcs, Exec, get_flash_algo, AlgoRegion
  <2>2. CASE AlgoDownload("chip_download", "chip_start")
    BY <2>2, AlgoDownloadHealthy DEF Funcs, Exec
  <2> QED BY <1>13, <2>1, <2>2 DEF FlashChipAlgo
<1>14. CASE FlashChipStart
  BY <1>14, FuncStartHealthy DEF FlashChipStart, Funcs, Exec, Func
<1>15. CASE FlashChipExec
  BY <1>15 DEF FlashChipExec, CallErase, CallEraseFails, Return, Funcs, Exec, device
<1> QED
  BY <1>1, <1>2, <1>3, <1>4, <1>5, <1>6, <1>7, <1>8, <1>9, <1>10, <1>11, <1>12, <1>13,
     <1>14, <1>15 DEF TFStep

(***************************************************************************)
(* A target in order stays so through every step of a primitive but the    *)
(* closing ones, or the call returns an error.                             *)
(***************************************************************************)
LEMMA TFStepKeepsHealthy ==
    ASSUME Funcs, Healthy, TFStep, at \notin {"uninit", "resume"}
    PROVE  Healthy' \/ (at' = "idle" /\ result' # "NONE")
<1>1. CASE FlashInit
  BY <1>1, FlashInitHealthy
<1>2. ~FlashUninit /\ ~FlashResume
  BY DEF FlashUninit, FlashResume
<1>3. CASE FlashAlgoSet
  BY <1>3, AlgoSetHealthy, AlgoDownloadHealthy DEF FlashAlgoSet
<1>4. CASE FlashErase
  <2>1. CASE FuncStart("ERASE", "erase_exec") /\ current_algo # NoAlgo
    BY <2>1, FuncStartHealthy DEF Funcs, Func
  <2>2. CASE ~(FuncStart("ERASE", "erase_exec") /\ current_algo # NoAlgo)
    BY <1>4, <2>2 DEF FlashErase, Return
  <2> QED BY <2>1, <2>2
<1>5. CASE FlashEraseExec
  BY <1>5 DEF FlashEraseExec, CallErase, Return, Healthy, device
<1>6. CASE FlashProgram
  <2>1. CASE FuncStart("PROGRAM", "page") /\ current_algo # NoAlgo
    BY <2>1, FuncStartHealthy DEF Funcs, Func
  <2>2. CASE ~(FuncStart("PROGRAM", "page") /\ current_algo # NoAlgo)
    BY <1>6, <2>2 DEF FlashProgram, Return, FuncStart, GotoOr
  <2> QED BY <2>1, <2>2
<1>7. CASE FlashPage
  BY <1>7 DEF FlashPage, GotoOr, Load, Return, Healthy, mcu, device
<1>8. CASE FlashProgramExec
  BY <1>8 DEF FlashProgramExec, CallProgram, Return, Healthy, device
<1>9. CASE FlashVerifyCall
  BY <1>9 DEF FlashVerifyCall, CallVerify, Return, Healthy, Funcs, Exec, mcu
<1>10. CASE FlashVerifyRead
  BY <1>10 DEF FlashVerifyRead, Healthy, mcu, device
<1>11. CASE FlashChipRegion
  BY <1>11 DEF FlashChipRegion, Healthy, mcu, device
<1>12. CASE FlashChipAlgo
  BY <1>12, AlgoSetHealthy, AlgoDownloadHealthy DEF FlashChipAlgo
<1>13. CASE FlashChipStart
  BY <1>13, FuncStartHealthy DEF FlashChipStart, Funcs, Exec, Func
<1>14. CASE FlashChipExec
  BY <1>14 DEF FlashChipExec, CallErase, Return, Healthy, device
<1> QED
  BY <1>1, <1>2, <1>3, <1>4, <1>5, <1>6, <1>7, <1>8, <1>9, <1>10, <1>11, <1>12, <1>13,
     <1>14 DEF TFStep

\* With an open function on a target in order, its algorithm can be called.
LEMMA HealthyCallable ==
    ASSUME Funcs, Healthy, at \in Exec
    PROVE  Callable(current_algo)
BY DEF Funcs, Healthy, Callable
-----------------------------------------------------------------------------
(***************************************************************************)
(* What a primitive does to the contents of the flash.  A running call     *)
(* stays among its own steps until it returns.                             *)
(***************************************************************************)
InProgram == {"program", "page", "program_exec", "verify"}
InErase == {"erase", "erase_exec"}
InChip == {"chip", "chip_algo", "chip_download", "chip_start", "chip_exec", "init"}

StepsOf ==
    [init |-> {"init"}, uninit |-> {"uninit", "resume"}, algo_set |-> {"algo_set", "download"},
     erase |-> InErase, program |-> InProgram, chip |-> InChip]

LEMMA TFStepStays ==
    ASSUME TFStep, NEW op \in DOMAIN StepsOf, at \in StepsOf[op]
    PROVE  at' \in StepsOf[op] \cup {"idle"}
BY DEF TFStep, FlashInit, FlashUninit, FlashResume, FlashAlgoSet, FlashErase, FlashEraseExec,
   FlashProgram, FlashPage, FlashProgramExec, FlashVerifyCall, FlashVerifyRead, FlashChipRegion,
   FlashChipAlgo, FlashChipStart, FlashChipExec, AlgoSet, AlgoDownload, FuncStart, GotoOr, Goto,
   Return, Advance, StepsOf, InProgram, InErase, InChip

\* flash_func_start does not touch flash nor program buffer.
LEMMA FuncStartFlash ==
    ASSUME NEW func, NEW next, FuncStart(func, next)
    PROVE  /\ flash' = flash
           /\ \/ at' = next /\ UNCHANGED <<addr, buf, region, unverified>>
              \/ at' = "idle" /\ result' # "NONE"
BY DEF FuncStart, GotoOr, FuncStartOk, FuncStartFails, CallUnInit, CallInit, CallUnInitFails,
   CallInitFails, mcu, Goto, Return, FuncStartErr

(***************************************************************************)
(* flash_program_page(a, d): what has been verified is in the flash, what  *)
(* is left is in buf, and what a page is verified against is what buf      *)
(* starts with.                                                            *)
(***************************************************************************)
Done(d) == Len(d) - Len(buf)
AtBuffer == Len(buffer) <= Len(buf) /\ \A i \in 1 .. Len(buffer) : buffer[i] = buf[i]

Programming(a, d) ==
    /\ Len(buf) <= Len(d)
    /\ addr = a + Done(d)
    /\ \A i \in 1 .. Len(buf) : buf[i] = d[Done(d) + i]
    /\ \A i \in 1 .. Done(d) : a + i - 1 \in Addr => flash[a + i - 1] = d[i]
    /\ at = "program_exec" => AtBuffer
    /\ at = "verify" => unverified <= Len(buf)
    /\ at = "verify" /\ HasVerify[current_algo] => AtBuffer /\ unverified = Len(buffer)

\* A page that was loaded is the start of what is left.
LEMMA PageLoaded ==
    ASSUME TFInv, at = "page", Load(Page)
    PROVE  Len(buffer') <= Len(buf) /\ \A i \in 1 .. Len(buffer') : buffer'[i] = buf[i]
<1>1. buf \in Seq(Byte) /\ Len(buf) \in Nat /\ PageSize[current_algo] \in Nat
  BY LayoutAssumption DEF TFInv, TFTypeOK, FrameTypeOK, DeviceTypeOK, Loops
<1>2. PICK n \in 0 .. Len(buf) : buffer' = SubSeq(buf, 1, n)
  BY <1>1 DEF Load, Page, Smaller
<1> QED
  BY <1>1, <1>2

\* A round of the verify loop that went well: n more bytes are known good.
LEMMA AdvanceHolds ==
    ASSUME TFInv, NEW a \in Nat, NEW d \in Seq(Byte), Programming(a, d), at = "verify",
           NEW n \in Nat, n <= unverified, Advance(n),
           \A i \in 1 .. n : addr + i - 1 \in Addr => flash[addr + i - 1] = buf[i],
           flash' = flash, current_algo' = current_algo,
           HasVerify[current_algo] => n = unverified
    PROVE  Programming(a, d)' /\ at' \in InProgram
<1>0. /\ buf \in Seq(Byte) /\ Len(buf) \in Nat /\ Len(d) \in Nat /\ unverified \in Nat
      /\ n <= Len(buf) /\ unverified <= Len(buf) /\ addr \in Nat
  BY DEF TFInv, TFTypeOK, FrameTypeOK, Programming
<1>1. /\ addr' = addr + n
      /\ buf' = SubSeq(buf, n + 1, Len(buf))
      /\ unverified' = unverified - n
      /\ at' = IF unverified = n THEN "page" ELSE "verify"
  BY DEF Advance
<1>2. /\ Len(buf') = Len(buf) - n
      /\ \A i \in 1 .. Len(buf) - n : buf'[i] = buf[n + i]
  BY <1>0, <1>1, PartOf
<1>3. /\ Len(buf) <= Len(d) /\ addr = a + Done(d)
      /\ \A i \in 1 .. Len(buf) : buf[i] = d[Done(d) + i]
      /\ \A i \in 1 .. Done(d) : a + i - 1 \in Addr => flash[a + i - 1] = d[i]
  BY DEF Programming
<1>4. Len(buf') <= Len(d) /\ addr' = a + (Len(d) - Len(buf'))
  <2>1. Len(buf) <= Len(d) /\ addr' = a + (Len(d) - Len(buf)) + n
    BY <1>1, <1>3 DEF Done
  <2> QED BY <1>0, <1>2, <2>1
<1>5. \A i \in 1 .. Len(buf') : buf'[i] = d[Len(d) - Len(buf') + i]
  <2> SUFFICES ASSUME NEW i \in 1 .. Len(buf) - n PROVE buf'[i] = d[Len(d) - Len(buf') + i]
    BY <1>2
  <2>1. n + i \in 1 .. Len(buf) /\ buf'[i] = buf[n + i]
    BY <1>0, <1>2
  <2>2. Done(d) + (n + i) = Len(d) - Len(buf') + i
    BY <1>0, <1>2 DEF Done
  <2> QED BY <1>3, <2>1, <2>2
<1>6. \A i \in 1 .. Len(d) - Len(buf') : a + i - 1 \in Addr => flash'[a + i - 1] = d[i]
  <2> SUFFICES ASSUME NEW i \in 1 .. Len(d) - Len(buf'), a + i - 1 \in Addr
               PROVE  flash[a + i - 1] = d[i]
    OBVIOUS
  <2>1. CASE i <= Done(d)
    BY <1>0, <1>3, <2>1 DEF Done
  <2>2. CASE i > Done(d)
    <3>1. i - Done(d) \in 1 .. n /\ i - Done(d) \in 1 .. Len(buf)
      BY <1>0, <1>2, <2>2 DEF Done
    <3>2. addr + (i - Done(d)) - 1 = a + i - 1 /\ Done(d) + (i - Done(d)) = i
      BY <1>0, <1>3 DEF Done
    <3> QED BY <1>3, <3>1, <3>2
  <2> QED BY <1>0, <2>1, <2>2 DEF Done
<1>7. at' = "verify" => unverified' <= Len(buf') /\ ~HasVerify[current_algo]
  BY <1>0, <1>1, <1>2
<1> QED
  BY <1>1, <1>4, <1>5, <1>6, <1>7 DEF Programming, Done, InProgram

\* What programming changes lies above what has been verified.
LEMMA ProgramAbove ==
    ASSUME TFInv, NEW a \in Nat, NEW d \in Seq(Byte), Programming(a, d),
           CallProgram(current_algo, addr)
    PROVE  \A i \in 1 .. Done(d) : a + i - 1 \in Addr => flash'[a + i - 1] = d[i]
<1>1. Len(buf) \in Nat /\ Len(d) \in Nat /\ Len(buffer) \in Nat /\ addr = a + Done(d)
  BY DEF TFInv, TFTypeOK, FrameTypeOK, McuTypeOK, Programming
<1>2. \A i \in 1 .. Done(d) : a + i - 1 \notin Span(addr, Len(buffer))
  BY <1>1 DEF Span, Done
<1>3. PICK junk \in Byte : flash' = Programmed(addr, junk)
  BY DEF CallProgram
<1>4. \A x \in Addr : x \notin Span(addr, Len(buffer)) => flash'[x] = flash[x]
  BY <1>3 DEF Programmed
<1> QED
  BY <1>2, <1>4 DEF Programming

(***************************************************************************)
(* flash_program_page goes on as above, and when it reports success the    *)
(* flash holds the data.                                                   *)
(***************************************************************************)
LEMMA ProgramSteps ==
    ASSUME TFInv, NEW a \in Nat, NEW d \in Seq(Byte),
           at \in InProgram, Programming(a, d), TFStep
    PROVE  /\ at' \in InProgram => Programming(a, d)'
           /\ at' = "idle" /\ result' = "NONE" => Holds(a, d)'
<1>0. FlashProgram \/ FlashPage \/ FlashProgramExec \/ FlashVerifyCall \/ FlashVerifyRead
  BY DEF TFStep, InProgram, FlashInit, FlashUninit, FlashResume, FlashAlgoSet, FlashErase,
     FlashEraseExec, FlashChipRegion, FlashChipAlgo, FlashChipStart, FlashChipExec, AlgoSet,
     AlgoDownload
<1>1. CASE FlashProgram
  <2>1. CASE FuncStart("PROGRAM", "page")
    <3>1. /\ flash' = flash
          /\ \/ at' = "page" /\ addr' = addr /\ buf' = buf
             \/ at' = "idle" /\ result' # "NONE"
      BY <2>1, FuncStartFlash
    <3> QED BY <3>1 DEF Programming, Done, InProgram
  <2>2. CASE ~FuncStart("PROGRAM", "page")
    BY <1>1, <2>2 DEF FlashProgram, Return, InProgram
  <2> QED BY <2>1, <2>2
<1>2. CASE FlashPage
  <2>1. CASE buf = << >>
    <3>1. at' = "idle" /\ flash' = flash
      BY <1>2, <2>1 DEF FlashPage, Return, mcu
    <3>2. Done(d) = Len(d)
      BY <2>1 DEF Done
    <3> QED BY <3>1, <3>2 DEF Programming, Holds, InProgram
  <2>2. CASE buf # << >> /\ Load(Page) /\ Goto("program_exec")
    <3>1. flash' = flash /\ at' = "program_exec" /\ UNCHANGED <<addr, buf>>
      BY <2>2 DEF Load, Goto
    <3>2. AtBuffer'
      BY <1>2, <2>2, <3>1, PageLoaded DEF AtBuffer, FlashPage
    <3> QED BY <3>1, <3>2 DEF Programming, Done
  <2>3. CASE Return("ALGO_DATA_SEQ")
    BY <2>3 DEF Return, InProgram
  <2> QED BY <1>2, <2>1, <2>2, <2>3 DEF FlashPage, GotoOr
<1>3. CASE FlashProgramExec
  <2>1. CASE CallProgram(current_algo, addr) /\ at' = "verify" /\ unverified' = Len(buffer)
             /\ UNCHANGED <<addr, buf, region, result>>
    <3>1. buffer' = buffer /\ AtBuffer
      BY <1>3, <2>1 DEF CallProgram, FlashProgramExec, Programming
    <3>2. \A i \in 1 .. Done(d) : a + i - 1 \in Addr => flash'[a + i - 1] = d[i]
      BY <2>1, ProgramAbove
    <3> QED BY <2>1, <3>1, <3>2 DEF Programming, Done, AtBuffer
  <2>2. CASE Return("WRITE")
    BY <2>2 DEF Return, InProgram
  <2> QED BY <1>3, <2>1, <2>2 DEF FlashProgramExec
<1>4. CASE FlashVerifyCall
  <2>1. CASE CallVerify(current_algo, addr) /\ Advance(unverified)
    <3>1. /\ flash' = flash /\ current_algo' = current_algo /\ unverified \in Nat
          /\ unverified = Len(buffer) /\ AtBuffer /\ Holds(addr, buffer)
      BY <1>4, <2>1 DEF CallVerify, mcu, FlashVerifyCall, Programming, TFInv, TFTypeOK, FrameTypeOK
    <3>2. \A i \in 1 .. unverified : addr + i - 1 \in Addr => flash[addr + i - 1] = buf[i]
      BY <3>1 DEF AtBuffer, Holds
    <3>3. Programming(a, d)' /\ at' \in InProgram
      BY <1>4, <2>1, <3>1, <3>2, AdvanceHolds DEF FlashVerifyCall
    <3> QED BY <3>3 DEF InProgram
  <2>2. CASE Return("WRITE_VERIFY")
    BY <2>2 DEF Return, InProgram
  <2> QED BY <1>4, <2>1, <2>2 DEF FlashVerifyCall
<1>5. CASE FlashVerifyRead
  <2>1. CASE ReadBackMatches /\ Advance(VerifySize)
    <3>1. /\ flash' = flash /\ current_algo' = current_algo /\ unverified \in Nat
          /\ buf \in Seq(Byte) /\ Len(buf) \in Nat /\ unverified <= Len(buf)
      BY <1>5 DEF FlashVerifyRead, mcu, device, TFInv, TFTypeOK, FrameTypeOK, Programming
    <3>2. VerifySize \in Nat /\ VerifySize <= unverified
      BY <3>1, LayoutAssumption DEF VerifySize, Smaller
    <3>3. \A i \in 1 .. VerifySize : addr + i - 1 \in Addr => flash[addr + i - 1] = buf[i]
      BY <2>1, <3>1, <3>2 DEF ReadBackMatches, Holds
    <3>4. Programming(a, d)' /\ at' \in InProgram
      BY <1>5, <2>1, <3>1, <3>2, <3>3, AdvanceHolds DEF FlashVerifyRead
    <3> QED BY <3>4 DEF InProgram
  <2>2. CASE Return("WRITE_VERIFY") \/ Return("ALGO_DATA_SEQ")
    BY <2>2 DEF Return, InProgram
  <2> QED BY <1>5, <2>1, <2>2 DEF FlashVerifyRead
<1> QED
  BY <1>0, <1>1, <1>2, <1>3, <1>4, <1>5
(***************************************************************************)
(* flash_erase_sector(a) reports success when the sector is erased.        *)
(***************************************************************************)
LEMMA EraseSteps ==
    ASSUME NEW a, at \in InErase, addr = a, TFStep
    PROVE  /\ at' \in InErase => addr' = a
           /\ at' = "idle" /\ result' = "NONE" => \A x \in SectorCells(a) : flash'[x] = FF
<1>0. FlashErase \/ FlashEraseExec
  BY DEF TFStep, InErase, FlashInit, FlashUninit, FlashResume, FlashAlgoSet, FlashProgram,
     FlashPage, FlashProgramExec, FlashVerifyCall, FlashVerifyRead, FlashChipRegion,
     FlashChipAlgo, FlashChipStart, FlashChipExec, AlgoSet, AlgoDownload
<1>1. CASE FlashErase
  <2>1. CASE FuncStart("ERASE", "erase_exec")
    BY <2>1, FuncStartFlash DEF InErase
  <2>2. CASE ~FuncStart("ERASE", "erase_exec")
    BY <1>1, <2>2 DEF FlashErase, Return, InErase
  <2> QED BY <2>1, <2>2
<1>2. CASE FlashEraseExec
  BY <1>2 DEF FlashEraseExec, CallErase, Return, InErase, SectorCells
<1> QED
  BY <1>0, <1>1, <1>2
-----------------------------------------------------------------------------
(***************************************************************************)
(* flash_erase_chip: the regions the loop has passed are erased, and the   *)
(* algorithm that is set is the one found at the start of the region.      *)
(***************************************************************************)
Blanked(i) == Regions[i].algo # NoAlgo => \A a \in Covers[Regions[i].algo] : flash[a] = FF

ChipErasing ==
    /\ at = "init" => \A i \in DOMAIN Regions : Blanked(i)
    /\ at # "init" => \A i \in DOMAIN Regions : i < region => Blanked(i)
    /\ at \in {"chip_algo", "chip_download", "chip_start", "chip_exec"} =>
         region \in DOMAIN Regions /\ addr = Regions[region].start
    /\ at \in {"chip_start", "chip_exec"} => current_algo = get_flash_algo(addr)

\* What get_flash_algo finds at the start of a region that has an algorithm.
LEMMA RegionAlgo ==
    ASSUME RegionsFound, NEW i \in DOMAIN Regions, Regions[i].algo # NoAlgo
    PROVE  get_flash_algo(Regions[i].start) = Regions[i].algo
BY DEF RegionsFound, get_flash_algo, AlgoRegion

\* flash_algo_set and the download leave the flash and the frame alone.
LEMMA AlgoSetFlash ==
    ASSUME NEW from, NEW next, NEW dl, AlgoSet(from, next, dl), next # "idle"
    PROVE  /\ flash' = flash /\ default_region' = default_region
           /\ \/ at' = dl /\ UNCHANGED <<addr, region>>
              \/ at' = next /\ current_algo' = get_flash_algo(addr) /\ UNCHANGED <<addr, region>>
              \/ at' = "idle" /\ result' # "NONE"
BY DEF AlgoSet, GotoOr, FuncStartOk, FuncStartFails, CallUnInit, CallInit, CallUnInitFails,
   CallInitFails, mcu, Goto, Return

LEMMA AlgoDownloadFlash ==
    ASSUME NEW from, NEW next, AlgoDownload(from, next), next # "idle"
    PROVE  /\ flash' = flash /\ default_region' = default_region
           /\ \/ at' = next /\ current_algo' = get_flash_algo(addr) /\ UNCHANGED <<addr, region>>
              \/ at' = "idle" /\ result' # "NONE"
BY DEF AlgoDownload, Download, DownloadFails, Goto, Return

\* A region of the loop: passed over without an algorithm, or taken up.
LEMMA ChipRegionStep ==
    ASSUME RegionsFound, TFInv, at \in InChip, ChipErasing, FlashChipRegion
    PROVE  /\ at' \in InChip => ChipErasing'
           /\ at' = "idle" /\ result' = "NONE" => \A i \in DOMAIN Regions : Blanked(i)'
<1>0. /\ at = "chip" /\ region \in Nat /\ region >= 1
      /\ DOMAIN Regions = 1 .. Len(Regions) /\ Len(Regions) \in Nat
  BY LayoutAssumption DEF FlashChipRegion, TFInv, TFTypeOK, FrameTypeOK, Loops
<1>1. flash' = flash /\ \A i \in DOMAIN Regions : i < region => Blanked(i)
  BY <1>0 DEF FlashChipRegion, mcu, ChipErasing
<1>2. CASE ~flash_cfg
  BY <1>2 DEF FlashChipRegion, Return, InChip
<1>3. CASE flash_cfg /\ ChipDone
  <2>1. \A i \in DOMAIN Regions : Blanked(i)
    BY <1>0, <1>1, <1>3 DEF ChipDone
  <2>2. at' \in {"init", "idle"}
    BY <1>3 DEF FlashChipRegion, Goto, Return
  <2> QED BY <1>1, <2>1, <2>2 DEF ChipErasing, Blanked, InChip
<1>4. CASE flash_cfg /\ ~ChipDone
  <2>1. region \in DOMAIN Regions
    BY <1>0, <1>4 DEF ChipDone
  <2>2. CASE get_flash_algo(Regions[region].start) = NoAlgo
    <3>1. region' = region + 1 /\ at' = "chip"
      BY <1>0, <1>4, <2>2 DEF FlashChipRegion
    <3>2. Blanked(region)
      BY <2>1, <2>2, RegionAlgo DEF Blanked
    <3>3. \A i \in DOMAIN Regions : i < region + 1 => Blanked(i)
      BY <1>0, <1>1, <3>2
    <3> QED BY <1>1, <3>1, <3>3 DEF ChipErasing, Blanked
  <2>3. CASE get_flash_algo(Regions[region].start) # NoAlgo
    <3>1. at' = "chip_algo" /\ addr' = Regions[region].start /\ region' = region
      BY <1>0, <1>4, <2>3 DEF FlashChipRegion
    <3> QED BY <1>1, <2>1, <3>1 DEF ChipErasing, Blanked
  <2> QED BY <2>2, <2>3
<1> QED
  BY <1>2, <1>3, <1>4

\* Erasing the flash of a region leaves what was erased before erased.
LEMMA ChipExecStep ==
    ASSUME RegionsFound, TFInv, at \in InChip, ChipErasing, FlashChipExec
    PROVE  /\ at' \in InChip => ChipErasing'
           /\ at' = "idle" => result' # "NONE"
<1>1. CASE Return("ERASE_ALL")
  BY <1>1 DEF Return, InChip
<1>2. CASE CallErase(current_algo, Covers[current_algo]) /\ at' = "chip" /\ region' = region + 1
  <2>1. /\ region \in DOMAIN Regions /\ region \in Nat
        /\ current_algo = get_flash_algo(Regions[region].start)
        /\ \A i \in DOMAIN Regions : i < region => Blanked(i)
        /\ DOMAIN Regions = 1 .. Len(Regions) /\ Len(Regions) \in Nat
    BY LayoutAssumption DEF FlashChipExec, ChipErasing, TFInv, TFTypeOK, FrameTypeOK
  <2>2. /\ flash' = [x \in Addr |-> IF x \in Covers[current_algo] THEN FF ELSE flash[x]]
        /\ \A a \in Algos : Covers[a] \subseteq Addr
    BY <1>2, LayoutAssumption DEF CallErase
  <2>3. \A i \in DOMAIN Regions : Regions[i].algo # NoAlgo => Regions[i].algo \in Algos
    BY RegionFields
  <2>4. ASSUME NEW i \in DOMAIN Regions, i = region PROVE Blanked(i)'
    <3> SUFFICES ASSUME Regions[i].algo # NoAlgo
                 PROVE  \A a \in Covers[Regions[i].algo] : flash'[a] = FF
      BY DEF Blanked
    <3>1. current_algo = Regions[i].algo
      BY <2>1, <2>4, RegionAlgo
    <3> QED BY <2>2, <2>3, <3>1
  <2>5. ASSUME NEW i \in DOMAIN Regions, i < region PROVE Blanked(i)'
    BY <2>1, <2>2, <2>3, <2>5 DEF Blanked
  <2>6. \A i \in DOMAIN Regions : i < region' => Blanked(i)'
    BY <1>2, <2>1, <2>4, <2>5
  <2> QED BY <1>2, <2>6 DEF ChipErasing
<1> QED
  BY <1>1, <1>2 DEF FlashChipExec

(***************************************************************************)
(* flash_erase_chip reports success when every region that has an          *)
(* algorithm is erased, by itself or after the reset that follows.         *)
(***************************************************************************)
LEMMA ChipSteps ==
    ASSUME RegionsFound, TFInv, at \in InChip, ChipErasing, TFStep
    PROVE  /\ at' \in InChip => ChipErasing'
           /\ at' = "idle" /\ result' = "NONE" => \A i \in DOMAIN Regions : Blanked(i)'
<1>0. FlashInit \/ FlashChipRegion \/ FlashChipAlgo \/ FlashChipStart \/ FlashChipExec
  BY DEF TFStep, InChip, FlashUninit, FlashResume, FlashAlgoSet, FlashErase, FlashEraseExec,
     FlashProgram, FlashPage, FlashProgramExec, FlashVerifyCall, FlashVerifyRead, AlgoSet,
     AlgoDownload
<1>1. CASE FlashInit
  BY <1>1 DEF FlashInit, ResetTo, ResetFails, Return, InChip, ChipErasing, Blanked
<1>2. CASE FlashChipRegion
  BY <1>2, ChipRegionStep
<1>3. CASE FlashChipAlgo
  <2>1. CASE AlgoSet("chip_algo", "chip_start", "chip_download")
    <3>1. at = "chip_algo"
      BY <2>1 DEF AlgoSet
    <3> QED
      BY <2>1, <3>1, AlgoSetFlash DEF ChipErasing, Blanked, InChip, get_flash_algo, AlgoRegion
  <2>2. CASE AlgoDownload("chip_download", "chip_start")
    <3>1. at = "chip_download"
      BY <2>2 DEF AlgoDownload
    <3> QED
      BY <2>2, <3>1, AlgoDownloadFlash DEF ChipErasing, Blanked, InChip, get_flash_algo, AlgoRegion
  <2> QED BY <1>3, <2>1, <2>2 DEF FlashChipAlgo
<1>4. CASE FlashChipStart
  <2>1. at = "chip_start" /\ current_algo' = current_algo /\ default_region' = default_region
    BY <1>4 DEF FlashChipStart, FuncStart
  <2> QED
    BY <1>4, <2>1, FuncStartFlash DEF FlashChipStart, ChipErasing, Blanked, InChip,
       get_flash_algo, AlgoRegion
<1>5. CASE FlashChipExec
  BY <1>5, ChipExecStep
<1> QED
  BY <1>0, <1>1, <1>2, <1>3, <1>4, <1>5
-----------------------------------------------------------------------------
(***************************************************************************)
(* Which cells a primitive may change: none outside the calls of the erase *)
(* and program functions, and there those of the sector or of the data.    *)
(***************************************************************************)
LEMMA QuietSteps ==
    ASSUME TFStep, at \notin {"erase_exec", "program_exec", "chip_exec"}
    PROVE  flash' = flash
<1>1. CASE FlashInit \/ FlashResume
  BY <1>1 DEF FlashInit, FlashResume, ResetTo, ResetFails
<1>2. CASE FlashUninit
  BY <1>2, FuncStartFlash DEF FlashUninit, mcu
<1>3. CASE FlashAlgoSet \/ FlashChipAlgo
  BY <1>3 DEF FlashAlgoSet, FlashChipAlgo, AlgoSet, AlgoDownload, GotoOr, FuncStartOk,
     FuncStartFails, CallUnInit, CallInit, CallUnInitFails, CallInitFails, Download,
     DownloadFails, mcu
<1>4. CASE FlashErase \/ FlashProgram \/ FlashChipStart
  BY <1>4, FuncStartFlash DEF FlashErase, FlashProgram, FlashChipStart, mcu
<1>5. CASE FlashPage
  BY <1>5 DEF FlashPage, GotoOr, Load, LoadFails, mcu
<1>6. CASE FlashVerifyCall \/ FlashVerifyRead \/ FlashChipRegion
  BY <1>6 DEF FlashVerifyCall, FlashVerifyRead, FlashChipRegion, CallVerify, CallVerifyFails, mcu
<1>7. ~FlashEraseExec /\ ~FlashProgramExec /\ ~FlashChipExec
  BY DEF FlashEraseExec, FlashProgramExec, FlashChipExec
<1> QED
  BY <1>1, <1>2, <1>3, <1>4, <1>5, <1>6, <1>7 DEF TFStep

LEMMA MixedOutside ==
    ASSUME NEW old \in [Addr -> Byte], NEW span, NEW new, NEW f \in Mixed(old, new, span)
    PROVE  \A x \in Addr : x \notin span => f[x] = old[x]
BY DEF Mixed

LEMMA EraseWithin ==
    ASSUME TFInv, at \in InErase, TFStep
    PROVE  \A x \in Addr : x \notin SectorCells(addr) => flash'[x] = flash[x]
<1>1. CASE at = "erase"
  BY <1>1, QuietSteps
<1>2. CASE at = "erase_exec"
  <2>1. FlashEraseExec
    BY <1>2 DEF TFStep, FlashInit, FlashUninit, FlashResume, FlashAlgoSet, FlashErase,
       FlashEraseExec, FlashProgram, FlashPage, FlashProgramExec, FlashVerifyCall,
       FlashVerifyRead, FlashChipRegion, FlashChipAlgo, FlashChipStart, FlashChipExec, AlgoSet,
       AlgoDownload
  <2>2. CASE CallErase(current_algo, SectorCells(addr))
    BY <2>2 DEF CallErase
  <2>3. CASE CallEraseFails(SectorCells(addr))
    <3>1. flash' \in Mixed(flash, Erased, SectorCells(addr)) /\ flash \in [Addr -> Byte]
      BY <2>3 DEF CallEraseFails, TFInv, TFTypeOK, McuTypeOK
    <3> QED BY <3>1, MixedOutside
  <2> QED BY <2>1, <2>2, <2>3 DEF FlashEraseExec
<1> QED
  BY <1>1, <1>2 DEF InErase

LEMMA ProgramExecStep ==
    ASSUME TFStep, at = "program_exec"
    PROVE  FlashProgramExec
BY DEF TFStep, FlashInit, FlashUninit, FlashResume, FlashAlgoSet, FlashErase, FlashEraseExec,
   FlashProgram, FlashPage, FlashProgramExec, FlashVerifyCall, FlashVerifyRead, FlashChipRegion,
   FlashChipAlgo, FlashChipStart, FlashChipExec, AlgoSet, AlgoDownload

\* A page changes its own cells at most, also when it fails.
LEMMA PageWithin ==
    ASSUME TFInv, FlashProgramExec
    PROVE  \A x \in Addr : x \notin Span(addr, Len(buffer)) => flash'[x] = flash[x]
<1>1. CASE CallProgram(current_algo, addr)
  BY <1>1 DEF CallProgram, Programmed
<1>2. CASE CallProgramFails(addr)
  <2>1. PICK junk \in Byte :
          flash' \in Mixed(flash, Programmed(addr, junk), Span(addr, Len(buffer)))
    BY <1>2 DEF CallProgramFails
  <2>2. flash \in [Addr -> Byte]
    BY DEF TFInv, TFTypeOK, McuTypeOK
  <2> QED BY <2>1, <2>2, MixedOutside
<1> QED
  BY <1>1, <1>2 DEF FlashProgramExec

LEMMA ProgramWithin ==
    ASSUME TFInv, NEW a \in Nat, NEW d \in Seq(Byte),
           at \in InProgram, Programming(a, d), TFStep
    PROVE  \A x \in Addr : x \notin Span(a, Len(d)) => flash'[x] = flash[x]
<1>1. CASE at # "program_exec"
  BY <1>1, QuietSteps DEF InProgram
<1>2. CASE at = "program_exec"
  <2>1. FlashProgramExec
    BY <1>2, ProgramExecStep
  <2>2. /\ Len(buffer) \in Nat /\ Len(buf) \in Nat /\ Len(d) \in Nat
        /\ Len(buffer) <= Len(buf) /\ Len(buf) <= Len(d) /\ addr = a + Done(d)
    BY <1>2 DEF TFInv, TFTypeOK, McuTypeOK, FrameTypeOK, Programming, AtBuffer
  <2>3. ASSUME NEW x \in Addr, x \in Span(addr, Len(buffer)) PROVE x \in Span(a, Len(d))
    <3>1. x \in Nat /\ addr <= x /\ x < addr + Len(buffer)
      BY <2>3, AddrNat DEF Span
    <3>2. addr = a + (Len(d) - Len(buf))
      BY <2>2 DEF Done
    <3>3. a <= x /\ x < a + Len(d)
      BY <2>2, <3>1, <3>2
    <3> QED BY <3>3 DEF Span
  <2> QED BY <2>1, <2>3, PageWithin
<1> QED
  BY <1>1, <1>2

(***************************************************************************)
(* Cells that were erased when flash_program_page was called are erased    *)
(* until it gets to them.                                                  *)
(***************************************************************************)
BlankAhead ==
    /\ at \in {"program", "page", "program_exec"} => \A x \in Span(addr, Len(buf)) : flash[x] = FF
    /\ at = "verify" => \A x \in Span(addr + unverified, Len(buf) - unverified) : flash[x] = FF

LEMMA BlankAheadAdvance ==
    ASSUME TFInv, NEW a \in Nat, NEW d \in Seq(Byte), Programming(a, d), at = "verify",
           BlankAhead, NEW n \in Nat, n <= unverified, Advance(n), flash' = flash
    PROVE  BlankAhead'
<1>1. /\ buf \in Seq(Byte) /\ Len(buf) \in Nat /\ unverified \in Nat /\ addr \in Nat
      /\ unverified <= Len(buf)
  BY DEF TFInv, TFTypeOK, FrameTypeOK, Programming
<1>2. /\ addr' = addr + n
      /\ unverified' = unverified - n
      /\ buf' = SubSeq(buf, n + 1, Len(buf))
      /\ at' = IF unverified = n THEN "page" ELSE "verify"
  BY DEF Advance
<1>3. Len(buf') = Len(buf) - n
  BY <1>1, <1>2
<1>4. addr' + unverified' = addr + unverified /\ Len(buf') - unverified' = Len(buf) - unverified
  BY <1>1, <1>2, <1>3
<1>5. unverified = n => addr' = addr + unverified /\ Len(buf') = Len(buf) - unverified
  BY <1>1, <1>2, <1>3
<1> QED
  BY <1>2, <1>4, <1>5 DEF BlankAhead

LEMMA BlankAheadStep ==
    ASSUME TFInv, NEW a \in Nat, NEW d \in Seq(Byte),
           at \in InProgram, Programming(a, d), BlankAhead, TFStep
    PROVE  BlankAhead'
<1>0. FlashProgram \/ FlashPage \/ FlashProgramExec \/ FlashVerifyCall \/ FlashVerifyRead
  BY DEF TFStep, InProgram, FlashInit, FlashUninit, FlashResume, FlashAlgoSet, FlashErase,
     FlashEraseExec, FlashChipRegion, FlashChipAlgo, FlashChipStart, FlashChipExec, AlgoSet,
     AlgoDownload
<1>1. CASE FlashProgram
  <2>1. CASE FuncStart("PROGRAM", "page")
    <3>1. /\ flash' = flash
          /\ \/ at' = "page" /\ addr' = addr /\ buf' = buf
             \/ at' = "idle"
      BY <2>1, FuncStartFlash
    <3> QED BY <1>1, <3>1 DEF BlankAhead, FlashProgram
  <2>2. CASE ~FuncStart("PROGRAM", "page")
    BY <1>1, <2>2 DEF FlashProgram, Return, BlankAhead
  <2> QED BY <2>1, <2>2
<1>2. CASE FlashPage
  <2>1. \/ at' = "idle"
        \/ at' = "program_exec" /\ UNCHANGED <<addr, buf>> /\ flash' = flash
    BY <1>2 DEF FlashPage, GotoOr, Load, Goto, Return
  <2> QED BY <1>2, <2>1 DEF BlankAhead, FlashPage
<1>3. CASE FlashProgramExec
  <2>1. CASE at' = "verify" /\ unverified' = Len(buffer) /\ UNCHANGED <<addr, buf, region, result>>
    <3>1. /\ Len(buffer) \in Nat /\ Len(buf) \in Nat /\ addr \in Nat /\ Len(buffer) <= Len(buf)
          /\ \A x \in Span(addr, Len(buf)) : flash[x] = FF
      BY <1>3 DEF TFInv, TFTypeOK, McuTypeOK, FrameTypeOK, Programming, AtBuffer,
         FlashProgramExec, BlankAhead
    <3>2. ASSUME NEW x \in Span(addr + Len(buffer), Len(buf) - Len(buffer))
          PROVE  x \in Addr /\ x \in Span(addr, Len(buf)) /\ x \notin Span(addr, Len(buffer))
      BY <3>1, AddrNat DEF Span
    <3>3. \A x \in Span(addr + Len(buffer), Len(buf) - Len(buffer)) : flash'[x] = FF
      BY <1>3, <3>1, <3>2, PageWithin
    <3> QED BY <2>1, <3>3 DEF BlankAhead
  <2>2. CASE Return("WRITE")
    BY <2>2 DEF Return, BlankAhead
  <2> QED BY <1>3, <2>1, <2>2 DEF FlashProgramExec
<1>4. CASE FlashVerifyCall
  <2>1. CASE CallVerify(current_algo, addr) /\ Advance(unverified)
    <3>1. flash' = flash /\ unverified \in Nat /\ unverified <= unverified
      BY <2>1 DEF CallVerify, mcu, TFInv, TFTypeOK, FrameTypeOK
    <3> QED BY <1>4, <2>1, <3>1, BlankAheadAdvance DEF FlashVerifyCall
  <2>2. CASE Return("WRITE_VERIFY")
    BY <2>2 DEF Return, BlankAhead
  <2> QED BY <1>4, <2>1, <2>2 DEF FlashVerifyCall
<1>5. CASE FlashVerifyRead
  <2>1. CASE Advance(VerifySize)
    <3>1. flash' = flash /\ unverified \in Nat
      BY <1>5 DEF FlashVerifyRead, mcu, TFInv, TFTypeOK, FrameTypeOK
    <3>2. VerifySize \in Nat /\ VerifySize <= unverified
      BY <3>1, LayoutAssumption DEF VerifySize, Smaller
    <3> QED BY <1>5, <2>1, <3>1, <3>2, BlankAheadAdvance DEF FlashVerifyRead
  <2>2. CASE Return("WRITE_VERIFY") \/ Return("ALGO_DATA_SEQ")
    BY <2>2 DEF Return, BlankAhead
  <2> QED BY <1>5, <2>1, <2>2 DEF FlashVerifyRead
<1> QED
  BY <1>0, <1>1, <1>2, <1>3, <1>4, <1>5
-----------------------------------------------------------------------------
(***************************************************************************)
(* What holds of the flash primitives under any use of them: FlashDirect's *)
(* user calls them in any order.                                           *)
(***************************************************************************)
CallType == [op : At \cup {"none"}, addr : Nat, data : Seq(Byte)]

(***************************************************************************)
(* Types.                                                                  *)
(***************************************************************************)
DirectTypeInv == TFInv /\ usable \in BOOLEAN /\ call \in CallType

LEMMA DirectTypeInit == DirectInit => DirectTypeInv
<1> SUFFICES ASSUME DirectInit PROVE DirectTypeInv
  OBVIOUS
<1>0. << >> \in Seq(Byte) /\ 0 \in Addr
  BY AddrNat
<1>1. McuTypeOK
  BY <1>0, DirectAssumption DEF DirectInit, McuInit, McuTypeOK
<1>2. DeviceTypeOK
  BY <1>0 DEF DirectInit, DeviceInit, DeviceTypeOK, Func
<1>3. FrameTypeOK /\ Loops
  BY <1>0 DEF DirectInit, DeviceInit, FrameTypeOK, Loops, At, Err
<1>4. usable \in BOOLEAN /\ call \in CallType
  BY <1>0 DEF DirectInit, NoCall, CallType
<1> QED
  BY <1>1, <1>2, <1>3, <1>4 DEF DirectTypeInv, TFInv, TFTypeOK

LEMMA CallsKeepsType ==
    ASSUME DirectTypeInv, NEW op \in {"init", "uninit", "algo_set", "erase", "program", "chip"},
           NEW a \in Nat, NEW d \in Seq(Byte), Calls(op, a, d), usable' \in BOOLEAN
    PROVE  DirectTypeInv'
BY StartCallKeeps DEF Calls, DirectTypeInv, CallType, At

\* A call starts one of the primitives with arguments of their types.
LEMMA UserCalls ==
    ASSUME DirectTypeInv, DirectUser
    PROVE  \E op \in {"init", "uninit", "algo_set", "erase", "program", "chip"} :
             \E a \in Nat, d \in Seq(Byte) :
               /\ Calls(op, a, d)
               /\ IF op \in {"init", "uninit"} THEN usable' = FALSE ELSE usable /\ UNCHANGED usable
<1>1. \A a \in Addr : a \in Nat
  BY AddrNat
<1>2. \A k \in Pieces : k.addr \in Nat /\ k.data \in Seq(Byte)
  BY DirectAssumption
<1>3. << >> \in Seq(Byte) /\ 0 \in Nat
  OBVIOUS
<1> QED
  BY <1>1, <1>2, <1>3 DEF DirectUser, OpenTarget, CloseTarget, SetAlgo, EraseAt, ProgramAt, EraseAll

LEMMA DirectTypeStep == DirectTypeInv /\ [DirectNext]_direct_vars => DirectTypeInv'
<1> SUFFICES ASSUME DirectTypeInv, [DirectNext]_direct_vars PROVE DirectTypeInv'
  OBVIOUS
<1>1. CASE DirectUser
  BY <1>1, UserCalls, CallsKeepsType DEF DirectTypeInv
<1>2. CASE Returned
  <2>1. TFInv'
    BY <1>2 DEF Returned, tf_vars, mcu, device, frame, DirectTypeInv, TFInv, TFTypeOK, McuTypeOK,
       DeviceTypeOK, FrameTypeOK, Loops
  <2> QED BY <1>2, <2>1 DEF Returned, DirectTypeInv, CallType, NoCall
<1>3. CASE DirectDevice
  BY <1>3, TFStepKeepsTypes DEF DirectDevice, DirectTypeInv
<1>4. CASE UNCHANGED direct_vars
  BY <1>4 DEF direct_vars, tf_vars, mcu, device, frame, DirectTypeInv, TFInv, TFTypeOK, McuTypeOK,
     DeviceTypeOK, FrameTypeOK, Loops
<1> QED
  BY <1>1, <1>2, <1>3, <1>4 DEF DirectNext

(***************************************************************************)
(* Every variable of the target, of TargetFlash and of a running call      *)
(* keeps its type, whatever the memory map and the order of the calls.     *)
(***************************************************************************)
THEOREM DirectTypes == DirectSpec => []DirectTypeOK
<1>1. DirectTypeInv => DirectTypeOK
  BY DEF DirectTypeInv, TFInv, DirectTypeOK, CallType
<1> QED
  BY <1>1, DirectTypeInit, DirectTypeStep, PTL DEF DirectSpec
-----------------------------------------------------------------------------
(***************************************************************************)
(* What is known of the target while a user goes on only after success:    *)
(* between calls and inside one, until something fails, the target is as   *)
(* the device believes.                                                    *)
(***************************************************************************)
Opened == at = "idle" /\ call.op = "init" /\ result = "NONE"

DirectInv ==
    /\ Funcs
    /\ usable => Healthy \/ (at = "idle" /\ result # "NONE")
    /\ Opened => Healthy
    /\ at \notin {"idle", "init", "uninit", "resume"} => usable
    /\ at \in {"uninit", "resume"} => ~usable
    /\ at \notin {"idle", "init"} => call.op # "init"
    /\ call = NoCall => at = "idle" /\ (usable => result = "NONE")

LEMMA DirectInvInit == DirectInit => DirectInv
BY DEF DirectInit, DeviceInit, McuInit, NoCall, DirectInv, Funcs, Exec, Opened

LEMMA DirectInvCall ==
    ASSUME DirectTypeInv, DirectInv, call = NoCall,
           NEW op \in {"init", "uninit", "algo_set", "erase", "program", "chip"},
           NEW a \in Nat, NEW d \in Seq(Byte), Calls(op, a, d),
           IF op \in {"init", "uninit"} THEN usable' = FALSE ELSE usable /\ UNCHANGED usable
    PROVE  DirectInv'
<1>1. Funcs' /\ (Healthy => Healthy')
  BY StartCallKeepsFuncs DEF Calls, DirectInv
<1>2. usable => Healthy
  BY DEF DirectInv
<1>3. /\ at' = op
      /\ call'.op = op
      /\ call' # NoCall
      /\ usable' = IF op \in {"init", "uninit"} THEN FALSE ELSE usable
  BY DEF Calls, StartCall, NoCall
<1> QED
  BY <1>1, <1>2, <1>3 DEF DirectInv, Opened

LEMMA DirectInvReturned ==
    ASSUME DirectTypeInv, DirectInv, Returned
    PROVE  DirectInv'
<1>1. Funcs' /\ (Healthy => Healthy')
  BY DEF Returned, tf_vars, mcu, device, frame, DirectInv, Funcs, Healthy, Exec, get_flash_algo,
     AlgoRegion
<1>2. /\ at' = "idle" /\ at = "idle" /\ result' = result
      /\ call' = NoCall
      /\ usable' <=> (call.op = "init" \/ usable) /\ result = "NONE"
  BY DEF Returned, tf_vars, frame
<1>3. call'.op = "none"
  BY <1>2 DEF NoCall
<1>4. usable' => Healthy
  BY <1>2 DEF DirectInv, Opened
<1> QED
  BY <1>1, <1>2, <1>3, <1>4 DEF DirectInv, Opened

\* Where a primitive goes on, and which one it is.
LEMMA DirectStepAt ==
    ASSUME TFStep
    PROVE  /\ at # "idle"
           /\ at = "init" => FlashInit
           /\ at \in {"uninit", "resume"} => at' \in {"idle", "resume"}
           /\ at \notin {"uninit", "resume"} => at' \notin {"uninit", "resume"}
           /\ at' = "init" => at = "chip"
BY DEF TFStep, FlashInit, FlashUninit, FlashResume, FlashAlgoSet, FlashErase, FlashEraseExec,
   FlashProgram, FlashPage, FlashProgramExec, FlashVerifyCall, FlashVerifyRead, FlashChipRegion,
   FlashChipAlgo, FlashChipStart, FlashChipExec, AlgoSet, AlgoDownload, FuncStart, GotoOr, Goto,
   Return, Advance

LEMMA DirectInvDevice ==
    ASSUME DirectTypeInv, DirectInv, DirectDevice
    PROVE  DirectInv'
<1>1. TFStep /\ usable' = usable /\ call' = call
  BY DEF DirectDevice
<1>2. Funcs'
  BY <1>1, TFStepKeepsFuncs DEF DirectInv
<1>3. CASE at = "init"
  <2>1. at' = "idle" /\ (result' = "NONE" => Healthy')
    BY <1>1, <1>3, DirectStepAt, FlashInitHealthy
  <2>2. call # NoCall
    BY <1>3 DEF DirectInv
  <2> QED BY <1>1, <1>2, <2>1, <2>2 DEF DirectInv, Opened
<1>4. CASE at \in {"uninit", "resume"}
  <2>1. at' \in {"idle", "resume"}
    BY <1>1, <1>4, DirectStepAt
  <2>2. ~usable /\ call.op # "init" /\ call # NoCall
    BY <1>4 DEF DirectInv
  <2> QED BY <1>1, <1>2, <2>1, <2>2 DEF DirectInv, Opened
<1>5. CASE at \notin {"init", "uninit", "resume"}
  <2>1. at # "idle" /\ at' \notin {"uninit", "resume"}
    BY <1>1, <1>5, DirectStepAt
  <2>2. usable /\ call.op # "init" /\ call # NoCall
    BY <1>5, <2>1 DEF DirectInv
  <2>3. Healthy' \/ (at' = "idle" /\ result' # "NONE")
    BY <1>1, <1>5, <2>1, <2>2, TFStepKeepsHealthy DEF DirectInv
  <2> QED BY <1>1, <1>2, <2>1, <2>2, <2>3 DEF DirectInv, Opened
<1> QED
  BY <1>3, <1>4, <1>5

LEMMA DirectInvStep == DirectTypeInv /\ DirectInv /\ [DirectNext]_direct_vars => DirectInv'
<1> SUFFICES ASSUME DirectTypeInv, DirectInv, [DirectNext]_direct_vars PROVE DirectInv'
  OBVIOUS
<1>1. CASE call = NoCall /\ DirectUser
  BY <1>1, UserCalls, DirectInvCall
<1>2. CASE Returned
  BY <1>2, DirectInvReturned
<1>3. CASE DirectDevice
  BY <1>3, DirectInvDevice
<1>4. CASE UNCHANGED direct_vars
  BY <1>4 DEF direct_vars, tf_vars, mcu, device, frame, DirectInv, Funcs, Healthy, Exec, Opened,
     get_flash_algo, AlgoRegion
<1> QED
  BY <1>1, <1>2, <1>3, <1>4 DEF DirectNext

LEMMA DirectInvariant == DirectSpec => [](DirectTypeInv /\ DirectInv)
BY DirectTypeInit, DirectTypeStep, DirectInvInit, DirectInvStep, PTL DEF DirectSpec

(***************************************************************************)
(* No function of an algorithm is called that is not there: neither the    *)
(* erase and program functions nor the UnInit that closes them, for every  *)
(* memory map, whatever fails and in whatever order the primitives are     *)
(* used.                                                                   *)
(***************************************************************************)
THEOREM DirectSyscalls == DirectSpec => []SyscallReady
<1>1. DirectTypeInv /\ DirectInv => SyscallReady
  <2> SUFFICES ASSUME DirectTypeInv, DirectInv PROVE SyscallReady
    OBVIOUS
  <2>1. CallsFunction => Callable(current_algo)
    <3> SUFFICES ASSUME CallsFunction PROVE Callable(current_algo)
      OBVIOUS
    <3>1. at \in Exec /\ Healthy
      BY DEF CallsFunction, DirectInv, Exec
    <3> QED BY <3>1, HealthyCallable DEF DirectInv
  <2>2. CallsUnInit => resident = current_algo
    BY DEF CallsUnInit, DirectInv, Funcs
  <2> QED BY <2>1, <2>2 DEF SyscallReady
<1> QED
  BY <1>1, DirectInvariant, PTL

(***************************************************************************)
(* When a primitive has succeeded on a target without a failure, what      *)
(* TargetFlash believes of it is so: the core is halted, the current       *)
(* algorithm is the resident one, and a function that is open has its Init *)
(* done.                                                                   *)
(***************************************************************************)
THEOREM DirectInStep == DirectSpec => []InStep
<1>1. DirectTypeInv /\ DirectInv => InStep
  <2> SUFFICES ASSUME DirectTypeInv, DirectInv, usable, at = "idle", result = "NONE"
               PROVE  /\ core = "halted"
                      /\ resident = current_algo
                      /\ last_func # "NOP" <=> prepared # NoAlgo
                      /\ flash_cfg /\ tf_state = "OPEN"
    BY DEF InStep
  <2>1. Healthy
    BY DEF DirectInv
  <2> QED BY <2>1 DEF Healthy
<1> QED
  BY <1>1, DirectInvariant, PTL
-----------------------------------------------------------------------------
(***************************************************************************)
(* The contents of the flash.  The steps that run belong to the call that  *)
(* was made, with its arguments, and what they have done so far is known;  *)
(* when the call has succeeded it has done it all.                         *)
(***************************************************************************)
Running(op) == call.op = op /\ at # "idle"

OwnSteps == at # "idle" => call.op \in DOMAIN StepsOf /\ at \in StepsOf[call.op]

ProgramData ==
    /\ Running("program") => Programming(call.addr, call.data)
    /\ ProgramIsVerified

EraseData ==
    /\ Running("erase") => addr = call.addr
    /\ Running("chip") => ChipErasing
    /\ EraseIsComplete

LEMMA OwnInit == DirectInit => OwnSteps /\ ProgramData /\ EraseData
BY DEF DirectInit, DeviceInit, NoCall, OwnSteps, ProgramData, EraseData, Running, Succeeded,
   ProgramIsVerified, EraseIsComplete

\* A call that starts: nothing is done, everything is left.
LEMMA OwnCall ==
    ASSUME DirectTypeInv, call = NoCall,
           NEW op \in {"init", "uninit", "algo_set", "erase", "program", "chip"},
           NEW a \in Nat, NEW d \in Seq(Byte), Calls(op, a, d)
    PROVE  OwnSteps' /\ ProgramData' /\ EraseData'
<1>1. /\ at' = op /\ addr' = a /\ buf' = d /\ region' = 1
      /\ call' = [op |-> op, addr |-> a, data |-> d]
  BY DEF Calls, StartCall
<1>2. call'.op = op /\ call'.addr = a /\ call'.data = d /\ Len(d) \in Nat
  BY <1>1
<1>3. OwnSteps'
  BY <1>1, <1>2 DEF OwnSteps, StepsOf, InProgram, InErase, InChip
<1>4. op = "program" => Programming(call.addr, call.data)'
  BY <1>1, <1>2 DEF Programming, Done
<1>5. op = "chip" => ChipErasing'
  BY <1>1, LayoutAssumption DEF ChipErasing
<1> QED
  BY <1>1, <1>2, <1>3, <1>4, <1>5 DEF ProgramData, EraseData, Running, ProgramIsVerified,
     EraseIsComplete, Succeeded

LEMMA OwnReturned ==
    ASSUME Returned
    PROVE  OwnSteps' /\ ProgramData' /\ EraseData'
BY DEF Returned, tf_vars, frame, NoCall, OwnSteps, ProgramData, EraseData, Running, Succeeded,
   ProgramIsVerified, EraseIsComplete

LEMMA OwnStepsDevice ==
    ASSUME OwnSteps, DirectDevice
    PROVE  OwnSteps' /\ at # "idle"
<1>1. TFStep /\ call' = call /\ at # "idle"
  BY DirectStepAt DEF DirectDevice
<1>2. call.op \in DOMAIN StepsOf /\ at \in StepsOf[call.op]
  BY <1>1 DEF OwnSteps
<1> QED
  BY <1>1, <1>2, TFStepStays DEF OwnSteps

LEMMA ProgramDevice ==
    ASSUME DirectTypeInv, OwnSteps, ProgramData, DirectDevice
    PROVE  ProgramData'
<1>1. TFStep /\ call' = call /\ OwnSteps' /\ at # "idle" /\ TFInv
  BY OwnStepsDevice DEF DirectDevice, DirectTypeInv
<1>2. CASE call.op # "program"
  BY <1>1, <1>2 DEF ProgramData, Running, ProgramIsVerified, Succeeded
<1>3. CASE call.op = "program"
  <2>1. at \in InProgram /\ (at' # "idle" => at' \in InProgram)
    BY <1>1, <1>3 DEF OwnSteps, StepsOf
  <2>2. PICK a \in Nat, d \in Seq(Byte) : a = call.addr /\ d = call.data
    BY DEF DirectTypeInv, CallType
  <2>3. Programming(a, d)
    BY <1>1, <1>3, <2>2 DEF ProgramData, Running
  <2>4. /\ at' \in InProgram => Programming(a, d)'
        /\ at' = "idle" /\ result' = "NONE" => Holds(a, d)'
    BY <1>1, <2>1, <2>3, ProgramSteps
  <2> QED
    BY <1>1, <2>1, <2>2, <2>4 DEF ProgramData, Running, ProgramIsVerified, Succeeded,
       Programming, Done, Holds
<1> QED
  BY <1>2, <1>3

LEMMA EraseDevice ==
    ASSUME RegionsFound, DirectTypeInv, OwnSteps, EraseData, DirectDevice
    PROVE  EraseData'
<1>1. TFStep /\ call' = call /\ OwnSteps' /\ at # "idle" /\ TFInv
  BY OwnStepsDevice DEF DirectDevice, DirectTypeInv
<1>2. CASE call.op = "erase"
  <2>1. at \in InErase /\ (at' # "idle" => at' \in InErase) /\ addr = call.addr
    BY <1>1, <1>2 DEF OwnSteps, StepsOf, EraseData, Running
  <2>2. PICK a \in Nat : a = call.addr
    BY DEF DirectTypeInv, CallType
  <2>3. /\ at' \in InErase => addr' = a
        /\ at' = "idle" /\ result' = "NONE" => \A x \in SectorCells(a) : flash'[x] = FF
    BY <1>1, <2>1, <2>2, EraseSteps
  <2> QED
    BY <1>1, <1>2, <2>1, <2>2, <2>3 DEF EraseData, Running, EraseIsComplete, Succeeded
<1>3. CASE call.op = "chip"
  <2>1. at \in InChip /\ (at' # "idle" => at' \in InChip) /\ ChipErasing
    BY <1>1, <1>3 DEF OwnSteps, StepsOf, EraseData, Running
  <2>2. /\ at' \in InChip => ChipErasing'
        /\ at' = "idle" /\ result' = "NONE" => \A i \in DOMAIN Regions : Blanked(i)'
    BY <1>1, <2>1, ChipSteps
  <2> QED
    BY <1>1, <1>3, <2>1, <2>2 DEF EraseData, Running, EraseIsComplete, Succeeded, Blanked
<1>4. CASE call.op \notin {"erase", "chip"}
  BY <1>1, <1>4 DEF EraseData, Running, EraseIsComplete, Succeeded
<1> QED
  BY <1>2, <1>3, <1>4

LEMMA DataUnchanged ==
    ASSUME UNCHANGED direct_vars
    PROVE  /\ OwnSteps => OwnSteps'
           /\ ProgramData => ProgramData'
           /\ EraseData => EraseData'
BY DEF direct_vars, tf_vars, mcu, device, frame, OwnSteps, ProgramData, EraseData, Running, Succeeded,
   ProgramIsVerified, EraseIsComplete, Programming, Done, AtBuffer, Holds, ChipErasing, Blanked,
   get_flash_algo, AlgoRegion

LEMMA ProgramDataStep ==
    DirectTypeInv /\ OwnSteps /\ ProgramData /\ [DirectNext]_direct_vars => OwnSteps' /\ ProgramData'
<1> SUFFICES ASSUME DirectTypeInv, OwnSteps, ProgramData, [DirectNext]_direct_vars
             PROVE  OwnSteps' /\ ProgramData'
  OBVIOUS
<1>1. CASE call = NoCall /\ DirectUser
  BY <1>1, UserCalls, OwnCall
<1>2. CASE Returned
  BY <1>2, OwnReturned
<1>3. CASE DirectDevice
  BY <1>3, OwnStepsDevice, ProgramDevice
<1>4. CASE UNCHANGED direct_vars
  BY <1>4, DataUnchanged
<1> QED
  BY <1>1, <1>2, <1>3, <1>4 DEF DirectNext

LEMMA EraseDataStep ==
    ASSUME RegionsFound
    PROVE  DirectTypeInv /\ OwnSteps /\ EraseData /\ [DirectNext]_direct_vars => EraseData'
<1> SUFFICES ASSUME DirectTypeInv, OwnSteps, EraseData, [DirectNext]_direct_vars
             PROVE  EraseData'
  OBVIOUS
<1>1. CASE call = NoCall /\ DirectUser
  BY <1>1, UserCalls, OwnCall
<1>2. CASE Returned
  BY <1>2, OwnReturned
<1>3. CASE DirectDevice
  BY <1>3, EraseDevice
<1>4. CASE UNCHANGED direct_vars
  BY <1>4, DataUnchanged
<1> QED
  BY <1>1, <1>2, <1>3, <1>4 DEF DirectNext

LEMMA ProgramInvariant == DirectSpec => [](DirectTypeInv /\ OwnSteps /\ ProgramData)
BY DirectTypeInit, DirectTypeStep, OwnInit, ProgramDataStep, PTL DEF DirectSpec

(***************************************************************************)
(* flash_program_page reports success only when the flash holds the data,  *)
(* for any address, any data and any contents of the flash before: over    *)
(* any number of pages of any size, verified by the algorithm or read back *)
(* in chunks of any size.                                                  *)
(***************************************************************************)
THEOREM DirectProgram == DirectSpec => []ProgramIsVerified
<1>1. ProgramData => ProgramIsVerified
  BY DEF ProgramData
<1> QED
  BY <1>1, ProgramInvariant, PTL

(***************************************************************************)
(* An erase that reports success has erased the sector, and a chip erase   *)
(* what the algorithms of all regions cover, for every table in which the  *)
(* algorithm of a region is found at its start.                            *)
(***************************************************************************)
THEOREM DirectErase ==
    ASSUME RegionsFound
    PROVE  DirectSpec => []EraseIsComplete
<1>1. EraseData => EraseIsComplete
  BY DEF EraseData
<1> QED
  BY <1>1, DirectTypeInit, DirectTypeStep, OwnInit, ProgramDataStep, EraseDataStep, PTL DEF DirectSpec

-----------------------------------------------------------------------------
(***************************************************************************)
(* The flash accessor.                                                     *)
(***************************************************************************)

Setting == {"setup", "setup_algo", "setup_undo"}
Flushing == {"flush", "compare", "erase", "erase_undo", "write", "flushed"}

\* Inside the loop of write, and in the helpers it calls.
InBlock(p) == block_addr = ROUND_DOWN(p, block_size)

(***************************************************************************)
(* The geometry of the buffer.  It is what the types rest on (the size of  *)
(* a copy is the rest of the block after the packet's address) and what    *)
(* keeps the copy inside the buffer.                                       *)
(***************************************************************************)
Geometry ==
    /\ block_size = sector_size
    /\ block_size # 0 => Len(page) = block_size
    /\ state = "OPEN" /\ sector_valid /\ pc = "idle" => block_size # 0 /\ InBlock(last_packet)
    /\ pc = "init" => ~sector_valid
    /\ pc = "block" => InBlock(last_packet)
    /\ pc \in {"valid", "block", "sector", "loop", "more", "copy", "setup_algo"} => block_size # 0
    /\ pc \in {"valid", "sector", "more", "copy", "setup_algo"} => InBlock(packet)
    /\ pc = "loop" => /\ block_addr <= packet
                      /\ packet < block_addr + block_size => InBlock(packet)
    /\ pc \in Flushing /\ back_to # "close" =>
         block_size # 0 /\ flush_to = packet /\ back_to \in {"sector", "more"}
    /\ pc \in Flushing /\ back_to = "close" => flush_to = 0
    /\ pc \in Setting => back_to \in {"valid", "loop", "copy"}
    /\ pc \in {"valid", "block", "sector", "loop", "more", "copy"} \cup Setting => state = "OPEN"
    /\ pc \in {"block", "sector", "loop", "more", "copy"} => sector_valid
    /\ pc \in Flushing /\ back_to # "close" => sector_valid /\ state = "OPEN"
    /\ pc \in Setting /\ back_to # "valid" => sector_valid

TypeInv == TFInv /\ AccTypeOK /\ HistoryTypeOK /\ Geometry

-----------------------------------------------------------------------------
LEMMA FillType ==
    ASSUME NEW n \in Nat
    PROVE  Fill(n) \in Seq(Byte) /\ Len(Fill(n)) = n
<1>1. FF \in Byte
  BY LayoutAssumption
<1> QED
  BY <1>1 DEF Fill

LEMMA BaseType ==
    ASSUME NEW a \in Nat
    PROVE  Base(a) \in Nat
BY SectorSizeType, RoundDown DEF Base

\* What an accepted packet makes of the history has the history's types.
LEMMA HistoryAfter ==
    ASSUME NEW p \in Nat, NEW d \in Seq(Byte), HistoryTypeOK
    PROVE  /\ ImageAfter(image, open, p, d) \in [Addr -> Byte \cup {Unset}]
           /\ OpenAfter(open, p, d) \in Nat \cup {NoSector}
           /\ SectorsOf(p, d) \subseteq Nat
<1>1. Len(d) \in Nat /\ p + Len(d) \in Nat
  OBVIOUS
<1>2. ASSUME NEW a \in Addr, a \in Covered(p, d) PROVE d[a - p + 1] \in Byte
  <2>1. a - p + 1 \in 1 .. Len(d)
    BY <1>1, <1>2, AddrNat DEF Covered
  <2> QED BY <2>1
<1>3. FF \in Byte
  BY LayoutAssumption
<1>4. ImageAfter(image, open, p, d) \in [Addr -> Byte \cup {Unset}]
  BY <1>2, <1>3 DEF ImageAfter, HistoryTypeOK
<1>5. OpenAfter(open, p, d) \in Nat \cup {NoSector}
  BY <1>1, BaseType DEF OpenAfter, HistoryTypeOK
<1>6. SectorsOf(p, d) \subseteq Nat
  <2>1. \A a \in Covered(p, d) \cup {p} : a \in Nat
    BY <1>1 DEF Covered
  <2> QED BY <2>1, BaseType DEF SectorsOf
<1> QED
  BY <1>4, <1>5, <1>6

\* Forgetting the history keeps its types.
LEMMA ForgetType ==
    ASSUME Forget, outcome' \in {"none", "ok", "failed"}
    PROVE  HistoryTypeOK'
<1>1. << >> \in Seq(Byte)
  OBVIOUS
<1> QED
  BY <1>1 DEF Forget, HistoryTypeOK, NoPacket, Blank, NoSector

\* Unchanged parts keep their types.
LEMMA TFUnchanged ==
    ASSUME TFInv, UNCHANGED tf_vars
    PROVE  TFInv'
BY DEF tf_vars, mcu, device, frame, TFInv, TFTypeOK, McuTypeOK, DeviceTypeOK, FrameTypeOK, Loops

LEMMA HistoryUnchanged ==
    ASSUME HistoryTypeOK, UNCHANGED history
    PROVE  HistoryTypeOK'
BY DEF history, HistoryTypeOK

\* The accessor's calls of the primitives.
LEMMA AccCalls ==
    ASSUME TFInv, NEW a \in Nat, NEW d \in Seq(Byte)
    PROVE  /\ CallFlashInit => TFInv'
           /\ CallFlashUninit => TFInv'
           /\ CallAlgoSet(a) => TFInv'
           /\ CallEraseSector(a) => TFInv'
           /\ CallProgramPage(a, d) => TFInv'
<1>1. << >> \in Seq(Byte) /\ 0 \in Nat
  OBVIOUS
<1> QED
  BY <1>1, StartCallKeeps DEF CallFlashInit, CallFlashUninit, CallAlgoSet, CallEraseSector,
     CallProgramPage

LEMMA TypeInit == Init => TypeInv
<1> SUFFICES ASSUME Init PROVE TypeInv
  OBVIOUS
<1>0. << >> \in Seq(Byte) /\ 0 \in Addr
  BY AddrNat
<1>1. McuTypeOK
  BY <1>0, UserAssumption DEF Init, McuInit, McuTypeOK
<1>2. DeviceTypeOK
  BY <1>0 DEF Init, DeviceInit, DeviceTypeOK, Func
<1>3. FrameTypeOK /\ Loops
  BY <1>0 DEF Init, DeviceInit, FrameTypeOK, Loops, At, Err
<1>4. AccTypeOK
  BY <1>0 DEF Init, AccInit, AccTypeOK, Pc, Err
<1>5. HistoryTypeOK
  BY <1>0 DEF Init, HistoryInit, HistoryTypeOK, NoPacket, Blank, NoSector
<1>6. Geometry
  BY DEF Init, AccInit, Geometry, Setting, Flushing
<1> QED
  BY <1>1, <1>2, <1>3, <1>4, <1>5, <1>6 DEF TypeInv, TFInv, TFTypeOK

\* What the types of the accessor rest on when a call fails or ends.
LEMMA ReturnKeeps ==
    ASSUME AccTypeOK, NEW err \in Err, AccReturn(err),
           sector_valid' \in BOOLEAN, last_packet' \in Nat, block_addr' \in Nat,
           block_size' \in Nat, sector_addr' \in Nat, sector_size' \in Nat,
           page_empty' \in BOOLEAN, page' \in Seq(Byte),
           state' \in {"CLOSED", "OPEN", "ERROR"}
    PROVE  AccTypeOK'
<1>1. << >> \in Seq(Byte)
  OBVIOUS
<1> QED
  BY <1>1 DEF AccReturn, AccTypeOK, Pc, Err

LEMMA WriteFailsKeeps ==
    ASSUME AccTypeOK, HistoryTypeOK, block_size = sector_size,
           block_size # 0 => Len(page) = block_size, NEW err \in Err, WriteFails(err),
           UNCHANGED <<sector_valid, last_packet, block_size, sector_addr, sector_size>>,
           block_addr' \in Nat, page_empty' \in BOOLEAN,
           page' \in {page, Fill(block_size)}
    PROVE  AccTypeOK' /\ HistoryTypeOK' /\ Geometry'
<1>1. page' \in Seq(Byte) /\ (block_size' # 0 => Len(page') = block_size')
  BY FillType DEF AccTypeOK
<1>2. AccTypeOK'
  BY <1>1, ReturnKeeps DEF WriteFails, AccTypeOK
<1>3. HistoryTypeOK'
  BY ForgetType DEF WriteFails, HistoryTypeOK
<1>4. Geometry'
  BY <1>1 DEF WriteFails, AccReturn, Geometry, Setting, Flushing
<1> QED
  BY <1>2, <1>3, <1>4

\* A step that only moves pc, with the primitives and the sector as they are.
LEMMA SetupKeeps ==
    ASSUME TypeInv, Setup \/ SetupAlgo \/ SetupUndo
    PROVE  TypeInv'
<1>0. TFInv /\ AccTypeOK /\ HistoryTypeOK /\ Geometry
  BY DEF TypeInv
<1>1. CASE Setup
  <2> DEFINE size == flash_erase_sector_size(packet)
  <2>1. size \in Nat /\ packet \in Nat
    BY <1>0, SectorSizeType DEF AccTypeOK
  <2>2. CASE size = 0
    <3>1. /\ WriteFails("INTERNAL")
          /\ UNCHANGED <<tf_vars, sector_valid, last_packet, block_addr, block_size, sector_addr,
                         sector_size, page_empty, page>>
      BY <1>1, <2>2 DEF Setup
    <3>2. AccTypeOK' /\ HistoryTypeOK' /\ Geometry'
      BY <1>0, <3>1, WriteFailsKeeps DEF Err, AccTypeOK, Geometry
    <3> QED BY <1>0, <3>1, <3>2, TFUnchanged DEF TypeInv
  <2>3. CASE size # 0
    <3>1. /\ sector_addr' = ROUND_DOWN(packet, size) /\ sector_size' = size
          /\ block_addr' = ROUND_DOWN(packet, size) /\ block_size' = size
          /\ page' = IF block_size = size THEN page ELSE Fill(size)
          /\ CallAlgoSet(ROUND_DOWN(packet, size))
          /\ Jump("setup_algo")
          /\ UNCHANGED <<history, state, sector_valid, last_packet, page_empty>>
      BY <1>1, <2>3 DEF Setup
    <3>2. ROUND_DOWN(packet, size) \in Nat
      BY <2>1, <2>3, RoundDown
    <3>3. page' \in Seq(Byte) /\ Len(page') = size
      BY <1>0, <2>1, <2>3, <3>1, FillType DEF AccTypeOK, Geometry
    <3>4. TFInv'
      <4>1. << >> \in Seq(Byte)  OBVIOUS
      <4> QED BY <1>0, <3>1, <3>2, <4>1, AccCalls
    <3>5. AccTypeOK'
      BY <1>0, <2>1, <3>1, <3>2, <3>3 DEF AccTypeOK, Jump, Pc
    <3>6. HistoryTypeOK'
      BY <1>0, <3>1, HistoryUnchanged
    <3>7. Geometry'
      BY <1>0, <1>1, <2>3, <3>1, <3>3 DEF Geometry, Jump, Setup, Setting, Flushing, InBlock
    <3> QED BY <3>4, <3>5, <3>6, <3>7 DEF TypeInv
  <2> QED BY <2>2, <2>3
<1>2. CASE SetupAlgo
  <2>1. HistoryTypeOK'
    BY <1>0, <1>2, HistoryUnchanged DEF SetupAlgo
  <2>2. CASE result = "NONE"
    <3>1. /\ pc = "setup_algo" /\ page' = Fill(block_size) /\ Jump(back_to) /\ UNCHANGED tf_vars
          /\ UNCHANGED <<state, sector_valid, last_packet, block_addr, block_size, sector_addr,
                         sector_size, page_empty>>
      BY <1>2, <2>2 DEF SetupAlgo
    <3>2. page' \in Seq(Byte) /\ Len(page') = block_size
      BY <1>0, <3>1, FillType DEF AccTypeOK
    <3>3. back_to \in {"valid", "loop", "copy"}
      BY <1>0, <3>1 DEF Geometry, Setting
    <3>4. AccTypeOK'
      BY <1>0, <3>1, <3>2, <3>3 DEF AccTypeOK, Jump, Pc
    <3>5. block_addr <= packet
      BY <1>0, <3>1, RoundDown DEF AccTypeOK, Geometry, InBlock
    <3>6. Geometry'
      BY <1>0, <3>1, <3>2, <3>3, <3>5 DEF Geometry, Jump, Setting, Flushing, InBlock
    <3> QED BY <1>0, <2>1, <3>1, <3>4, <3>6, TFUnchanged DEF TypeInv
  <2>3. CASE result # "NONE"
    <3>1. /\ CallFlashUninit /\ pc' = "setup_undo" /\ pc = "setup_algo"
          /\ status' = result
          /\ UNCHANGED <<page, packet, data, flush_to, back_to, acc_result>>
          /\ UNCHANGED <<state, sector_valid, last_packet, block_addr, block_size, sector_addr,
                         sector_size, page_empty>>
      BY <1>2, <2>3 DEF SetupAlgo
    <3>2. result \in Err
      BY <1>0 DEF TFInv, TFTypeOK, FrameTypeOK
    <3>3. AccTypeOK'
      BY <1>0, <3>1, <3>2 DEF AccTypeOK, Pc
    <3>4. Geometry'
      BY <1>0, <3>1 DEF Geometry, Setting, Flushing, InBlock
    <3>5. TFInv'
      <4>1. << >> \in Seq(Byte) /\ 0 \in Nat  OBVIOUS
      <4> QED BY <1>0, <3>1, <4>1, AccCalls
    <3> QED BY <2>1, <3>3, <3>4, <3>5 DEF TypeInv
  <2> QED BY <2>2, <2>3
<1>3. CASE SetupUndo
  <2>1. AccTypeOK' /\ HistoryTypeOK' /\ Geometry'
    BY <1>0, <1>3, WriteFailsKeeps DEF SetupUndo, AccTypeOK, Geometry
  <2> QED BY <1>0, <1>3, <2>1, TFUnchanged DEF SetupUndo, TypeInv
<1> QED
  BY <1>1, <1>2, <1>3

\* The steps of flush_current_block.
LEMMA FlushKeeps ==
    ASSUME TypeInv, Flush \/ Compare \/ EraseDone \/ EraseUndo \/ WriteDone
    PROVE  TypeInv'
<1>0. TFInv /\ AccTypeOK /\ HistoryTypeOK /\ Geometry
  BY DEF TypeInv
<1>1. UNCHANGED sector /\ HistoryTypeOK'
  BY <1>0, HistoryUnchanged DEF Flush, Compare, EraseDone, EraseUndo, WriteDone
<1>2. /\ pc \in Flushing /\ pc' \in Flushing
      /\ UNCHANGED <<packet, data, flush_to, back_to, acc_result>>
      /\ status' \in {status, result, "ALGO_DATA_SEQ"}
  BY DEF Flush, Compare, EraseDone, EraseUndo, WriteDone, Jump, FlushWith, Flushing
<1>3. status' \in Err
  BY <1>0, <1>2 DEF AccTypeOK, Err, TFInv, TFTypeOK, FrameTypeOK
<1>4. AccTypeOK'
  BY <1>0, <1>1, <1>2, <1>3 DEF AccTypeOK, sector, Pc, Flushing
<1>5. Geometry'
  BY <1>0, <1>1, <1>2 DEF Geometry, sector, Setting, Flushing, InBlock
<1>6. \/ UNCHANGED tf_vars
      \/ CallProgramPage(block_addr, page)
      \/ CallEraseSector(sector_addr)
      \/ CallFlashUninit
  BY DEF Flush, Compare, EraseDone, EraseUndo, WriteDone
<1>7. TFInv'
  <2>1. block_addr \in Nat /\ sector_addr \in Nat /\ page \in Seq(Byte)
    BY <1>0 DEF AccTypeOK
  <2> QED BY <1>0, <1>6, <2>1, AccCalls, TFUnchanged
<1> QED
  BY <1>1, <1>4, <1>5, <1>7 DEF TypeInv

LEMMA FlushedKeeps ==
    ASSUME TypeInv, Flushed
    PROVE  TypeInv'
<1>0. TFInv /\ AccTypeOK /\ HistoryTypeOK /\ Geometry
  BY DEF TypeInv
<1> DEFINE err == IF block_size = 0 THEN "INTERNAL" ELSE status
<1>1. /\ pc = "flushed"
      /\ page_empty' = TRUE /\ page' = Fill(block_size)
      /\ block_addr' = IF block_size = 0 THEN block_addr ELSE ROUND_DOWN(flush_to, block_size)
      /\ IF back_to # "close" /\ err # "NONE"
         THEN WriteFails(err)
         ELSE FlushWith(err, back_to) /\ UNCHANGED <<state, history>>
      /\ UNCHANGED <<tf_vars, sector_valid, last_packet, block_size, sector_addr, sector_size>>
  BY DEF Flushed
<1>2. err \in Err
  BY <1>0 DEF AccTypeOK, Err
<1>3. block_addr' \in Nat
  BY <1>0, <1>1, RoundDown DEF AccTypeOK
<1>4. page' \in Seq(Byte) /\ Len(page') = block_size
  BY <1>0, <1>1, FillType DEF AccTypeOK
<1>5. CASE back_to # "close" /\ err # "NONE"
  <2>1. WriteFails(err)
    BY <1>1, <1>5
  <2>2. AccTypeOK' /\ HistoryTypeOK' /\ Geometry'
    BY <1>0, <1>1, <1>2, <1>3, <2>1, WriteFailsKeeps DEF Geometry
  <2> QED BY <1>0, <1>1, <2>2, TFUnchanged DEF TypeInv
<1>6. CASE ~(back_to # "close" /\ err # "NONE")
  <2>1. FlushWith(err, back_to) /\ UNCHANGED <<state, history>>
    BY <1>1, <1>6
  <2> HIDE DEF err
  <2>2. AccTypeOK'
    BY <1>0, <1>1, <1>2, <1>3, <1>4, <2>1 DEF FlushWith, AccTypeOK, Pc
  <2>3. Geometry'
    <3>1. CASE back_to = "close"
      BY <1>0, <1>1, <1>4, <2>1, <3>1 DEF FlushWith, Geometry, Setting, Flushing
    <3>2. CASE back_to # "close"
      BY <1>0, <1>1, <1>4, <2>1, <3>2 DEF FlushWith, Geometry, Setting, Flushing, InBlock
    <3> QED BY <3>1, <3>2
  <2> QED BY <1>0, <1>1, <2>1, <2>2, <2>3, TFUnchanged, HistoryUnchanged DEF TypeInv
<1> QED
  BY <1>5, <1>6

\* The steps of write that copy nothing.
LEMMA LoopKeeps ==
    ASSUME TypeInv, Valid \/ CheckBlock \/ CheckSector \/ LoopFlush \/ LoopSector
    PROVE  TypeInv'
<1>0. TFInv /\ AccTypeOK /\ HistoryTypeOK /\ Geometry
  BY DEF TypeInv
<1>1. TFInv' /\ HistoryTypeOK'
  BY <1>0, TFUnchanged, HistoryUnchanged DEF Valid, CheckBlock, CheckSector, LoopFlush, LoopSector
<1>2. CASE Valid
  <2>1. AccTypeOK'
    BY <1>0, <1>2 DEF Valid, Jump, AccTypeOK, Pc
  <2>2. Geometry'
    BY <1>0, <1>2 DEF Valid, Jump, Geometry, Setting, Flushing, InBlock
  <2> QED BY <1>1, <2>1, <2>2 DEF TypeInv
<1>3. CASE CheckBlock
  <2>1. AccTypeOK'
    BY <1>0, <1>3 DEF CheckBlock, Jump, Gosub, AccTypeOK, Pc, sector
  <2>2. Geometry'
    BY <1>0, <1>3 DEF CheckBlock, Jump, Gosub, Geometry, Setting, Flushing, InBlock, sector
  <2> QED BY <1>1, <2>1, <2>2 DEF TypeInv
<1>4. CASE CheckSector
  <2>1. AccTypeOK'
    BY <1>0, <1>4 DEF CheckSector, Jump, Gosub, AccTypeOK, Pc, sector
  <2>2. block_addr <= packet
    BY <1>0, <1>4, RoundDown DEF CheckSector, AccTypeOK, Geometry, InBlock
  <2>3. Geometry'
    BY <1>0, <1>4, <2>2 DEF CheckSector, Jump, Gosub, Geometry, Setting, Flushing, InBlock, sector
  <2> QED BY <1>1, <2>1, <2>3 DEF TypeInv
<1>5. CASE LoopFlush
  <2>1. AccTypeOK'
    BY <1>0, <1>5 DEF LoopFlush, Jump, Gosub, AccTypeOK, Pc, sector
  <2>2. ~(packet >= block_addr + block_size) => packet < block_addr + block_size
    BY <1>0 DEF AccTypeOK
  <2>3. Geometry'
    BY <1>0, <1>5, <2>2 DEF LoopFlush, Jump, Gosub, Geometry, Setting, Flushing, InBlock, sector
  <2> QED BY <1>1, <2>1, <2>3 DEF TypeInv
<1>6. CASE LoopSector
  <2>1. AccTypeOK'
    BY <1>0, <1>6 DEF LoopSector, Jump, Gosub, AccTypeOK, Pc, sector
  <2>2. Geometry'
    BY <1>0, <1>6 DEF LoopSector, Jump, Gosub, Geometry, Setting, Flushing, InBlock, sector
  <2> QED BY <1>1, <2>1, <2>2 DEF TypeInv
<1> QED
  BY <1>2, <1>3, <1>4, <1>5, <1>6

\* When bytes are copied the packet's address is in the block, and the
\* buffer is as long as the block.
LEMMA CopyBounds ==
    ASSUME TypeInv, pc = "copy"
    PROVE  /\ block_addr <= packet /\ packet < block_addr + block_size
           /\ Len(page) = block_size
           /\ CopySize \in Nat /\ CopySize <= Len(data)
           /\ packet - block_addr + CopySize <= block_size
<1>1. /\ packet \in Nat /\ block_addr \in Nat /\ block_size \in Nat \ {0}
      /\ block_addr = ROUND_DOWN(packet, block_size)
      /\ Len(page) = block_size
      /\ Len(data) \in Nat
  BY DEF TypeInv, AccTypeOK, Geometry, InBlock
<1>2. block_addr <= packet /\ packet < block_addr + block_size
  BY <1>1, RoundDown
<1> QED
  BY <1>1, <1>2 DEF CopySize, Smaller

LEMMA CopyKeeps ==
    ASSUME TypeInv, Copy
    PROVE  TypeInv'
<1>0. TFInv /\ AccTypeOK /\ HistoryTypeOK /\ Geometry /\ pc = "copy"
  BY DEF TypeInv, Copy
<1> DEFINE start == packet - block_addr
           n == CopySize
<1>1. /\ block_addr <= packet /\ packet < block_addr + block_size /\ Len(page) = block_size
      /\ n \in Nat /\ n <= Len(data) /\ start + n <= block_size
  BY <1>0, CopyBounds
<1>2. /\ page' = [i \in 1 .. block_size |->
                     IF start < i /\ i <= start + n THEN data[i - start] ELSE page[i]]
      /\ page_empty' = (n = 0)
      /\ packet' = packet + n
      /\ data' = SubSeq(data, n + 1, Len(data))
      /\ pc' = "loop"
      /\ UNCHANGED <<tf_vars, history, state, sector_valid, last_packet, block_addr, block_size,
                     sector_addr, sector_size, flush_to, back_to, status, acc_result>>
  BY DEF Copy
<1>3. /\ packet \in Nat /\ block_addr \in Nat /\ block_size \in Nat \ {0}
      /\ data \in Seq(Byte) /\ page \in Seq(Byte) /\ Len(data) \in Nat
  BY <1>0 DEF AccTypeOK, Geometry
<1> HIDE DEF n
<1>4. page' \in Seq(Byte) /\ Len(page') = block_size
  <2>1. ASSUME NEW i \in 1 .. block_size
        PROVE  (IF start < i /\ i <= start + n THEN data[i - start] ELSE page[i]) \in Byte
    <3>1. CASE start < i /\ i <= start + n
      <4>1. i - start \in 1 .. Len(data)  BY <1>1, <1>3, <3>1
      <4> QED BY <1>3, <3>1, <4>1
    <3>2. CASE ~(start < i /\ i <= start + n)
      <4>1. i \in 1 .. Len(page)  BY <1>1, <1>3
      <4> QED BY <1>3, <3>2, <4>1
    <3> QED BY <3>1, <3>2
  <2> HIDE DEF start
  <2> DEFINE cell(i) == IF start < i /\ i <= start + n THEN data[i - start] ELSE page[i]
  <2>2. page' = [i \in 1 .. block_size |-> cell(i)] /\ \A i \in 1 .. block_size : cell(i) \in Byte
    BY <1>2, <2>1
  <2> HIDE DEF cell
  <2> QED BY <1>3, <2>2
<1>5. data' \in Seq(Byte)
  BY <1>1, <1>2, <1>3, SubSeqType
<1>6. packet' \in Nat /\ block_addr <= packet' /\ packet' <= block_addr + block_size
  BY <1>1, <1>2, <1>3
<1>7. AccTypeOK'
  BY <1>0, <1>2, <1>4, <1>5, <1>6 DEF AccTypeOK, Pc
<1>8. block_addr = ROUND_DOWN(packet, block_size)
  BY <1>0 DEF Geometry, InBlock
<1>9. packet' < block_addr + block_size => block_addr = ROUND_DOWN(packet', block_size)
  BY <1>3, <1>6, <1>8, RoundDownBlock
<1>10. Geometry'
  BY <1>0, <1>2, <1>4, <1>6, <1>9 DEF Geometry, Setting, Flushing, InBlock
<1> QED
  BY <1>0, <1>2, <1>7, <1>10, TFUnchanged, HistoryUnchanged DEF TypeInv

LEMMA LoopEndKeeps ==
    ASSUME TypeInv, LoopEnd
    PROVE  TypeInv'
<1>0. TFInv /\ AccTypeOK /\ HistoryTypeOK /\ Geometry /\ pc = "more"
  BY DEF TypeInv, LoopEnd
<1>1. AccTypeOK'
  BY <1>0, ReturnKeeps DEF LoopEnd, AccTypeOK, Err
<1>2. HistoryTypeOK'
  <2>1. taken.addr \in Nat /\ taken.data \in Seq(Byte) /\ << >> \in Seq(Byte)
    BY <1>0 DEF HistoryTypeOK
  <2>2. beyond' \in BOOLEAN
    BY DEF LoopEnd
  <2> QED BY <1>0, <2>1, <2>2, HistoryAfter DEF LoopEnd, HistoryTypeOK, NoPacket
<1>3. Geometry'
  BY <1>0 DEF LoopEnd, AccReturn, Geometry, Setting, Flushing, InBlock
<1> QED
  BY <1>0, <1>1, <1>2, <1>3, TFUnchanged DEF LoopEnd, TypeInv
-----------------------------------------------------------------------------
\* The calls of a user, and what ends them.
LEMMA WriteKeeps ==
    ASSUME TypeInv, NEW p \in Nat, NEW d \in Seq(Byte), Write(p, d)
    PROVE  TypeInv'
<1>0. TFInv /\ AccTypeOK /\ HistoryTypeOK /\ Geometry /\ pc = "idle"
  BY DEF TypeInv, Write
<1>1. TFInv' /\ UNCHANGED sector
  BY <1>0, TFUnchanged DEF Write
<1>2. CASE Accepting
  <2>1. AccTypeOK'
    BY <1>0, <1>1, <1>2 DEF Write, AccTypeOK, sector, Pc
  <2>2. HistoryTypeOK'
    <3>1. SectorsOf(p, d) \subseteq Nat
      BY <1>0, HistoryAfter
    <3>2. scope' = scope \cup SectorsOf(p, d) /\ taken' = [addr |-> p, data |-> d]
          /\ UNCHANGED <<image, open, beyond, outcome>>
      BY <1>2 DEF Write
    <3> QED BY <1>0, <3>1, <3>2 DEF HistoryTypeOK
  <2>3. Geometry'
    BY <1>0, <1>1, <1>2 DEF Write, Accepting, Geometry, sector, Setting, Flushing, InBlock
  <2> QED BY <1>1, <2>1, <2>2, <2>3 DEF TypeInv
<1>3. CASE ~Accepting
  <2>1. AccReturn("INTERNAL") /\ UNCHANGED history
    BY <1>3 DEF Write
  <2>2. AccTypeOK'
    BY <1>0, <1>1, <2>1, ReturnKeeps DEF AccTypeOK, sector, Err
  <2>3. Geometry'
    BY <1>0, <1>1, <2>1 DEF AccReturn, Geometry, sector, Setting, Flushing, InBlock
  <2> QED BY <1>0, <1>1, <2>1, <2>2, <2>3, HistoryUnchanged DEF TypeInv
<1> QED
  BY <1>2, <1>3

LEMMA OpenKeeps ==
    ASSUME TypeInv, CallInitSession \/ InitDone
    PROVE  TypeInv'
<1>0. TFInv /\ AccTypeOK /\ HistoryTypeOK /\ Geometry
  BY DEF TypeInv
<1>1. CASE CallInitSession /\ state # "CLOSED"
  <2>1. AccReturn("INTERNAL") /\ UNCHANGED <<tf_vars, sector>> /\ UNCHANGED history /\ pc = "idle"
    BY <1>1 DEF CallInitSession
  <2>2. AccTypeOK'
    BY <1>0, <2>1, ReturnKeeps DEF AccTypeOK, sector, Err
  <2>3. Geometry'
    BY <1>0, <2>1 DEF AccReturn, Geometry, sector, Setting, Flushing, InBlock
  <2> QED BY <1>0, <2>1, <2>2, <2>3, TFUnchanged, HistoryUnchanged DEF TypeInv
<1>2. CASE CallInitSession /\ state = "CLOSED"
  <2>1. ResetSector /\ CallFlashInit /\ Jump("init") /\ UNCHANGED <<state, page, history>>
    BY <1>2 DEF CallInitSession
  <2>2. TFInv'
    <3>1. << >> \in Seq(Byte) /\ 0 \in Nat  OBVIOUS
    <3> QED BY <1>0, <2>1, <3>1, AccCalls
  <2>3. AccTypeOK'
    BY <1>0, <2>1 DEF ResetSector, Jump, AccTypeOK, Pc
  <2>4. Geometry'
    BY <1>0, <1>2, <2>1 DEF ResetSector, Jump, Geometry, Setting, Flushing
  <2> QED BY <1>0, <2>1, <2>2, <2>3, <2>4, HistoryUnchanged DEF TypeInv
<1>3. CASE InitDone
  <2>1. result \in Err
    BY <1>0 DEF TFInv, TFTypeOK, FrameTypeOK
  <2>2. AccTypeOK'
    BY <1>0, <1>3, <2>1, ReturnKeeps DEF InitDone, AccTypeOK
  <2>3. HistoryTypeOK'
    BY <1>0, <1>3, ForgetType, HistoryUnchanged DEF InitDone
  <2>4. Geometry'
    BY <1>0, <1>3 DEF InitDone, AccReturn, Geometry, Setting, Flushing, InBlock
  <2> QED BY <1>0, <1>3, <2>2, <2>3, <2>4, TFUnchanged DEF InitDone, TypeInv
<1> QED
  BY <1>1, <1>2, <1>3

LEMMA CloseKeeps ==
    ASSUME TypeInv, Uninit \/ Close \/ Closing
    PROVE  TypeInv'
<1>0. TFInv /\ AccTypeOK /\ HistoryTypeOK /\ Geometry
  BY DEF TypeInv
<1>1. CASE Uninit
  <2>1. UNCHANGED sector /\ UNCHANGED tf_vars /\ UNCHANGED history /\ pc = "idle"
    BY <1>1 DEF Uninit
  <2>2. CASE state = "CLOSED"
    <3>1. AccReturn("INTERNAL")  BY <1>1, <2>2 DEF Uninit
    <3>2. AccTypeOK'
      BY <1>0, <2>1, <3>1, ReturnKeeps DEF AccTypeOK, sector, Err
    <3>3. Geometry'
      BY <1>0, <2>1, <3>1 DEF AccReturn, Geometry, sector, Setting, Flushing, InBlock
    <3> QED BY <1>0, <2>1, <3>2, <3>3, TFUnchanged, HistoryUnchanged DEF TypeInv
  <2>3. CASE state = "OPEN"
    <3>1. Gosub("flush", "close") /\ flush_to' = 0  BY <1>1, <2>3 DEF Uninit
    <3>2. AccTypeOK'
      BY <1>0, <2>1, <3>1 DEF Gosub, AccTypeOK, sector, Pc
    <3>3. Geometry'
      BY <1>0, <2>1, <3>1 DEF Gosub, Geometry, sector, Setting, Flushing, InBlock
    <3> QED BY <1>0, <2>1, <3>2, <3>3, TFUnchanged, HistoryUnchanged DEF TypeInv
  <2>4. CASE state = "ERROR"
    <3>1. Jump("close")  BY <1>1, <2>4 DEF Uninit
    <3>2. AccTypeOK'
      BY <1>0, <2>1, <3>1 DEF Jump, AccTypeOK, sector, Pc
    <3>3. Geometry'
      BY <1>0, <2>1, <3>1 DEF Jump, Geometry, sector, Setting, Flushing, InBlock
    <3> QED BY <1>0, <2>1, <3>2, <3>3, TFUnchanged, HistoryUnchanged DEF TypeInv
  <2> QED BY <1>0, <2>2, <2>3, <2>4 DEF AccTypeOK
<1>2. CASE Close
  <2>1. TFInv'
    <3>1. << >> \in Seq(Byte) /\ 0 \in Nat  OBVIOUS
    <3> QED BY <1>0, <1>2, <3>1, AccCalls DEF Close
  <2>2. AccTypeOK'
    BY <1>0, <1>2 DEF Close, Jump, AccTypeOK, sector, Pc
  <2>3. Geometry'
    BY <1>0, <1>2 DEF Close, Jump, Geometry, sector, Setting, Flushing, InBlock
  <2> QED BY <1>0, <1>2, <2>1, <2>2, <2>3, HistoryUnchanged DEF Close, TypeInv
<1>3. CASE Closing
  <2>1. UninitResult \in Err
    BY <1>0 DEF UninitResult, TFInv, TFTypeOK, FrameTypeOK, AccTypeOK
  <2>2. AccTypeOK'
    BY <1>0, <1>3, <2>1, ReturnKeeps DEF Closing, ResetSector, AccTypeOK
  <2>3. HistoryTypeOK'
    BY <1>0, <1>3, ForgetType DEF Closing, HistoryTypeOK
  <2>4. Geometry'
    BY <1>0, <1>3 DEF Closing, ResetSector, AccReturn, Geometry, Setting, Flushing
  <2> QED BY <1>0, <1>3, <2>2, <2>3, <2>4, TFUnchanged DEF Closing, TypeInv
<1> QED
  BY <1>1, <1>2, <1>3

LEMMA DieKeeps ==
    ASSUME TypeInv, Die
    PROVE  TypeInv'
<1>0. TFInv /\ AccTypeOK /\ HistoryTypeOK /\ Geometry /\ << >> \in Seq(Byte) /\ 0 \in Addr
  BY AddrNat DEF TypeInv
<1>1. McuTypeOK' /\ DeviceTypeOK'
  BY <1>0 DEF Die, mcu, TFInv, TFTypeOK, McuTypeOK, DeviceTypeOK, Func
<1>2. FrameTypeOK' /\ Loops'
  BY <1>0, ReturnType DEF Die, Loops, Err
<1>3. AccTypeOK'
  BY <1>0, ReturnKeeps DEF Die, ResetSector, AccTypeOK, Err
<1>4. HistoryTypeOK'
  BY ForgetType DEF Die
<1>5. Geometry'
  BY DEF Die, ResetSector, AccReturn, Geometry, Setting, Flushing
<1> QED
  BY <1>1, <1>2, <1>3, <1>4, <1>5 DEF TypeInv, TFInv, TFTypeOK

LEMMA TypeStep == TypeInv /\ [Next]_vars => TypeInv'
<1> SUFFICES ASSUME TypeInv, [Next]_vars PROVE TypeInv'
  OBVIOUS
<1>1. CASE User
  <2>1. \A k \in Packets : k.addr \in Nat /\ k.data \in Seq(Byte)
    BY UserAssumption
  <2> QED BY <1>1, <2>1, OpenKeeps, WriteKeeps, CloseKeeps DEF User
<1>2. CASE AccStep
  BY <1>2, OpenKeeps, SetupKeeps, FlushKeeps, FlushedKeeps, LoopKeeps, CopyKeeps, LoopEndKeeps,
     CloseKeeps DEF AccStep
<1>3. CASE DeviceStep
  <2>1. TFInv'
    BY <1>3, TFStepKeepsTypes DEF DeviceStep, TypeInv
  <2> QED BY <1>3, <2>1 DEF DeviceStep, acc_vars, sector, args, history, TypeInv, AccTypeOK,
             HistoryTypeOK, Geometry, InBlock
<1>4. CASE Die
  BY <1>4, DieKeeps
<1>5. CASE UNCHANGED vars
  <2>1. TFInv' /\ HistoryTypeOK'
    BY <1>5, TFUnchanged, HistoryUnchanged DEF vars, TypeInv
  <2> QED BY <1>5, <2>1 DEF vars, acc_vars, sector, args, TypeInv, AccTypeOK, Geometry, InBlock
<1> QED
  BY <1>1, <1>2, <1>3, <1>4, <1>5 DEF Next

(***************************************************************************)
(* Every variable of the accessor, the device and the target keeps its     *)
(* type, whatever is written, fails or dies.  In particular the size of a  *)
(* copy never goes below zero (the code computes it unsigned), and an      *)
(* algorithm is only looked up when there is one.                          *)
(***************************************************************************)
THEOREM AccessorTypes == Spec => []TypeOK
<1>1. TypeInv => TypeOK
  BY DEF TypeInv, TFInv, TypeOK
<1> QED
  BY <1>1, TypeInit, TypeStep, PTL DEF Spec
-----------------------------------------------------------------------------
(***************************************************************************)
(* The accessor and the target.  While a session is open and nothing has   *)
(* failed the target is in order; an error always leads to flash_uninit,   *)
(* or to the ERROR state, before any other function could be called.       *)
(***************************************************************************)
Calling == {"setup_algo", "erase", "write"}
Ending == {"setup_undo", "erase_undo", "closing"}
Single == {"algo_set", "download", "erase", "erase_exec", "program", "page", "program_exec",
           "verify"}
Between == Pc \ (Calling \cup Ending \cup {"idle", "init", "close", "flushed"})

Device ==
    /\ Funcs
    /\ pc \notin Calling \cup Ending \cup {"init"} => at = "idle"
    /\ pc = "init" => at \in {"init", "idle"} /\ state = "CLOSED"
    /\ pc \in Ending => at \in {"uninit", "resume", "idle"}
    /\ pc \in Calling => at \in Single \cup {"idle"}
    /\ pc \in Between => Healthy
    /\ pc = "idle" /\ state = "OPEN" => Healthy
    /\ pc = "flushed" /\ status = "NONE" => Healthy
    /\ pc \in Calling => Healthy \/ (at = "idle" /\ result # "NONE")
    /\ pc = "init" /\ at = "idle" /\ result = "NONE" => Healthy
    /\ pc = "erase_undo" => status # "NONE"

LEMMA DeviceStart == Init => Device
BY DEF Init, DeviceInit, AccInit, Device, Funcs, Exec, Calling, Ending, Between, Single

\* What a target in order is said of stays the same.
LEMMA DeviceUnchanged ==
    ASSUME Funcs, UNCHANGED tf_vars
    PROVE  Funcs' /\ (Healthy => Healthy') /\ at' = at /\ result' = result
BY DEF tf_vars, mcu, device, frame, Funcs, Healthy, Exec, get_flash_algo, AlgoRegion

\* Where a primitive goes on.
LEMMA TFStepAt ==
    ASSUME TFStep
    PROVE  /\ at # "idle"
           /\ at = "init" => FlashInit
           /\ at \in {"uninit", "resume"} => at' \in {"idle", "resume"}
           /\ at \in Single => at' \in Single \cup {"idle"}
BY DEF Single, TFStep, FlashInit, FlashUninit, FlashResume, FlashAlgoSet, FlashErase, FlashEraseExec,
   FlashProgram, FlashPage, FlashProgramExec, FlashVerifyCall, FlashVerifyRead, FlashChipRegion,
   FlashChipAlgo, FlashChipStart, FlashChipExec, AlgoSet, AlgoDownload, FuncStart, GotoOr, Goto,
   Return, Advance

LEMMA AccCallsFuncs ==
    ASSUME Funcs, NEW a, NEW d
    PROVE  /\ CallFlashInit => Funcs' /\ at' = "init"
           /\ CallFlashUninit => Funcs' /\ at' = "uninit"
           /\ CallAlgoSet(a) => Funcs' /\ at' = "algo_set" /\ (Healthy => Healthy')
           /\ CallEraseSector(a) => Funcs' /\ at' = "erase" /\ (Healthy => Healthy')
           /\ CallProgramPage(a, d) => Funcs' /\ at' = "program" /\ (Healthy => Healthy')
<1>1. \A op : StartCall(op, a, d) => at' = op
  BY DEF StartCall
<1> QED
  BY <1>1, StartCallKeepsFuncs DEF CallFlashInit, CallFlashUninit, CallAlgoSet, CallEraseSector,
     CallProgramPage, StartCall

LEMMA DeviceAcc ==
    ASSUME TypeInv, Device, AccStep
    PROVE  Device'
<1>0. Funcs
  BY DEF Device
<1> USE DEF Calling, Ending, Between, Single, Pc, Idle
<1>1. CASE InitDone
  BY <1>0, <1>1, DeviceUnchanged DEF InitDone, AccReturn, Device
<1>2. CASE Setup
  BY <1>0, <1>2, DeviceUnchanged, AccCallsFuncs DEF Setup, WriteFails, AccReturn, Jump, Device
<1>3. CASE SetupAlgo
  <2>1. back_to \in {"valid", "loop", "copy"}
    BY <1>3 DEF SetupAlgo, TypeInv, Geometry, Setting
  <2> QED
    BY <1>0, <1>3, <2>1, DeviceUnchanged, AccCallsFuncs DEF SetupAlgo, Jump, Device
<1>4. CASE SetupUndo
  BY <1>0, <1>4, DeviceUnchanged DEF SetupUndo, WriteFails, AccReturn, Device
<1>5. CASE Flush
  BY <1>0, <1>5, DeviceUnchanged DEF Flush, Jump, Device
<1>6. CASE Compare
  BY <1>0, <1>6, DeviceUnchanged, AccCallsFuncs DEF Compare, Jump, FlushWith, Device
<1>7. CASE EraseDone
  BY <1>0, <1>7, DeviceUnchanged, AccCallsFuncs DEF EraseDone, Jump, FlushWith, Device
<1>8. CASE EraseUndo
  BY <1>0, <1>8, DeviceUnchanged DEF EraseUndo, Jump, Device
<1>9. CASE WriteDone
  BY <1>0, <1>9, DeviceUnchanged DEF WriteDone, FlushWith, Device
<1>10. CASE Flushed
  <2>1. back_to \in {"sector", "more", "close"}
    BY <1>10 DEF Flushed, TypeInv, Geometry, Flushing
  <2>2. UNCHANGED tf_vars
    BY <1>10 DEF Flushed
  <2>3. CASE pc' = "idle"
    BY <1>0, <1>10, <2>1, <2>2, <2>3, DeviceUnchanged DEF Flushed, WriteFails, FlushWith, Device
  <2>4. CASE pc' # "idle"
    BY <1>0, <1>10, <2>1, <2>2, <2>4, DeviceUnchanged DEF Flushed, WriteFails, AccReturn,
       FlushWith, Device
  <2> QED BY <2>3, <2>4
<1>11. CASE Valid \/ CheckBlock \/ CheckSector \/ LoopFlush \/ LoopSector
  <2>1. UNCHANGED tf_vars /\ pc \in Between /\ pc' \in Between
    BY <1>11 DEF Valid, CheckBlock, CheckSector, LoopFlush, LoopSector, Jump, Gosub
  <2> QED BY <1>0, <2>1, DeviceUnchanged DEF Device
<1>12. CASE LoopEnd
  BY <1>0, <1>12, DeviceUnchanged DEF LoopEnd, AccReturn, Device
<1>13. CASE Copy
  BY <1>0, <1>13, DeviceUnchanged DEF Copy, Device
<1>14. CASE Close
  BY <1>0, <1>14, AccCallsFuncs DEF Close, Jump, Device
<1>15. CASE Closing
  BY <1>0, <1>15, DeviceUnchanged DEF Closing, AccReturn, Device
<1> QED
  BY <1>1, <1>2, <1>3, <1>4, <1>5, <1>6, <1>7, <1>8, <1>9, <1>10, <1>11, <1>12, <1>13, <1>14,
     <1>15 DEF AccStep

LEMMA DeviceUser ==
    ASSUME TypeInv, Device, User \/ Die
    PROVE  Device'
<1>0. Funcs
  BY DEF Device
<1> USE DEF Calling, Ending, Between, Single, Pc, Idle
<1>1. CASE CallInitSession
  BY <1>0, <1>1, DeviceUnchanged, AccCallsFuncs DEF CallInitSession, AccReturn, Jump, Device, sector
<1>2. ASSUME NEW p, NEW d, Write(p, d) PROVE Device'
  BY <1>0, <1>2, DeviceUnchanged DEF Write, Accepting, AccReturn, Device, sector
<1>3. CASE Uninit
  <2>1. state \in {"CLOSED", "OPEN", "ERROR"}
    BY DEF TypeInv, AccTypeOK
  <2> QED
    BY <1>0, <1>3, <2>1, DeviceUnchanged DEF Uninit, AccReturn, Gosub, Jump, Device, sector
<1>4. CASE Die
  BY <1>4 DEF Die, Return, AccReturn, Device, Funcs, Exec
<1> QED
  BY <1>1, <1>2, <1>3, <1>4 DEF User

LEMMA DeviceDevice ==
    ASSUME TypeInv, Device, DeviceStep
    PROVE  Device'
<1>1. TFStep /\ pc' = pc /\ state' = state /\ status' = status
  BY DEF DeviceStep, acc_vars, sector, args
<1>2. Funcs' /\ at # "idle" /\ pc \in Calling \cup Ending \cup {"init"}
  BY <1>1, TFStepKeepsFuncs, TFStepAt DEF Device
<1>3. CASE pc = "init"
  BY <1>1, <1>2, <1>3, TFStepAt, FlashInitHealthy DEF Device, Calling, Ending, Between
<1>4. CASE pc \in Ending
  BY <1>1, <1>2, <1>4, TFStepAt DEF Device, Calling, Ending, Between
<1>5. CASE pc \in Calling
  <2>1. Healthy /\ at \in Single /\ at \notin {"uninit", "resume"}
    BY <1>2, <1>5 DEF Device, Single
  <2>2. Healthy' \/ (at' = "idle" /\ result' # "NONE")
    BY <1>1, <1>2, <2>1, TFStepKeepsHealthy DEF Device
  <2>3. at' \in Single \cup {"idle"}
    BY <1>1, <2>1, TFStepAt
  <2> QED BY <1>1, <1>2, <1>5, <2>2, <2>3 DEF Device, Calling, Ending, Between
<1> QED
  BY <1>2, <1>3, <1>4, <1>5

LEMMA DeviceNext == TypeInv /\ Device /\ [Next]_vars => Device'
<1> SUFFICES ASSUME TypeInv, Device, [Next]_vars PROVE Device'
  OBVIOUS
<1>1. CASE UNCHANGED vars
  BY <1>1, DeviceUnchanged DEF vars, acc_vars, args, sector, Device
<1> QED
  BY <1>1, DeviceAcc, DeviceUser, DeviceDevice DEF Next

LEMMA Invariant == Spec => [](TypeInv /\ Device)
BY TypeInit, TypeStep, DeviceStart, DeviceNext, PTL DEF Spec

(***************************************************************************)
(* The accessor never has a function of an algorithm called that is not in *)
(* the target's RAM, initialised and on a halted core; nor UnInit of an    *)
(* algorithm that is gone, on the error paths that call it twice and after *)
(* a download that broke off included.                                     *)
(***************************************************************************)
THEOREM AccessorSyscalls == Spec => []SyscallReady
<1>1. TypeInv /\ Device => SyscallReady
  <2> SUFFICES ASSUME TypeInv, Device PROVE SyscallReady
    OBVIOUS
  <2>1. ASSUME CallsFunction PROVE Callable(current_algo)
    <3>1. at \in Exec
      BY <2>1 DEF CallsFunction, Exec
    <3>2. pc \in Calling
      BY <3>1 DEF Device, Exec, Ending
    <3>3. Healthy
      BY <3>1, <3>2 DEF Device, Exec
    <3> QED BY <3>1, <3>3, HealthyCallable DEF Device
  <2>2. CallsUnInit => resident = current_algo
    BY DEF CallsUnInit, Device, Funcs
  <2> QED BY <2>1, <2>2 DEF SyscallReady
<1> QED
  BY <1>1, Invariant, PTL
-----------------------------------------------------------------------------
(***************************************************************************)
(* The block and the sector.  With aligned sectors the geometry that       *)
(* setup_next_sector has noted is that of every address of the sector, and *)
(* a packet that leaves the sector is noticed: at its upper end in the     *)
(* loop, below it by comparing with the last packet.                       *)
(***************************************************************************)
KnownSector ==
    \A x \in Nat : sector_addr <= x /\ x < sector_addr + sector_size =>
        flash_erase_sector_size(x) = sector_size

InSession == pc = "idle" /\ state = "OPEN" /\ sector_valid
AtSector == pc \in {"block", "sector"} \/ (pc \in Flushing /\ back_to = "sector")
Refilling == pc \in Flushing /\ back_to = "more"

Sectoring ==
    /\ pc \in {"valid", "loop", "more", "copy", "setup_algo"} \/ AtSector \/ Refilling \/ InSession =>
         KnownSector
    /\ InSession \/ AtSector => sector_addr <= ROUND_DOWN(last_packet, block_size)
    /\ pc \in {"valid", "setup_algo"} => sector_addr = block_addr
    /\ pc \in {"loop", "more", "copy"} \/ Refilling => sector_addr <= block_addr
    /\ Refilling => block_addr + block_size <= packet
    /\ pc = "copy" => packet < sector_addr + sector_size

LEMMA SectoringInit == Init => Sectoring
BY DEF Init, AccInit, Sectoring, InSession, AtSector, Refilling, Flushing

\* Setup notes the geometry of the packet's sector.
LEMMA SectoringSetup ==
    ASSUME SectorsAligned, TypeInv, Sectoring, Setup \/ SetupAlgo \/ SetupUndo
    PROVE  Sectoring'
<1> USE DEF InSession, AtSector, Refilling, Flushing
<1>1. CASE Setup
  <2> DEFINE size == flash_erase_sector_size(packet)
  <2>1. size \in Nat /\ packet \in Nat
    BY SectorSizeType DEF TypeInv, AccTypeOK
  <2>2. CASE size = 0
    <3>1. pc' = "idle" /\ state' = "ERROR"
      BY <1>1, <2>2 DEF Setup, WriteFails, AccReturn
    <3> QED BY <3>1 DEF Sectoring
  <2>3. CASE size # 0
    <3>1. /\ sector_addr' = ROUND_DOWN(packet, size) /\ sector_size' = size
          /\ block_addr' = ROUND_DOWN(packet, size) /\ pc' = "setup_algo"
      BY <1>1, <2>3 DEF Setup, Jump
    <3>2. KnownSector'
      BY <2>1, <2>3, <3>1, SectorUniform DEF KnownSector
    <3> QED BY <3>1, <3>2 DEF Sectoring
  <2> QED BY <2>2, <2>3
<1>2. CASE SetupAlgo
  <2>1. /\ back_to \in {"valid", "loop", "copy"}
        /\ packet \in Nat /\ block_size \in Nat \ {0}
        /\ block_addr = ROUND_DOWN(packet, block_size) /\ block_size = sector_size
    BY <1>2 DEF SetupAlgo, TypeInv, Geometry, AccTypeOK, Setting, InBlock
  <2>2. /\ sector_addr = block_addr /\ KnownSector
        /\ packet < sector_addr + sector_size /\ sector_addr <= block_addr
    <3>1. sector_addr = block_addr /\ KnownSector
      BY <1>2 DEF SetupAlgo, Sectoring
    <3>2. block_addr \in Nat /\ packet < block_addr + block_size
      BY <2>1, RoundDown
    <3> QED BY <2>1, <3>1, <3>2
  <2>3. UNCHANGED <<packet, sector_addr, sector_size, block_addr, block_size>>
    BY <1>2 DEF SetupAlgo, Jump
  <2>4. pc' \in {"valid", "loop", "copy", "setup_undo"}
    BY <1>2, <2>1 DEF SetupAlgo, Jump
  <2> QED BY <2>2, <2>3, <2>4 DEF Sectoring, KnownSector
<1>3. CASE SetupUndo
  BY <1>3 DEF SetupUndo, WriteFails, AccReturn, Sectoring
<1> QED
  BY <1>1, <1>2, <1>3

LEMMA SectoringFlush ==
    ASSUME TypeInv, Sectoring, Flush \/ Compare \/ EraseDone \/ EraseUndo \/ WriteDone
    PROVE  Sectoring'
<1>1. /\ pc \in Flushing /\ pc' \in Flushing
      /\ UNCHANGED <<packet, back_to>> /\ UNCHANGED sector
  BY DEF Flush, Compare, EraseDone, EraseUndo, WriteDone, Jump, FlushWith, Flushing
<1> QED
  BY <1>1 DEF Sectoring, KnownSector, InSession, AtSector, Refilling, Flushing, sector

LEMMA SectoringFlushed ==
    ASSUME TypeInv, Sectoring, Flushed
    PROVE  Sectoring'
<1> USE DEF InSession, AtSector, Refilling
<1>1. /\ pc = "flushed" /\ pc \in Flushing
      /\ UNCHANGED <<last_packet, block_size, sector_addr, sector_size>>
      /\ block_addr' = IF block_size = 0 THEN block_addr ELSE ROUND_DOWN(flush_to, block_size)
  BY DEF Flushed, Flushing
<1>2. CASE pc' = "idle" /\ state' = "ERROR"
  BY <1>2 DEF Sectoring, Flushing
<1>3. CASE ~(pc' = "idle" /\ state' = "ERROR")
  <2>1. pc' = back_to /\ UNCHANGED <<packet, back_to>>
    BY <1>3 DEF Flushed, WriteFails, AccReturn, FlushWith
  <2>2. CASE back_to = "close"
    BY <2>1, <2>2 DEF Sectoring, Flushing
  <2>3. CASE back_to = "sector"
    <3>1. KnownSector /\ sector_addr <= ROUND_DOWN(last_packet, block_size)
      BY <1>1, <2>3 DEF Sectoring
    <3> QED BY <1>1, <2>1, <2>3, <3>1 DEF Sectoring, KnownSector, Flushing
  <2>4. CASE back_to = "more"
    <3>1. /\ KnownSector /\ sector_addr <= block_addr /\ block_addr + block_size <= packet
          /\ block_size \in Nat \ {0} /\ flush_to = packet /\ packet \in Nat
          /\ block_addr \in Nat /\ sector_addr \in Nat
      BY <1>1, <2>4 DEF Sectoring, TypeInv, Geometry, AccTypeOK
    <3>2. packet < ROUND_DOWN(packet, block_size) + block_size
          /\ ROUND_DOWN(packet, block_size) \in Nat
      BY <3>1, RoundDown
    <3>3. sector_addr <= block_addr'
      BY <1>1, <3>1, <3>2
    <3> QED BY <1>1, <2>1, <2>4, <3>1, <3>3 DEF Sectoring, KnownSector, Flushing
  <2> QED BY <1>1, <2>2, <2>3, <2>4 DEF TypeInv, Geometry
<1> QED
  BY <1>2, <1>3

LEMMA SectoringLoop ==
    ASSUME TypeInv, Sectoring,
           Valid \/ CheckBlock \/ CheckSector \/ LoopFlush \/ LoopSector \/ LoopEnd
    PROVE  Sectoring'
<1> USE DEF InSession, AtSector, Refilling, Flushing
<1>0. Geometry /\ AccTypeOK
  BY DEF TypeInv
<1>1. CASE Valid
  BY <1>0, <1>1 DEF Valid, Jump, Sectoring, KnownSector, Geometry, InBlock, AccTypeOK
<1>2. CASE CheckBlock
  BY <1>2 DEF CheckBlock, Jump, Gosub, Sectoring, KnownSector, sector
<1>3. CASE CheckSector
  <2>1. KnownSector /\ UNCHANGED sector /\ packet' = packet
    BY <1>3 DEF CheckSector, Jump, Gosub, Sectoring
  <2>2. CASE pc' = "setup"
    BY <2>2 DEF Sectoring
  <2>3. CASE pc' = "loop"
    <3>1. ROUND_DOWN(packet, sector_size) = ROUND_DOWN(last_packet, sector_size)
      BY <1>3, <2>3 DEF CheckSector, Jump, Gosub
    <3>2. sector_addr <= block_addr
      BY <1>0, <1>3, <3>1 DEF CheckSector, Sectoring, Geometry, InBlock
    <3> QED BY <2>1, <2>3, <3>2 DEF Sectoring, KnownSector, sector
  <2> QED BY <1>3, <2>2, <2>3 DEF CheckSector, Jump, Gosub
<1>4. CASE LoopFlush
  <2>1. packet \in Nat /\ block_addr \in Nat /\ block_size \in Nat
    BY <1>0 DEF AccTypeOK
  <2> QED
    BY <1>4, <2>1 DEF LoopFlush, Jump, Gosub, Sectoring, KnownSector, sector
<1>5. CASE LoopSector
  <2>1. packet \in Nat /\ sector_addr \in Nat /\ sector_size \in Nat
    BY <1>0 DEF AccTypeOK
  <2> QED
    BY <1>5, <2>1 DEF LoopSector, Jump, Gosub, Sectoring, KnownSector, sector
<1>6. CASE LoopEnd
  <2>1. /\ pc = "more" /\ pc' = "idle" /\ last_packet' = packet
        /\ UNCHANGED <<block_addr, block_size, sector_addr, sector_size>>
    BY <1>6 DEF LoopEnd, AccReturn
  <2>2. KnownSector /\ sector_addr <= ROUND_DOWN(packet, block_size)
    BY <1>0, <2>1 DEF Sectoring, Geometry, InBlock
  <2> QED BY <2>1, <2>2 DEF Sectoring, KnownSector
<1> QED
  BY <1>1, <1>2, <1>3, <1>4, <1>5, <1>6

LEMMA SectoringOther ==
    ASSUME TypeInv, Sectoring,
           Copy \/ User \/ InitDone \/ Close \/ Closing \/ Die \/ DeviceStep \/ UNCHANGED vars
    PROVE  Sectoring'
<1> USE DEF InSession, AtSector, Refilling, Flushing
<1>0. Geometry /\ AccTypeOK
  BY DEF TypeInv
<1>1. CASE Copy
  BY <1>1 DEF Copy, Sectoring, KnownSector
<1>2. CASE CallInitSession
  BY <1>2 DEF CallInitSession, AccReturn, Jump, Sectoring, sector, KnownSector
<1>3. ASSUME NEW p, NEW d, Write(p, d) PROVE Sectoring'
  BY <1>3 DEF Write, Accepting, AccReturn, Sectoring, sector, KnownSector
<1>4. CASE Uninit
  <2>1. state \in {"CLOSED", "OPEN", "ERROR"}
    BY <1>0 DEF AccTypeOK
  <2> QED BY <1>4, <2>1 DEF Uninit, AccReturn, Gosub, Jump, Sectoring, sector, KnownSector
<1>5. CASE InitDone
  BY <1>0, <1>5 DEF InitDone, AccReturn, Sectoring, Geometry
<1>6. CASE Close \/ Closing \/ Die
  BY <1>6 DEF Close, Closing, Die, Jump, ResetSector, AccReturn, Sectoring
<1>7. CASE DeviceStep \/ UNCHANGED vars
  BY <1>7 DEF DeviceStep, vars, acc_vars, sector, args, Sectoring, KnownSector
<1> QED
  BY <1>1, <1>2, <1>3, <1>4, <1>5, <1>6, <1>7 DEF User

LEMMA SectoringStep ==
    ASSUME SectorsAligned
    PROVE  TypeInv /\ Sectoring /\ [Next]_vars => Sectoring'
BY SectoringSetup, SectoringFlush, SectoringFlushed, SectoringLoop, SectoringOther
   DEF Next, AccStep

(***************************************************************************)
(* memcpy stays inside the page buffer and the bytes land in the sector    *)
(* they are meant for, for every sector table whose sectors are aligned:   *)
(* packets in any order, of any length, over any number of sectors of      *)
(* different sizes, whatever fails in between.                             *)
(***************************************************************************)
THEOREM AccessorCopies ==
    ASSUME SectorsAligned
    PROVE  Spec => []CopyInsideBlock
<1>1. TypeInv /\ Sectoring => CopyInsideBlock
  <2> SUFFICES ASSUME TypeInv, Sectoring, pc = "copy"
               PROVE  /\ block_addr <= packet /\ packet < block_addr + block_size
                      /\ block_addr = Base(packet)
                      /\ block_size = flash_erase_sector_size(packet)
                      /\ Len(page) = block_size
    BY DEF CopyInsideBlock
  <2>1. block_addr <= packet /\ packet < block_addr + block_size /\ Len(page) = block_size
    BY CopyBounds
  <2>2. /\ packet \in Nat /\ sector_addr \in Nat /\ block_addr \in Nat
        /\ block_size # 0 /\ block_size = sector_size
        /\ block_addr = ROUND_DOWN(packet, block_size)
    BY DEF TypeInv, AccTypeOK, Geometry, InBlock
  <2>3. flash_erase_sector_size(packet) = sector_size
    BY <2>1, <2>2 DEF Sectoring, KnownSector
  <2> QED BY <2>1, <2>2, <2>3 DEF Base
<1>2. Spec => [](TypeInv /\ Sectoring)
  BY TypeInit, TypeStep, SectoringInit, SectoringStep, PTL DEF Spec
<1> QED
  BY <1>1, <1>2, PTL

-----------------------------------------------------------------------------
(***************************************************************************)
(* What a session of the accessor does to the flash, for every memory map  *)
(* whose sectors are aligned, every packet and every failure.              *)
(***************************************************************************)

(***************************************************************************)
(* The page buffer.  Bytes are only in it while the block is the sector,   *)
(* and none are when another sector is set up.                             *)
(***************************************************************************)
Buffered ==
    /\ sector_size # 0 => sector_addr = ROUND_DOWN(sector_addr, sector_size)
    /\ state = "OPEN" /\ ~page_empty =>
         sector_valid /\ block_size # 0 /\ block_addr = sector_addr /\ KnownSector
    /\ pc \in Setting \cup {"valid", "init"} => page_empty
    /\ pc = "sector" /\ ROUND_DOWN(packet, block_size) # ROUND_DOWN(last_packet, block_size) =>
         page_empty

LEMMA BufferedInit == Init => Buffered
BY DEF Init, AccInit, Buffered, Setting

\* A step that leaves the sector alone and sets nothing up.
LEMMA BufferedSame ==
    ASSUME Buffered, UNCHANGED sector, pc' \notin Setting \cup {"valid", "init", "sector"}
    PROVE  Buffered'
BY DEF Buffered, sector, KnownSector

\* A step after which the buffer is empty.
LEMMA BufferedEmpty ==
    ASSUME Buffered, page_empty' = TRUE,
           UNCHANGED <<sector_addr, sector_size>> \/ sector_size' = 0
    PROVE  Buffered'
BY DEF Buffered

\* With bytes in the buffer the packet's block is the sector.
LEMMA CopyBlock ==
    ASSUME TypeInv, Sectoring, Buffered, pc = "copy"
    PROVE  block_addr = sector_addr /\ KnownSector /\ sector_valid
<1>1. /\ packet \in Nat /\ block_addr \in Nat /\ sector_addr \in Nat
      /\ block_size \in Nat \ {0} /\ sector_size = block_size
      /\ block_addr = ROUND_DOWN(packet, block_size) /\ sector_valid
  BY DEF TypeInv, AccTypeOK, Geometry, InBlock
<1>2. /\ sector_addr <= block_addr /\ packet < sector_addr + sector_size /\ KnownSector
      /\ sector_addr = ROUND_DOWN(sector_addr, sector_size)
  BY <1>1 DEF Sectoring, Buffered
<1>3. block_addr <= packet
  BY <1>1, RoundDown
<1>4. ROUND_DOWN(packet, block_size) = ROUND_DOWN(sector_addr, block_size)
  BY <1>1, <1>2, <1>3, RoundDownBlock
<1> QED
  BY <1>1, <1>2, <1>4

LEMMA BufferedSetup ==
    ASSUME TypeInv, Buffered, Setup \/ SetupAlgo \/ SetupUndo
    PROVE  Buffered'
<1>1. page_empty = TRUE
  BY DEF Buffered, Setup, SetupAlgo, SetupUndo, Setting, TypeInv, AccTypeOK
<1>2. CASE Setup
  <2> DEFINE size == flash_erase_sector_size(packet)
  <2>1. size \in Nat /\ packet \in Nat
    BY SectorSizeType DEF TypeInv, AccTypeOK
  <2>2. CASE size = 0
    BY <1>1, <1>2, <2>2, BufferedEmpty DEF Setup
  <2>3. CASE size # 0
    <3>1. /\ sector_addr' = ROUND_DOWN(packet, size) /\ sector_size' = size
          /\ page_empty' = TRUE
      BY <1>1, <1>2, <2>3 DEF Setup
    <3>2. /\ ROUND_DOWN(packet, size) \in Nat
          /\ ROUND_DOWN(ROUND_DOWN(packet, size), size) = ROUND_DOWN(packet, size)
      <4>1. ROUND_DOWN(packet, size) \in Nat
        BY <2>1, <2>3, RoundDown
      <4> QED BY <2>1, <2>3, <4>1, RoundDownBlock
    <3> QED BY <3>1, <3>2 DEF Buffered
  <2> QED BY <2>2, <2>3
<1>3. CASE SetupAlgo \/ SetupUndo
  <2>1. UNCHANGED <<page_empty, sector_addr, sector_size>>
    BY <1>3 DEF SetupAlgo, SetupUndo
  <2> QED BY <1>1, <2>1, BufferedEmpty
<1> QED
  BY <1>2, <1>3

LEMMA BufferedLoop ==
    ASSUME TypeInv, Sectoring, Buffered,
           Valid \/ CheckBlock \/ CheckSector \/ LoopFlush \/ LoopSector \/ LoopEnd \/ Copy
    PROVE  Buffered'
<1>0. Geometry /\ AccTypeOK
  BY DEF TypeInv
<1>1. CASE Valid
  <2>1. page_empty = TRUE
    BY <1>0, <1>1 DEF Valid, Buffered, AccTypeOK
  <2> QED BY <1>1, <2>1, BufferedEmpty DEF Valid
<1>2. CASE CheckBlock
  BY <1>2 DEF CheckBlock, Jump, Gosub, Buffered, sector, KnownSector, Setting
<1>3. CASE CheckSector
  <2>1. block_size = sector_size
    BY <1>0 DEF Geometry
  <2> QED BY <1>3, <2>1 DEF CheckSector, Jump, Gosub, Buffered, sector, KnownSector, Setting
<1>4. CASE LoopFlush
  <2>1. UNCHANGED sector /\ pc' \notin Setting \cup {"valid", "init", "sector"}
    BY <1>4 DEF LoopFlush, Jump, Gosub, Setting
  <2> QED BY <2>1, BufferedSame
<1>5. CASE LoopSector
  <2>1. /\ packet \in Nat /\ block_addr \in Nat /\ block_size \in Nat \ {0}
        /\ block_size = sector_size /\ block_addr = ROUND_DOWN(packet, block_size)
        /\ state = "OPEN"
    BY <1>0, <1>5 DEF LoopSector, Geometry, AccTypeOK, InBlock
  <2>2. packet < block_addr + block_size
    BY <2>1, RoundDown
  <2>3. packet >= sector_addr + sector_size => page_empty
    BY <2>1, <2>2 DEF Buffered
  <2> QED BY <1>5, <2>3 DEF LoopSector, Jump, Gosub, Buffered, sector, KnownSector, Setting
<1>6. CASE LoopEnd
  BY <1>6 DEF LoopEnd, AccReturn, Buffered, KnownSector, Setting
<1>7. CASE Copy
  <2>1. block_addr = sector_addr /\ KnownSector /\ sector_valid /\ block_size # 0
    BY <1>0, <1>7, CopyBlock DEF Copy, Geometry
  <2>2. /\ UNCHANGED <<state, sector_valid, block_addr, block_size, sector_addr, sector_size>>
        /\ pc' = "loop"
    BY <1>7 DEF Copy
  <2> QED BY <2>1, <2>2 DEF Buffered, KnownSector, Setting
<1> QED
  BY <1>1, <1>2, <1>3, <1>4, <1>5, <1>6, <1>7

LEMMA BufferedOther ==
    ASSUME TypeInv, Buffered,
           \/ Flush \/ Compare \/ EraseDone \/ EraseUndo \/ WriteDone \/ Flushed
           \/ User \/ InitDone \/ Close \/ Closing \/ Die \/ DeviceStep \/ UNCHANGED vars
    PROVE  Buffered'
<1>1. CASE Flush \/ Compare \/ EraseDone \/ EraseUndo \/ WriteDone \/ Uninit \/ Close
  <2>1. UNCHANGED sector /\ pc' \notin Setting \cup {"valid", "init", "sector"}
    BY <1>1 DEF Flush, Compare, EraseDone, EraseUndo, WriteDone, Uninit, Close, Jump, FlushWith,
       Gosub, AccReturn, Setting, TypeInv, AccTypeOK
  <2> QED BY <2>1, BufferedSame
<1>2. CASE Flushed
  BY <1>2, BufferedEmpty DEF Flushed
<1>3. CASE CallInitSession
  <2>1. CASE state # "CLOSED"
    BY <1>3, <2>1, BufferedSame DEF CallInitSession, AccReturn, Setting
  <2>2. CASE state = "CLOSED"
    BY <1>3, <2>2, BufferedEmpty DEF CallInitSession, ResetSector
  <2> QED BY <2>1, <2>2
<1>4. ASSUME NEW p, NEW d, Write(p, d) PROVE Buffered'
  <2>1. state = "OPEN" /\ ~sector_valid => page_empty
    BY DEF Buffered
  <2> QED BY <1>4, <2>1 DEF Write, Accepting, AccReturn, Buffered, KnownSector, Setting, sector
<1>5. CASE InitDone
  <2>1. page_empty = TRUE
    BY <1>5 DEF InitDone, Buffered, TypeInv, AccTypeOK
  <2> QED BY <1>5, <2>1, BufferedEmpty DEF InitDone
<1>6. CASE Closing \/ Die
  BY <1>6, BufferedEmpty DEF Closing, Die, ResetSector
<1>7. CASE DeviceStep \/ UNCHANGED vars
  BY <1>7 DEF DeviceStep, vars, acc_vars, sector, args, Buffered, KnownSector
<1> QED
  BY <1>1, <1>2, <1>3, <1>4, <1>5, <1>6, <1>7 DEF User

LEMMA BufferedStep == TypeInv /\ Sectoring /\ Buffered /\ [Next]_vars => Buffered'
BY BufferedSetup, BufferedLoop, BufferedOther DEF Next, AccStep
-----------------------------------------------------------------------------
(***************************************************************************)
(* The flush.  The primitives run on the block of the buffer: a page is    *)
(* programmed over cells that are blank from where it has got to, and a    *)
(* flush that reports success leaves the buffer in the flash.              *)
(***************************************************************************)
Ends == {"setup_undo", "erase_undo", "flushed", "close", "closing"}

Flushes ==
    /\ pc \notin Ends => status = "NONE"
    /\ pc \in Flushing => state = "OPEN"
    /\ pc \in {"close", "closing"} => state # "CLOSED" /\ (state = "OPEN" => page_empty)
    /\ pc \in {"compare", "erase", "erase_undo", "write"} => ~page_empty
    /\ pc \in {"erase", "erase_undo", "write"} => BlockReadable
    /\ pc = "flushed" /\ status = "NONE" /\ ~page_empty => BlockReadable /\ SameAsFlash
    /\ pc = "write" => \/ at = "idle" /\ (result = "NONE" => SameAsFlash)
                       \/ at \in InProgram /\ Programming(block_addr, page) /\ BlankAhead
    /\ pc = "erase" => \/ /\ at = "idle"
                          /\ result = "NONE" => \A x \in SectorCells(sector_addr) : flash[x] = FF
                       \/ at \in InErase /\ addr = sector_addr
    /\ at \in InProgram => pc = "write"
    /\ at \in InErase => pc = "erase"

LEMMA FlushesInit == Init => Flushes
BY DEF Init, DeviceInit, AccInit, Flushes, Ends, Flushing, InProgram, InErase

\* flash_program_page begins over a blank block.
LEMMA ProgramBegins ==
    ASSUME NEW a \in Nat, NEW d \in Seq(Byte), CallProgramPage(a, d),
           \A x \in Span(a, Len(d)) : flash[x] = FF
    PROVE  at' = "program" /\ Programming(a, d)' /\ BlankAhead'
<1>1. at' = "program" /\ addr' = a /\ buf' = d /\ flash' = flash
  BY DEF CallProgramPage, StartCall, mcu
<1>2. Len(d) \in Nat /\ Len(d) - Len(d) = 0
  OBVIOUS
<1>3. Programming(a, d)'
  BY <1>1, <1>2 DEF Programming, Done
<1>4. BlankAhead'
  BY <1>1 DEF BlankAhead, Span
<1> QED
  BY <1>1, <1>3, <1>4

\* The block of a buffer with bytes in it, as the flush finds it.
LEMMA FullBlock ==
    ASSUME TypeInv, Buffered, state = "OPEN", ~page_empty
    PROVE  /\ block_addr \in Nat /\ block_size \in Nat \ {0} /\ page \in Seq(Byte)
           /\ Len(page) = block_size
           /\ sector_addr = block_addr /\ sector_size = block_size
           /\ SectorCells(sector_addr) = Span(block_addr, block_size)
<1>1. /\ block_addr \in Nat /\ block_size \in Nat \ {0} /\ page \in Seq(Byte)
      /\ Len(page) = block_size /\ sector_addr = block_addr /\ sector_size = block_size
      /\ KnownSector
  BY DEF TypeInv, AccTypeOK, Geometry, Buffered
<1>2. flash_erase_sector_size(sector_addr) = block_size
  BY <1>1 DEF KnownSector
<1> QED
  BY <1>1, <1>2 DEF SectorCells, Span

LEMMA FlushesFlush ==
    ASSUME TypeInv, Device, Buffered, Flushes,
           Flush \/ Compare \/ EraseDone \/ EraseUndo \/ WriteDone
    PROVE  Flushes'
<1> USE DEF Ends, Flushing, InProgram, InErase, Idle
<1>0. UNCHANGED sector /\ at = "idle"
  BY DEF Flush, Compare, EraseDone, EraseUndo, WriteDone
<1>1. CASE Flush
  BY <1>0, <1>1 DEF Flush, Jump, Flushes, sector, tf_vars, frame, BlockReadable,
     TypeInv, AccTypeOK
<1>2. CASE Compare
  <2>1. state = "OPEN" /\ ~page_empty /\ status = "NONE"
    BY <1>2 DEF Compare, Flushes
  <2>2. CASE FlushWith("ALGO_DATA_SEQ", "flushed") /\ UNCHANGED tf_vars
    BY <1>0, <2>1, <2>2 DEF FlushWith, Flushes, sector, tf_vars, frame
  <2>3. CASE BlockReadable /\ SameAsFlash /\ Jump("flushed") /\ UNCHANGED tf_vars
    BY <1>0, <2>1, <2>3 DEF Jump, Flushes, sector, tf_vars, frame, mcu, BlockReadable,
       SameAsFlash, Holds
  <2>4. CASE BlockReadable /\ FlashIsEmpty /\ CallProgramPage(block_addr, page) /\ Jump("write")
    <3>1. /\ block_addr \in Nat /\ page \in Seq(Byte)
          /\ \A x \in Span(block_addr, Len(page)) : flash[x] = FF
      BY <2>1, <2>4, FullBlock DEF FlashIsEmpty
    <3>2. ASSUME NEW a \in Nat, NEW d \in Seq(Byte), a = block_addr, d = page
          PROVE  at' = "program" /\ Programming(block_addr, page)' /\ BlankAhead'
      <4>1. block_addr' = a /\ page' = d
        BY <1>0, <3>2 DEF sector
      <4>2. Programming(a, d)' /\ at' = "program" /\ BlankAhead'
        BY <2>4, <3>1, <3>2, ProgramBegins
      <4> QED BY <4>1, <4>2 DEF Programming, Done
    <3>3. at' = "program" /\ Programming(block_addr, page)' /\ BlankAhead'
      BY <3>1, <3>2
    <3> QED BY <1>0, <2>1, <2>4, <3>3 DEF Jump, Flushes, sector, BlockReadable
  <2>5. CASE BlockReadable /\ CallEraseSector(sector_addr) /\ Jump("erase")
    BY <1>0, <2>1, <2>5 DEF CallEraseSector, StartCall, Jump, Flushes, sector, BlockReadable
  <2> QED BY <1>2, <2>2, <2>3, <2>4, <2>5 DEF Compare
<1>3. CASE EraseDone
  <2>1. state = "OPEN" /\ ~page_empty /\ status = "NONE" /\ BlockReadable
        /\ (result = "NONE" => \A x \in SectorCells(sector_addr) : flash[x] = FF)
    BY <1>0, <1>3 DEF EraseDone, Flushes
  <2>2. CASE result = "NONE"
    <3>1. /\ block_addr \in Nat /\ page \in Seq(Byte)
          /\ \A x \in Span(block_addr, Len(page)) : flash[x] = FF
      BY <2>1, <2>2, FullBlock
    <3>2. CallProgramPage(block_addr, page) /\ Jump("write")
      BY <1>3, <2>2 DEF EraseDone
    <3>3. ASSUME NEW a \in Nat, NEW d \in Seq(Byte), a = block_addr, d = page
          PROVE  at' = "program" /\ Programming(block_addr, page)' /\ BlankAhead'
      <4>1. block_addr' = a /\ page' = d
        BY <1>0, <3>3 DEF sector
      <4>2. Programming(a, d)' /\ at' = "program" /\ BlankAhead'
        BY <3>1, <3>2, <3>3, ProgramBegins
      <4> QED BY <4>1, <4>2 DEF Programming, Done
    <3>4. at' = "program" /\ Programming(block_addr, page)' /\ BlankAhead'
      BY <3>1, <3>3
    <3> QED BY <1>0, <2>1, <3>2, <3>4 DEF Jump, Flushes, sector, BlockReadable
  <2>3. CASE result # "NONE"
    BY <1>0, <1>3, <2>1, <2>3 DEF EraseDone, CallFlashUninit, StartCall, FlushWith, Flushes, sector,
       BlockReadable
  <2> QED BY <2>2, <2>3
<1>4. CASE EraseUndo
  BY <1>0, <1>4 DEF EraseUndo, Jump, Flushes, Device, sector, tf_vars, frame
<1>5. CASE WriteDone
  BY <1>0, <1>5 DEF WriteDone, FlushWith, Flushes, sector, tf_vars, frame, mcu, BlockReadable,
     SameAsFlash, Holds
<1> QED
  BY <1>1, <1>2, <1>3, <1>4, <1>5

LEMMA FlushesFlushed ==
    ASSUME TypeInv, Flushes, Flushed
    PROVE  Flushes'
<1>1. /\ back_to \in {"sector", "more", "close"}
      /\ state = "OPEN" /\ pc = "flushed" /\ at = "idle" /\ at' = at /\ page_empty'
      /\ block_size = 0 => back_to = "close"
  BY DEF Flushed, Flushes, Flushing, TypeInv, Geometry, Idle, tf_vars, frame
<1>2. CASE pc' = "idle"
  BY <1>1, <1>2 DEF Flushed, WriteFails, AccReturn, FlushWith, Flushes, Ends, Flushing, InProgram,
     InErase
<1>3. CASE pc' # "idle"
  BY <1>1, <1>3 DEF Flushed, WriteFails, AccReturn, FlushWith, Flushes, Ends, Flushing, InProgram,
     InErase
<1> QED
  BY <1>2, <1>3

\* The other steps of the accessor stay out of the primitives that change the flash.
LEMMA FlushesOther ==
    ASSUME TypeInv, Device, Buffered, Flushes,
           \/ Setup \/ SetupAlgo \/ SetupUndo
           \/ Valid \/ CheckBlock \/ CheckSector \/ LoopFlush \/ LoopSector \/ LoopEnd \/ Copy
           \/ User \/ InitDone \/ Close \/ Closing \/ Die \/ UNCHANGED vars
    PROVE  Flushes'
<1> USE DEF Ends, Flushing, InProgram, InErase, Idle
<1>0. state \in {"CLOSED", "OPEN", "ERROR"}
  BY DEF TypeInv, AccTypeOK
<1>1. CASE Setup \/ SetupAlgo \/ SetupUndo
  <2>1. /\ at' \in {"idle", "algo_set", "uninit"}
        /\ pc' \in {"idle", "setup_algo", "setup_undo", back_to}
        /\ pc' # "setup_undo" => status' = "NONE"
    BY <1>1 DEF Setup, SetupAlgo, SetupUndo, WriteFails, AccReturn, Jump, CallAlgoSet,
       CallFlashUninit, StartCall, Flushes, tf_vars, frame
  <2>2. back_to \in {"valid", "loop", "copy"}
    BY <1>1 DEF Setup, SetupAlgo, SetupUndo, TypeInv, Geometry, Setting
  <2> QED BY <2>1, <2>2 DEF Flushes
<1>2. CASE Valid \/ CheckBlock \/ CheckSector \/ LoopFlush \/ LoopSector \/ LoopEnd \/ Copy
  <2>1. /\ at' = "idle" /\ status = "NONE" /\ status' = "NONE"
        /\ pc' \in {"idle", "block", "sector", "loop", "more", "copy", "setup", "flush"}
    BY <1>2 DEF Valid, CheckBlock, CheckSector, LoopFlush, LoopSector, LoopEnd, Copy, Jump, Gosub,
       AccReturn, Flushes, tf_vars, frame
  <2>2. pc' = "flush" => state' = "OPEN"
    BY <1>2 DEF Valid, CheckBlock, CheckSector, LoopFlush, LoopSector, LoopEnd, Copy, Jump, Gosub,
       AccReturn, sector, TypeInv, Geometry
  <2> QED BY <2>1, <2>2 DEF Flushes
<1>3. CASE CallInitSession \/ InitDone
  BY <1>3 DEF CallInitSession, InitDone, CallFlashInit, StartCall, Jump, AccReturn, Flushes, tf_vars,
     frame
<1>4. ASSUME NEW p, NEW d, Write(p, d) PROVE Flushes'
  BY <1>4 DEF Write, AccReturn, Flushes, tf_vars, frame
<1>5. CASE Uninit
  BY <1>0, <1>5 DEF Uninit, AccReturn, Gosub, Jump, Flushes, tf_vars, frame, sector
<1>6. CASE Close
  BY <1>6 DEF Close, Jump, CallFlashUninit, StartCall, Flushes, sector
<1>7. CASE Closing \/ Die
  BY <1>7 DEF Closing, Die, AccReturn, Return, Flushes, tf_vars, frame
<1>8. CASE UNCHANGED vars
  BY <1>8 DEF vars, acc_vars, sector, args, tf_vars, frame, device, mcu, Flushes, BlockReadable,
     SameAsFlash, Holds, Programming, Done, AtBuffer, BlankAhead, SectorCells
<1> QED
  BY <1>1, <1>2, <1>3, <1>4, <1>5, <1>6, <1>7, <1>8 DEF User

LEMMA FlushesDevice ==
    ASSUME TypeInv, Device, Buffered, Flushes, DeviceStep,
           NEW a \in Nat, NEW d \in Seq(Byte), a = block_addr, d = page,
           NEW s, s = sector_addr
    PROVE  Flushes'
<1> USE DEF Ends, Flushing, InProgram, InErase
<1>0. /\ TFStep /\ TFInv /\ at # "idle"
      /\ UNCHANGED <<pc, status, state, page_empty, block_addr, block_size, sector_addr, page>>
      /\ block_addr' = a /\ page' = d /\ sector_addr' = s
      /\ BlockReadable' = BlockReadable
  BY TFStepAt DEF DeviceStep, acc_vars, sector, args, TypeInv, BlockReadable
<1>1. CASE pc = "write"
  <2>1. at \in InProgram /\ Programming(a, d) /\ BlankAhead
    BY <1>0, <1>1 DEF Flushes
  <2>2. at' \in InProgram \cup {"idle"}
    BY <1>0, <2>1, TFStepStays DEF StepsOf
  <2>3. /\ at' \in InProgram => Programming(a, d)'
        /\ at' = "idle" /\ result' = "NONE" => Holds(a, d)'
    BY <1>0, <2>1, ProgramSteps
  <2>4. BlankAhead'
    BY <1>0, <2>1, BlankAheadStep
  <2>5. Programming(block_addr, page)' <=> Programming(a, d)'
    BY <1>0 DEF Programming, Done
  <2>6. SameAsFlash' <=> Holds(a, d)'
    BY <1>0 DEF SameAsFlash, Holds
  <2> QED BY <1>0, <1>1, <2>2, <2>3, <2>4, <2>5, <2>6 DEF Flushes
<1>2. CASE pc = "erase"
  <2>1. at \in InErase /\ addr = s
    BY <1>0, <1>2 DEF Flushes
  <2>2. at' \in InErase \cup {"idle"}
    BY <1>0, <2>1, TFStepStays DEF StepsOf
  <2>3. /\ at' \in InErase => addr' = s
        /\ at' = "idle" /\ result' = "NONE" => \A x \in SectorCells(s) : flash'[x] = FF
    BY <1>0, <2>1, EraseSteps
  <2> QED BY <1>0, <1>2, <2>2, <2>3 DEF Flushes
<1>3. CASE pc \notin {"write", "erase"}
  <2>1. pc \in {"setup_algo", "setup_undo", "erase_undo", "closing", "init"}
    BY <1>0, <1>3 DEF Device, Calling, Ending
  <2>2. at' \notin InProgram \cup InErase
    <3>1. \/ at \in StepsOf["init"] \/ at \in StepsOf["uninit"] \/ at \in StepsOf["algo_set"]
      BY <1>0, <1>3, <2>1 DEF Device, Calling, Ending, Single, Flushes, StepsOf
    <3>2. at' \in {"init", "uninit", "resume", "algo_set", "download", "idle"}
      BY <1>0, <3>1, TFStepStays DEF StepsOf
    <3> QED BY <3>2
  <2> QED BY <1>0, <2>1, <2>2 DEF Flushes
<1> QED
  BY <1>1, <1>2, <1>3

LEMMA FlushesStep == TypeInv /\ Device /\ Buffered /\ Flushes /\ [Next]_vars => Flushes'
<1> SUFFICES ASSUME TypeInv, Device, Buffered, Flushes, [Next]_vars PROVE Flushes'
  OBVIOUS
<1>1. CASE DeviceStep
  <2>1. block_addr \in Nat /\ page \in Seq(Byte)
    BY DEF TypeInv, AccTypeOK
  <2> QED BY <1>1, <2>1, FlushesDevice
<1> QED
  BY <1>1, FlushesFlush, FlushesFlushed, FlushesOther DEF Next, AccStep

LEMMA FlushInvariant ==
    ASSUME SectorsAligned
    PROVE  Spec => [](TypeInv /\ Device /\ Sectoring /\ Buffered /\ Flushes)
BY TypeInit, TypeStep, DeviceStart, DeviceNext, SectoringInit, SectoringStep, BufferedInit,
   BufferedStep, FlushesInit, FlushesStep, PTL DEF Spec

(***************************************************************************)
(* Only erased cells are programmed: a sector that is not blank is erased  *)
(* before any page of it, whatever failed before, for every table of       *)
(* aligned sectors and every page size, the last and shorter page of a     *)
(* sector included.                                                        *)
(***************************************************************************)
THEOREM AccessorErases ==
    ASSUME SectorsAligned
    PROVE  Spec => []ErasedBeforeProgram
<1>1. TypeInv /\ Flushes => ErasedBeforeProgram
  <2> SUFFICES ASSUME TypeInv, Flushes, at = "program_exec"
               PROVE  \A x \in Span(addr, Len(buffer)) : flash[x] = FF
    BY DEF ErasedBeforeProgram
  <2>1. Programming(block_addr, page) /\ BlankAhead
    BY DEF Flushes, InProgram
  <2>2. /\ Len(buffer) <= Len(buf) /\ Len(buffer) \in Nat /\ Len(buf) \in Nat /\ addr \in Nat
        /\ \A x \in Span(addr, Len(buf)) : flash[x] = FF
    BY <2>1 DEF Programming, AtBuffer, BlankAhead, TypeInv, TFInv, TFTypeOK, McuTypeOK, FrameTypeOK
  <2> QED BY <2>2, AddrNat DEF Span
<1> QED
  BY <1>1, FlushInvariant, PTL
-----------------------------------------------------------------------------
(***************************************************************************)
(* The packet of a running write: what has been copied of it and what is   *)
(* left make it up, and its sectors are in scope.                          *)
(***************************************************************************)
Writing ==
    \/ pc \in {"valid", "block", "sector", "loop", "more", "copy"} \cup Setting
    \/ pc \in Flushing /\ back_to # "close"

Consumed == Len(taken.data) - Len(data)

Packeting ==
    /\ Writing =>
         /\ taken \in Packets
         /\ SectorsOf(taken.addr, taken.data) \subseteq scope
         /\ Len(data) <= Len(taken.data)
         /\ packet = taken.addr + Consumed
         /\ \A i \in 1 .. Len(data) : data[i] = taken.data[Consumed + i]
    /\ pc = "block" => Consumed = 0
    /\ pc = "valid" \/ (pc \in Setting /\ back_to = "valid") => Consumed = 0 /\ ~sector_valid
    /\ pc = "copy" \/ (pc \in Setting /\ back_to = "copy") => data # << >>

LEMMA PacketingInit == Init => Packeting
BY DEF Init, AccInit, Packeting, Writing, Setting, Flushing

\* The packet that is written.
LEMMA TakenPacket ==
    ASSUME TypeInv, Packeting, Writing
    PROVE  /\ taken.addr \in Nat /\ taken.data \in Seq(Byte) /\ data \in Seq(Byte)
           /\ Len(taken.data) \in Nat /\ Len(data) \in Nat /\ Consumed \in Nat
           /\ packet = taken.addr + Consumed /\ packet \in Nat
           /\ Len(taken.data) = Consumed + Len(data)
<1>1. taken.addr \in Nat /\ taken.data \in Seq(Byte) /\ data \in Seq(Byte)
  BY DEF TypeInv, AccTypeOK, HistoryTypeOK
<1>2. Len(taken.data) \in Nat /\ Len(data) \in Nat
  BY <1>1
<1>3. Len(data) <= Len(taken.data) /\ packet = taken.addr + Consumed
  BY DEF Packeting
<1> QED
  BY <1>1, <1>2, <1>3 DEF Consumed

\* A step that stays in the same packet, or leaves it.
LEMMA PacketingSame ==
    ASSUME Packeting, UNCHANGED <<packet, data, taken, scope>>, Writing' => Writing,
           pc' \notin {"block", "valid", "copy"} \cup Setting
    PROVE  Packeting'
BY DEF Packeting, Consumed, Setting

LEMMA PacketingCopy ==
    ASSUME TypeInv, Packeting, Copy
    PROVE  Packeting'
<1> DEFINE n == CopySize
<1>1. /\ packet' = packet + n /\ data' = SubSeq(data, n + 1, Len(data))
      /\ pc = "copy" /\ pc' = "loop" /\ UNCHANGED <<taken, scope, back_to>>
  BY DEF Copy, history
<1>2. n \in Nat /\ n <= Len(data)
  BY <1>1, CopyBounds
<1> HIDE DEF n
<1>3. Writing /\ Writing'
  BY <1>1 DEF Writing
<1>4. /\ taken.addr \in Nat /\ data \in Seq(Byte) /\ Len(data) \in Nat
      /\ Len(taken.data) \in Nat
      /\ Consumed \in Nat /\ packet = taken.addr + Consumed
      /\ Len(data) <= Len(taken.data)
      /\ \A i \in 1 .. Len(data) : data[i] = taken.data[Consumed + i]
  BY <1>3, TakenPacket DEF Packeting
<1>5. /\ Len(data') = Len(data) - n
      /\ \A i \in 1 .. Len(data') : data'[i] = data[n + i]
  <2> DEFINE rest == SubSeq(data, n + 1, Len(data))
  <2>1. Len(rest) = Len(data) - n /\ \A i \in 1 .. Len(data) - n : rest[i] = data[n + i]
    BY <1>2, <1>4, PartOf
  <2>2. data' = rest
    BY <1>1
  <2> HIDE DEF rest
  <2> QED BY <2>1, <2>2
<1>6. Consumed' = Consumed + n
  <2>1. Consumed' = Len(taken.data) - Len(data')
    BY <1>1 DEF Consumed
  <2>2. Consumed' = Len(taken.data) - (Len(data) - n)
    BY <1>5, <2>1
  <2> QED BY <1>2, <1>4, <2>2 DEF Consumed
<1>7. \A i \in 1 .. Len(data') : data'[i] = taken.data[Consumed' + i]
  <2> TAKE i \in 1 .. Len(data')
  <2>1. i \in Nat /\ n + i \in 1 .. Len(data)
    BY <1>2, <1>4, <1>5
  <2>2. data'[i] = taken.data[Consumed + (n + i)]
    BY <1>4, <1>5, <2>1
  <2>3. Consumed + (n + i) = Consumed' + i
    BY <1>2, <1>4, <1>6, <2>1
  <2> QED BY <2>2, <2>3
<1>8. packet' = taken.addr + Consumed'
  BY <1>1, <1>2, <1>4, <1>6
<1>9. Len(data') <= Len(taken.data)
  BY <1>2, <1>4, <1>5
<1>10. taken \in Packets /\ SectorsOf(taken.addr, taken.data) \subseteq scope
  BY <1>3 DEF Packeting
<1> QED
  BY <1>1, <1>7, <1>8, <1>9, <1>10 DEF Packeting, Setting

LEMMA PacketingWrite ==
    ASSUME TypeInv, Buffered, NEW k \in Packets, Write(k.addr, k.data)
    PROVE  Packeting'
<1> USE DEF Writing, Setting, Flushing
<1>1. CASE Accepting
  <2>1. /\ k \in [addr : Nat, data : Seq(Byte)]
        /\ taken' = [addr |-> k.addr, data |-> k.data]
        /\ scope' = scope \cup SectorsOf(k.addr, k.data)
        /\ packet' = k.addr /\ data' = k.data
        /\ pc' = IF sector_valid THEN "block" ELSE "setup"
        /\ back_to' = IF sector_valid THEN "idle" ELSE "valid"
        /\ sector_valid' = sector_valid
    BY <1>1, UserAssumption DEF Write, sector
  <2>2. taken' = k /\ k.addr \in Nat /\ k.data \in Seq(Byte) /\ Len(k.data) \in Nat
    BY <2>1
  <2>3. Consumed' = 0
    BY <2>1, <2>2 DEF Consumed
  <2>4. packet' = taken'.addr + Consumed'
    BY <2>1, <2>2, <2>3
  <2>5. \A i \in 1 .. Len(data') : data'[i] = taken'.data[Consumed' + i]
    BY <2>1, <2>2, <2>3
  <2> QED BY <2>1, <2>2, <2>3, <2>4, <2>5 DEF Packeting
<1>2. CASE ~Accepting
  BY <1>2 DEF Write, AccReturn, Packeting
<1> QED
  BY <1>1, <1>2

LEMMA PacketingOther ==
    ASSUME TypeInv, Packeting,
           \/ (AccStep /\ ~Copy) \/ CallInitSession \/ Uninit \/ Die \/ DeviceStep \/ UNCHANGED vars
    PROVE  Packeting'
<1> USE DEF Writing, Setting, Flushing
<1>0. Geometry
  BY DEF TypeInv
<1>1. CASE pc' = "idle"
  BY <1>1 DEF Packeting
<1>2. CASE pc' # "idle" /\ (Setup \/ SetupAlgo \/ SetupUndo)
  <2>1. /\ UNCHANGED <<packet, data, taken, scope, back_to, sector_valid>>
        /\ pc \in Setting
        /\ pc' \in {"setup_algo", "setup_undo"} \/ (pc' = back_to /\ pc = "setup_algo")
    BY <1>2 DEF Setup, SetupAlgo, SetupUndo, WriteFails, AccReturn, Jump, history
  <2>2. back_to \in {"valid", "loop", "copy"}
    BY <1>0, <2>1 DEF Geometry
  <2> QED BY <2>1, <2>2 DEF Packeting, Consumed
<1>3. CASE pc' # "idle" /\ (Flush \/ Compare \/ EraseDone \/ EraseUndo \/ WriteDone \/ Flushed)
  <2>1. /\ UNCHANGED <<packet, data, taken, scope, back_to>>
        /\ pc \in Flushing
        /\ pc' \in Flushing \/ pc' = back_to
    BY <1>3 DEF Flush, Compare, EraseDone, EraseUndo, WriteDone, Flushed, WriteFails, AccReturn,
       Jump, FlushWith, history
  <2>2. back_to \in {"sector", "more", "close"}
    BY <1>0, <2>1 DEF Geometry
  <2> QED BY <2>1, <2>2, PacketingSame
<1>4. CASE Valid \/ CheckBlock \/ LoopFlush
  BY <1>4 DEF Valid, CheckBlock, LoopFlush, Jump, Gosub, history, Packeting, Consumed
<1>5. CASE CheckSector \/ LoopSector
  BY <1>5 DEF CheckSector, LoopSector, Jump, Gosub, history, Packeting, Consumed
<1>6. CASE pc' # "idle" /\ (CallInitSession \/ Uninit \/ Die \/ Close \/ Closing \/ InitDone \/ LoopEnd)
  BY <1>6 DEF CallInitSession, Uninit, Die, Close, Closing, InitDone, LoopEnd, Jump, Gosub,
     AccReturn, Packeting, TypeInv, AccTypeOK
<1>7. CASE DeviceStep \/ UNCHANGED vars
  BY <1>7 DEF DeviceStep, vars, acc_vars, sector, args, history, Packeting, Consumed
<1> QED
  BY <1>1, <1>2, <1>3, <1>4, <1>5, <1>6, <1>7 DEF AccStep

LEMMA PacketingStep == TypeInv /\ Buffered /\ Packeting /\ [Next]_vars => Packeting'
BY PacketingCopy, PacketingWrite, PacketingOther DEF Next, User, AccStep
-----------------------------------------------------------------------------
(***************************************************************************)
(* The sector of an address, for the sector that is set up.                *)
(***************************************************************************)
SectorSet ==
    /\ sector_addr \in Nat /\ sector_size \in Nat \ {0} /\ KnownSector
    /\ sector_addr = ROUND_DOWN(sector_addr, sector_size)

\* The addresses of the sector that is set up have it as their sector.
LEMMA BaseBlock ==
    ASSUME SectorSet, NEW a \in Nat, sector_addr <= a, a < sector_addr + sector_size
    PROVE  Base(a) = sector_addr
<1>1. flash_erase_sector_size(a) = sector_size
  BY DEF SectorSet, KnownSector
<1>2. ROUND_DOWN(a, sector_size) = sector_addr
  BY RoundDownBlock DEF SectorSet
<1> QED
  BY <1>1, <1>2 DEF SectorSet, Base

\* Other addresses have another.
LEMMA BaseInside ==
    ASSUME SectorsAligned, SectorSet, NEW a \in Nat, Base(a) = sector_addr
    PROVE  sector_addr <= a /\ a < sector_addr + sector_size
<1> DEFINE s == flash_erase_sector_size(a)
<1>1. s \in Nat
  BY SectorSizeType
<1>2. CASE s = 0
  BY <1>2 DEF Base, SectorSet
<1>3. CASE s # 0
  <2>1. ROUND_DOWN(a, s) = sector_addr
    BY <1>3 DEF Base
  <2>2. sector_addr <= a /\ a < sector_addr + s
    BY <1>1, <1>3, <2>1, RoundDown
  <2>3. flash_erase_sector_size(sector_addr) = s
    BY <1>1, <1>3, <2>1, SectorUniform DEF SectorSet
  <2>4. flash_erase_sector_size(sector_addr) = sector_size
    BY DEF SectorSet, KnownSector
  <2> QED BY <2>2, <2>3, <2>4
<1> QED
  BY <1>2, <1>3

\* The end of an entry of the table is the start of a block of it too.
LEMMA RoundDownNext ==
    ASSUME NEW v \in Nat, NEW b \in Nat \ {0}, v = ROUND_DOWN(v, b)
    PROVE  ROUND_DOWN(v + b, b) = v + b
<1> DEFINE q == v \div b
           u == v + b
           p == u \div b
<1>1. /\ v = b * q + (v % b) /\ q \in Int /\ v % b \in 0 .. b - 1
      /\ u = b * p + (u % b) /\ p \in Int /\ u % b \in 0 .. b - 1
  OBVIOUS
<1>2. v % b = 0
  BY <1>1 DEF ROUND_DOWN
<1>3. u = b * (q + 1)
  BY <1>1, <1>2
<1> HIDE DEF p, q, u
<1>4. b * p \in Int /\ b * (q + 1) \in Int
  BY <1>1
<1>5. CASE p >= q + 2
  <2>1. b * p >= b * (q + 2)  BY <1>1, <1>5
  <2>2. b * (q + 2) = b * (q + 1) + b  BY <1>1
  <2> QED BY <2>1, <2>2, <1>1, <1>3, <1>4
<1>6. CASE p <= q
  <2>1. b * p <= b * q  BY <1>1, <1>6
  <2>2. b * q = b * (q + 1) - b  BY <1>1
  <2> QED BY <2>1, <2>2, <1>1, <1>3, <1>4
<1>7. CASE p = q + 1
  <2>1. b * p = u  BY <1>3, <1>7
  <2>2. u % b = 0  BY <1>1, <1>4, <2>1
  <2> QED BY <2>2, <1>1, <1>3, <1>4 DEF ROUND_DOWN, u
<1> QED
  BY <1>1, <1>5, <1>6, <1>7

\* The next sector begins where this one ends.
LEMMA BaseNext ==
    ASSUME SectorsAligned, SectorSet
    PROVE  Base(sector_addr + sector_size) = sector_addr + sector_size
<1> DEFINE e == sector_addr + sector_size
           s == flash_erase_sector_size(e)
<1>1. e \in Nat /\ s \in Nat /\ e - 1 \in Nat
  BY SectorSizeType DEF SectorSet
<1>2. flash_erase_sector_size(e - 1) = sector_size
  BY DEF SectorSet, KnownSector
<1>3. CASE s = 0
  BY <1>3 DEF Base
<1>4. CASE s # 0
  <2>1. PICK i \in DOMAIN Sectors : IsLastRun(i, e)
    BY <1>1, <1>4, SectorRun
  <2>2. PICK j \in DOMAIN Sectors : IsLastRun(j, e - 1)
    BY <1>1, <1>2, SectorRun DEF SectorSet
  <2>3. /\ DOMAIN Sectors = 1 .. Len(Sectors) /\ Len(Sectors) \in Nat
        /\ \A k \in DOMAIN Sectors : Sectors[k].start \in Nat /\ Sectors[k].size \in Nat
    <3>1. \A k \in DOMAIN Sectors : Sectors[k] \in Sector
      BY LayoutAssumption
    <3>2. Sectors \in Seq(Sector)
      BY LayoutAssumption
    <3>3. DOMAIN Sectors = 1 .. Len(Sectors) /\ Len(Sectors) \in Nat
      BY <3>2
    <3> QED BY <3>1, <3>3 DEF Sector
  <2>4. s = Sectors[i].size /\ sector_size = Sectors[j].size
    BY <1>1, <1>2, <2>1, <2>2, RunSize
  <2>5. CASE Sectors[i].start = e
    <3>1. e % s = 0
      BY <2>1, <2>3, <2>4, <2>5 DEF SectorsAligned
    <3> QED BY <1>1, <3>1 DEF Base, ROUND_DOWN
  <2>6. CASE Sectors[i].start # e
    <3>1. Sectors[i].start <= e - 1
      BY <1>1, <2>1, <2>3, <2>6 DEF IsLastRun
    <3>2. i = j
      <4>1. ~(i > j)
        BY <1>1, <2>2, <2>3, <3>1 DEF IsLastRun
      <4>2. ~(j > i)
        <5>1. Sectors[j].start <= e
          BY <1>1, <2>2, <2>3 DEF IsLastRun
        <5> QED BY <1>1, <2>1, <2>3, <5>1 DEF IsLastRun
      <4> QED BY <2>3, <4>1, <4>2
    <3>3. s = sector_size
      BY <2>4, <3>2
    <3>4. ROUND_DOWN(e, sector_size) = e
      BY RoundDownNext DEF SectorSet
    <3> QED BY <1>4, <3>3, <3>4 DEF Base
  <2> QED BY <2>5, <2>6
<1> QED
  BY <1>3, <1>4

LEMMA FilledSector ==
    ASSUME TypeInv, Buffered, state = "OPEN", ~page_empty
    PROVE  SectorSet /\ block_addr = sector_addr /\ block_size = sector_size
BY DEF TypeInv, AccTypeOK, Geometry, Buffered, SectorSet

\* The sector that bytes are copied to is the packet's, and some are copied.
LEMMA CopySector ==
    ASSUME TypeInv, Sectoring, Buffered, Packeting, pc = "copy"
    PROVE  /\ SectorSet /\ block_addr = sector_addr /\ block_size = sector_size
           /\ block_addr = Base(packet)
           /\ CopySize # 0
<1>1. SectorSet /\ block_addr = sector_addr /\ block_size = sector_size
  BY CopyBlock DEF TypeInv, AccTypeOK, Geometry, Buffered, SectorSet
<1>2. block_addr <= packet /\ packet < block_addr + block_size /\ packet \in Nat
  BY CopyBounds DEF TypeInv, AccTypeOK
<1>3. block_addr = Base(packet)
  BY <1>1, <1>2, BaseBlock
<1>4. CopySize # 0
  <2>1. Len(data) \in Nat \ {0}
    BY DEF Packeting, TypeInv, AccTypeOK
  <2>2. block_addr \in Nat /\ block_size \in Nat
    BY DEF TypeInv, AccTypeOK
  <2> QED BY <1>2, <2>1, <2>2 DEF CopySize, Smaller
<1> QED
  BY <1>1, <1>3, <1>4
-----------------------------------------------------------------------------
(***************************************************************************)
(* An empty buffer is blank, a session without a sector has promised       *)
(* nothing, and a buffer with bytes is that of a sector in scope.          *)
(***************************************************************************)
Looping == {"valid", "block", "sector", "loop", "more", "copy"}

Blanks ==
    /\ page_empty /\ (pc \in Looping \/ InSession) => page = Fill(block_size)
    /\ state = "OPEN" /\ ~sector_valid => open = NoSector /\ image = Blank /\ ~beyond
    /\ state = "OPEN" /\ ~page_empty => block_addr \in scope

LEMMA BlanksInit == Init => Blanks
BY DEF Init, AccInit, Blanks, Looping, InSession

LEMMA BlanksSame ==
    ASSUME Blanks, UNCHANGED <<sector, image, open, beyond>>, scope \subseteq scope',
           pc' \in Looping \/ (pc' = "idle" /\ pc # "idle") => pc \in Looping
    PROVE  Blanks'
BY DEF Blanks, sector, InSession

LEMMA BlanksCopy ==
    ASSUME TypeInv, Sectoring, Buffered, Packeting, Blanks, Copy
    PROVE  Blanks'
<1>1. pc = "copy" /\ page_empty' = (CopySize = 0)
      /\ UNCHANGED <<state, sector_valid, block_addr, history>>
  BY DEF Copy
<1>2. ~page_empty' /\ block_addr = Base(packet)
  BY <1>1, CopySector
<1>3. Writing
  BY <1>1 DEF Writing
<1>4. data # << >> /\ Len(data) \in Nat
  BY <1>1 DEF Packeting, TypeInv, AccTypeOK
<1>5. packet \in Covered(taken.addr, taken.data)
  BY <1>3, <1>4, TakenPacket DEF Covered
<1>6. block_addr \in scope
  BY <1>2, <1>3, <1>5 DEF Packeting, SectorsOf
<1>7. sector_valid /\ state = "OPEN"
  BY <1>1 DEF TypeInv, Geometry
<1> QED
  BY <1>1, <1>2, <1>6, <1>7 DEF Blanks, history

LEMMA BlanksOther ==
    ASSUME TypeInv, Buffered, Blanks,
           (AccStep /\ ~Copy) \/ User \/ Die \/ DeviceStep \/ UNCHANGED vars
    PROVE  Blanks'
<1> USE DEF Looping, InSession
<1>0. Geometry
  BY DEF TypeInv
<1>1. CASE state' # "OPEN" /\ pc' \notin Looping
  BY <1>1 DEF Blanks
<1>2. CASE Setup \/ SetupUndo
  <2>1. CASE state' = "ERROR" /\ pc' = "idle"
    BY <2>1 DEF Blanks
  <2>2. CASE ~(state' = "ERROR" /\ pc' = "idle")
    <3>1. pc' = "setup_algo" /\ page_empty /\ UNCHANGED <<page_empty, history, state, sector_valid>>
      BY <1>2, <2>2 DEF Setup, SetupUndo, WriteFails, AccReturn, Jump, Buffered, Setting
    <3> QED BY <3>1 DEF Blanks, history
  <2> QED BY <2>1, <2>2
<1>3. CASE SetupAlgo
  <2>1. page_empty /\ UNCHANGED <<page_empty, history, state, sector_valid, block_size>>
    BY <1>3 DEF SetupAlgo, Buffered, Setting
  <2>2. CASE result = "NONE"
    <3>1. page' = Fill(block_size)
      BY <1>3, <2>2 DEF SetupAlgo
    <3> QED BY <2>1, <3>1 DEF Blanks, history, Fill
  <2>3. CASE result # "NONE"
    <3>1. pc' = "setup_undo"
      BY <1>3, <2>3 DEF SetupAlgo
    <3> QED BY <2>1, <3>1 DEF Blanks, history
  <2> QED BY <2>2, <2>3
<1>4. CASE Flush \/ Compare \/ EraseDone \/ EraseUndo \/ WriteDone
  <2>1. pc' \in Flushing /\ UNCHANGED <<sector, history>>
    BY <1>4 DEF Flush, Compare, EraseDone, EraseUndo, WriteDone, Jump, FlushWith, Flushing
  <2> QED BY <2>1, BlanksSame DEF history, Flushing
<1>5. CASE Flushed
  <2>1. page_empty' /\ page' = Fill(block_size) /\ UNCHANGED <<sector_valid, block_size>>
    BY <1>5 DEF Flushed
  <2>2. state' = "ERROR" \/ UNCHANGED <<state, history>>
    BY <1>5 DEF Flushed, WriteFails
  <2> QED BY <2>1, <2>2 DEF Blanks, history, Fill
<1>6. CASE Valid \/ CheckBlock \/ CheckSector \/ LoopFlush \/ LoopSector
  <2>1. pc \in Looping /\ pc' # "idle" /\ UNCHANGED <<history, state, block_addr, block_size, page_empty, page>>
    BY <1>6 DEF Valid, CheckBlock, CheckSector, LoopFlush, LoopSector, Jump, Gosub, sector
  <2>2. sector_valid' = sector_valid \/ sector_valid' = TRUE
    BY <1>6 DEF Valid, CheckBlock, CheckSector, LoopFlush, LoopSector, sector
  <2> QED BY <2>1, <2>2 DEF Blanks, history
<1>7. CASE LoopEnd
  <2>1. sector_valid
    BY <1>0, <1>7 DEF LoopEnd, Geometry
  <2> QED BY <1>7, <2>1 DEF LoopEnd, Blanks
<1>8. CASE InitDone
  <2>1. page_empty /\ ~sector_valid
    BY <1>0, <1>8 DEF InitDone, Buffered, Geometry
  <2>2. /\ UNCHANGED <<sector_valid, block_addr, page_empty>> /\ pc' = "idle"
        /\ \/ image' = Blank /\ open' = NoSector /\ beyond' = FALSE
           \/ UNCHANGED <<state, history>>
    BY <1>8 DEF InitDone, AccReturn, Forget
  <2>3. CASE UNCHANGED <<state, history>>
    BY <2>1, <2>2, <2>3 DEF Blanks, history
  <2> QED BY <2>1, <2>2, <2>3 DEF Blanks
<1>9. CASE Close \/ Uninit
  <2>1. pc' \in {"idle", "flush", "close", "closing"} /\ UNCHANGED <<sector, history>>
        /\ (pc' = "idle" => pc = "idle")
    BY <1>9 DEF Close, Uninit, Jump, Gosub, AccReturn, TypeInv, AccTypeOK
  <2> QED BY <2>1, BlanksSame DEF history
<1>10. CASE Closing \/ Die
  BY <1>1, <1>10 DEF Closing, Die, AccReturn
<1>11. CASE CallInitSession
  <2>1. CASE state = "CLOSED"
    BY <1>1, <1>11, <2>1 DEF CallInitSession, Jump
  <2>2. CASE state # "CLOSED"
    BY <1>11, <2>2, BlanksSame DEF CallInitSession, AccReturn, history
  <2> QED BY <2>1, <2>2
<1>12. ASSUME NEW p, NEW d, Write(p, d) PROVE Blanks'
  BY <1>12 DEF Write, Accepting, AccReturn, Blanks, sector, history
<1>13. CASE DeviceStep \/ UNCHANGED vars
  BY <1>13 DEF DeviceStep, vars, acc_vars, sector, args, history, Blanks
<1> QED
  BY <1>2, <1>3, <1>4, <1>5, <1>6, <1>7, <1>8, <1>9, <1>10, <1>11, <1>12, <1>13 DEF AccStep, User

LEMMA BlanksStep ==
    TypeInv /\ Sectoring /\ Buffered /\ Packeting /\ Blanks /\ [Next]_vars => Blanks'
BY BlanksCopy, BlanksOther DEF Next, AccStep
-----------------------------------------------------------------------------
(***************************************************************************)
(* The open sector.  The packet's sector takes more bytes exactly while    *)
(* its bytes are in the buffer: the history's notion of an open sector is  *)
(* the buffer of the code.                                                 *)
(***************************************************************************)
BlockEnd == block_addr + block_size

LastOpen ==
    /\ open # NoSector => ~page_empty /\ block_addr = open
    /\ open # NoSector => last_packet < BlockEnd
    /\ ~page_empty /\ last_packet < BlockEnd => open = block_addr

\* The packet's sector holds bytes already, of this packet or of one before.
Touched == IF Consumed = 0 THEN open = Base(packet) ELSE Base(packet) # packet

BufferTouched ==
    /\ Touched => ~page_empty /\ block_addr = Base(packet)
    /\ ~page_empty /\ packet < BlockEnd => Touched

Opening ==
    /\ state = "OPEN" /\ pc \in {"idle", "block"} => LastOpen
    /\ pc \in {"sector", "loop", "more", "copy"} => BufferTouched
    /\ pc \in Setting \cup {"valid"} \/ (pc \in Flushing /\ back_to # "close") => ~Touched

LEMMA OpeningInit == Init => Opening
BY DEF Init, AccInit, Opening, Setting, Flushing

\* The packet's sector and the one in the buffer, when they are the same.
LEMMA SameSector ==
    ASSUME SectorsAligned, TypeInv, Buffered, state = "OPEN", ~page_empty, NEW p \in Nat,
           block_addr = Base(p)
    PROVE  block_addr <= p /\ p < BlockEnd /\ ROUND_DOWN(p, block_size) = block_addr
<1>1. SectorSet /\ block_addr = sector_addr /\ block_size = sector_size
  BY FilledSector
<1>2. block_addr <= p /\ p < BlockEnd
  BY <1>1, BaseInside DEF BlockEnd
<1>3. ROUND_DOWN(p, block_size) = ROUND_DOWN(sector_addr, block_size)
  BY <1>1, <1>2, RoundDownBlock DEF SectorSet, BlockEnd
<1> QED
  BY <1>1, <1>2, <1>3 DEF SectorSet

LEMMA OpeningBlock ==
    ASSUME SectorsAligned, TypeInv, Buffered, Packeting, Opening, CheckBlock
    PROVE  Opening'
<1>1. /\ pc = "block" /\ state = "OPEN" /\ Consumed = 0 /\ LastOpen
      /\ packet \in Nat /\ last_packet \in Nat /\ block_size \in Nat \ {0} /\ block_addr \in Nat
      /\ block_addr = ROUND_DOWN(last_packet, block_size)
  BY DEF CheckBlock, TypeInv, Geometry, AccTypeOK, InBlock, Packeting, Opening
<1>2. UNCHANGED <<sector, history, packet, data>>
  BY DEF CheckBlock, Jump, Gosub
<1>3. Touched' <=> Touched
  BY <1>2 DEF Touched, Consumed, history
<1>4. Touched <=> open = Base(packet)
  BY <1>1 DEF Touched
<1>5. last_packet < BlockEnd
  BY <1>1, RoundDown DEF BlockEnd
<1>6. Touched => ~page_empty /\ block_addr = Base(packet)
  BY <1>1, <1>4, BaseBelow DEF LastOpen, NoSector
<1>7. CASE ROUND_DOWN(packet, block_size) # ROUND_DOWN(last_packet, block_size)
  <2>1. ~Touched
    BY <1>1, <1>6, <1>7, SameSector
  <2>2. pc' = "flush"
    BY <1>7 DEF CheckBlock, Gosub
  <2> QED BY <1>3, <2>1, <2>2 DEF Opening, Setting
<1>8. CASE ROUND_DOWN(packet, block_size) = ROUND_DOWN(last_packet, block_size)
  <2>1. ASSUME ~page_empty PROVE Touched
    <3>1. SectorSet /\ block_addr = sector_addr /\ block_size = sector_size
      BY <1>1, <2>1, FilledSector
    <3>2. block_addr <= packet /\ packet < BlockEnd
      BY <1>1, <1>8, RoundDown DEF BlockEnd
    <3>3. Base(packet) = block_addr
      BY <1>1, <3>1, <3>2, BaseBlock DEF BlockEnd
    <3> QED BY <1>1, <1>4, <1>5, <2>1, <3>3 DEF LastOpen
  <2>2. BufferTouched
    BY <1>6, <2>1 DEF BufferTouched
  <2>3. pc' = "sector"
    BY <1>8 DEF CheckBlock, Jump
  <2> QED BY <1>2, <1>3, <2>2, <2>3 DEF Opening, BufferTouched, BlockEnd, sector, Setting, Flushing
<1> QED
  BY <1>7, <1>8

LEMMA OpeningLoop ==
    ASSUME SectorsAligned, TypeInv, Buffered, Packeting, Opening,
           CheckSector \/ LoopFlush \/ LoopSector
    PROVE  Opening'
<1>1. /\ state = "OPEN" /\ BufferTouched
      /\ packet \in Nat /\ block_size \in Nat \ {0} /\ block_addr \in Nat
      /\ block_size = sector_size /\ sector_addr \in Nat
      /\ UNCHANGED <<sector, history, packet, data>>
  BY DEF CheckSector, LoopFlush, LoopSector, Jump, Gosub, TypeInv, Geometry, AccTypeOK, Opening
<1>2. Touched' <=> Touched
  BY <1>1 DEF Touched, Consumed, history
<1>3. BufferTouched'
  BY <1>1, <1>2 DEF BufferTouched, BlockEnd, sector
<1>4. pc' \in {"setup", "flush"} => ~Touched
  <2>1. CASE CheckSector
    BY <1>1, <2>1 DEF CheckSector, Jump, Gosub, Buffered, BufferTouched
  <2>2. CASE LoopFlush
    BY <1>1, <2>2, SameSector DEF LoopFlush, Jump, Gosub, BufferTouched, BlockEnd
  <2>3. CASE LoopSector
    <3>1. ~page_empty => block_addr = sector_addr
      BY <1>1 DEF Buffered
    <3> QED BY <1>1, <2>3, <3>1, SameSector DEF LoopSector, Jump, Gosub, BufferTouched, BlockEnd
  <2> QED BY <2>1, <2>2, <2>3
<1>5. pc' \in {"setup", "flush", "loop", "more", "copy"}
  BY DEF CheckSector, LoopFlush, LoopSector, Jump, Gosub
<1> QED
  BY <1>2, <1>3, <1>4, <1>5 DEF Opening, Setting, Flushing

LEMMA OpeningCopy ==
    ASSUME SectorsAligned, TypeInv, Sectoring, Buffered, Packeting, Opening, Copy
    PROVE  Opening'
<1> DEFINE n == CopySize
<1>1. /\ pc = "copy" /\ pc' = "loop" /\ page_empty' = (n = 0) /\ packet' = packet + n
      /\ data' = SubSeq(data, n + 1, Len(data))
      /\ UNCHANGED <<history, state, block_addr, block_size>>
  BY DEF Copy
<1>2. /\ SectorSet /\ block_addr = sector_addr /\ block_size = sector_size
      /\ block_addr = Base(packet) /\ n # 0
  BY <1>1, CopySector
<1>3. /\ block_addr <= packet /\ packet < block_addr + block_size
      /\ n \in Nat /\ n <= Len(data) /\ packet - block_addr + n <= block_size
      /\ packet \in Nat /\ block_addr \in Nat /\ block_size \in Nat /\ data \in Seq(Byte)
  BY <1>1, CopyBounds DEF TypeInv, AccTypeOK
<1> HIDE DEF n
<1>4. Consumed' # 0
  <2>1. Writing /\ Consumed \in Nat /\ Len(taken.data) = Consumed + Len(data) /\ Len(data) \in Nat
    BY <1>1, <1>3, TakenPacket DEF Writing
  <2>2. Len(data') = Len(data) - n
    <3> DEFINE rest == SubSeq(data, n + 1, Len(data))
    <3>1. Len(rest) = Len(data) - n
      BY <1>3, <2>1, PartOf
    <3>2. data' = rest
      BY <1>1
    <3> HIDE DEF rest
    <3> QED BY <3>1, <3>2, Zenon
  <2>3. Consumed' = Len(taken.data) - Len(data')
    <3>1. taken' = taken
      BY <1>1 DEF history
    <3> QED BY <3>1, Zenon DEF Consumed
  <2>4. n \in Nat \ {0}
    BY <1>2, <1>3
  <2>5. Consumed' = Consumed + n
    BY <2>1, <2>2, <2>3, <2>4
  <2> QED BY <2>1, <2>4, <2>5
<1>5. packet' \in Nat /\ block_addr < packet' /\ packet' <= BlockEnd
  BY <1>1, <1>2, <1>3 DEF BlockEnd
<1>6. CASE packet' < BlockEnd
  <2>1. Base(packet') = block_addr
    BY <1>2, <1>3, <1>5, <1>6, BaseBlock DEF BlockEnd
  <2>2. Base(packet)' = block_addr
    BY <2>1 DEF Base
  <2>3. Base(packet)' # packet' /\ block_addr' = block_addr /\ ~page_empty'
    <3>1. ~page_empty' /\ block_addr' = block_addr
      BY <1>1, <1>2
    <3>2. packet' # block_addr
      BY <1>3, <1>5
    <3> QED BY <2>2, <3>1, <3>2
  <2> QED BY <1>1, <1>4, <2>2, <2>3 DEF Opening, BufferTouched, Touched, Setting, Flushing
<1>7. CASE packet' = BlockEnd
  <2>1. Base(packet') = packet'
    BY <1>2, <1>7, BaseNext DEF BlockEnd
  <2>2. Base(packet)' = packet'
    BY <2>1 DEF Base
  <2>3. ~(packet' < BlockEnd') /\ packet' \in Nat
    BY <1>1, <1>5, <1>7 DEF BlockEnd
  <2> QED BY <1>1, <1>4, <2>2, <2>3 DEF Opening, BufferTouched, Touched, Setting, Flushing
<1> QED
  BY <1>3, <1>5, <1>6, <1>7 DEF BlockEnd

LEMMA OpeningEnd ==
    ASSUME TypeInv, Buffered, Packeting, Opening, LoopEnd
    PROVE  Opening'
<1>1. /\ pc = "more" /\ pc' = "idle" /\ data = << >> /\ last_packet' = packet
      /\ open' = OpenAfter(open, taken.addr, taken.data)
      /\ UNCHANGED <<block_addr, block_size, page_empty>>
  BY DEF LoopEnd, AccReturn
<1>2. /\ BufferTouched /\ packet \in Nat /\ block_addr \in Nat /\ block_size \in Nat \ {0}
      /\ block_addr = ROUND_DOWN(packet, block_size)
  BY <1>1 DEF TypeInv, AccTypeOK, Geometry, InBlock, Opening
<1>3. packet < BlockEnd
  BY <1>2, RoundDown DEF BlockEnd
<1>4. /\ Writing /\ Consumed = Len(taken.data) /\ packet = taken.addr + Len(taken.data)
      /\ Len(taken.data) \in Nat /\ taken.addr \in Nat /\ taken.data \in Seq(Byte)
  BY <1>1, TakenPacket DEF Writing
<1>5. open' = IF Touched THEN Base(packet) ELSE NoSector
  <2>1. CASE taken.data = << >>
    BY <1>1, <1>4, <2>1 DEF OpenAfter, Touched
  <2>2. CASE taken.data # << >>
    <3>1. Consumed # 0
      BY <1>4, <2>2
    <3> QED BY <1>1, <1>4, <2>2, <3>1 DEF OpenAfter, Touched
  <2> QED BY <2>1, <2>2
<1>6. LastOpen'
  <2>1. CASE Touched
    BY <1>1, <1>2, <1>3, <1>5, <2>1 DEF LastOpen, BufferTouched, BlockEnd
  <2>2. CASE ~Touched
    BY <1>1, <1>2, <1>3, <1>5, <2>2 DEF LastOpen, BufferTouched, BlockEnd
  <2> QED BY <2>1, <2>2
<1> QED
  BY <1>1, <1>6 DEF Opening, Setting, Flushing

LEMMA OpeningOther ==
    ASSUME TypeInv, Buffered, Packeting, Blanks, Opening,
           \/ InitDone \/ Setup \/ SetupAlgo \/ SetupUndo
           \/ Flush \/ Compare \/ EraseDone \/ EraseUndo \/ WriteDone \/ Flushed \/ Valid
           \/ Close \/ Closing \/ User \/ Die \/ DeviceStep \/ UNCHANGED vars
    PROVE  Opening'
<1> USE DEF Setting, Flushing
<1>0. Geometry
  BY DEF TypeInv
<1>1. CASE state' # "OPEN" /\ pc' \in {"idle", "init", "close", "closing"}
  BY <1>1 DEF Opening
<1>2. CASE Setup \/ SetupAlgo \/ SetupUndo
  <2>1. CASE pc' = "idle"
    <3>1. back_to \in {"valid", "loop", "copy"}
      BY <1>0, <1>2 DEF Setup, SetupAlgo, SetupUndo, Geometry
    <3>2. state' = "ERROR"
      BY <1>2, <2>1, <3>1 DEF Setup, SetupAlgo, SetupUndo, WriteFails, Jump
    <3> QED BY <1>1, <2>1, <3>2
  <2>2. CASE pc' # "idle"
    <3>1. /\ UNCHANGED <<packet, data, history, page_empty, back_to>> /\ page_empty
          /\ pc' \in {"setup_algo", "setup_undo"} \/ pc' = back_to
          /\ back_to \in {"valid", "loop", "copy"}
      BY <1>0, <1>2, <2>2 DEF Setup, SetupAlgo, SetupUndo, WriteFails, AccReturn, Jump, Geometry,
         Buffered
    <3>2. ~Touched /\ (Touched' <=> Touched)
      BY <1>2, <3>1 DEF Opening, Touched, Consumed, history, Setup, SetupAlgo, SetupUndo
    <3> QED BY <3>1, <3>2 DEF Opening, BufferTouched
  <2> QED BY <2>1, <2>2
<1>3. CASE Flush \/ Compare \/ EraseDone \/ EraseUndo \/ WriteDone
  <2>1. pc \in Flushing /\ pc' \in Flushing /\ UNCHANGED <<packet, data, history, back_to>>
    BY <1>3 DEF Flush, Compare, EraseDone, EraseUndo, WriteDone, Jump, FlushWith
  <2>2. Touched' <=> Touched
    BY <2>1 DEF Touched, Consumed, history
  <2> QED BY <2>1, <2>2 DEF Opening
<1>4. CASE Flushed
  <2>1. back_to \in {"sector", "more", "close"} /\ page_empty'
    BY <1>0, <1>4 DEF Flushed, Geometry
  <2>2. CASE pc' = "idle"
    <3>1. state' = "ERROR"
      BY <1>4, <2>1, <2>2 DEF Flushed, WriteFails, FlushWith
    <3> QED BY <1>1, <2>2, <3>1
  <2>3. CASE pc' # "idle"
    <3>1. pc' = back_to /\ UNCHANGED <<packet, data, history, back_to>>
      BY <1>4, <2>3 DEF Flushed, WriteFails, AccReturn, FlushWith
    <3>2. Touched' <=> Touched
      BY <3>1 DEF Touched, Consumed, history
    <3>3. back_to # "close" => ~Touched
      BY <1>4 DEF Flushed, Opening
    <3> QED BY <2>1, <3>1, <3>2, <3>3 DEF Opening, BufferTouched
  <2> QED BY <2>2, <2>3
<1>5. CASE Valid
  <2>1. page_empty /\ state = "OPEN" /\ ~sector_valid
    BY <1>0, <1>5 DEF Valid, Geometry, Buffered, Packeting
  <2>2. open = NoSector /\ UNCHANGED <<page_empty, open>> /\ pc' = "block"
    BY <1>5, <2>1 DEF Valid, Jump, Blanks, history
  <2> QED BY <2>1, <2>2 DEF Opening, LastOpen
<1>6. CASE InitDone
  <2>1. page_empty /\ page_empty' = page_empty /\ pc' = "idle"
    BY <1>6 DEF InitDone, AccReturn, Buffered
  <2>2. open' = NoSector \/ UNCHANGED <<state, open>>
    BY <1>6 DEF InitDone, Forget, history
  <2>3. CASE open' = NoSector
    BY <2>1, <2>3 DEF Opening, LastOpen
  <2>4. CASE UNCHANGED <<state, open>>
    <3>1. ~sector_valid
      BY <1>0, <1>6 DEF InitDone, Geometry
    <3>2. state = "OPEN" => open = NoSector
      BY <3>1 DEF Blanks
    <3> QED BY <2>1, <2>4, <3>2 DEF Opening, LastOpen
  <2> QED BY <2>2, <2>3, <2>4
<1>7. CASE CallInitSession
  <2>1. CASE state = "CLOSED"
    BY <1>1, <1>7, <2>1 DEF CallInitSession, Jump
  <2>2. CASE state # "CLOSED"
    BY <1>7, <2>2 DEF CallInitSession, AccReturn, Opening, LastOpen, BlockEnd, sector, history
  <2> QED BY <2>1, <2>2
<1>8. ASSUME NEW k \in Packets, Write(k.addr, k.data) PROVE Opening'
  <2>1. CASE state # "OPEN"
    BY <1>1, <1>8, <2>1 DEF Write, Accepting, AccReturn, sector
  <2>2. CASE state = "OPEN" /\ sector_valid
    BY <1>8, <2>2 DEF Write, Accepting, Opening, LastOpen, BlockEnd, sector
  <2>3. CASE state = "OPEN" /\ ~sector_valid
    <3>1. /\ pc' = "setup" /\ packet' = k.addr /\ open' = open /\ data' = k.data
          /\ taken' = [addr |-> k.addr, data |-> k.data]
      BY <1>8, <2>3 DEF Write, Accepting
    <3>2. open = NoSector /\ packet' \in Nat /\ k.data \in Seq(Byte)
      BY <2>3, <3>1, UserAssumption DEF Blanks
    <3>3. Consumed' = 0
      BY <3>1, <3>2 DEF Consumed
    <3>4. Base(packet') \in Nat
      BY <3>2, BaseBelow
    <3>5. Base(packet)' = Base(packet')
      BY DEF Base
    <3>6. ~Touched'
      BY <3>1, <3>2, <3>3, <3>4, <3>5 DEF Touched, NoSector
    <3> QED BY <3>1, <3>6 DEF Opening
  <2> QED BY <2>1, <2>2, <2>3
<1>9. CASE Uninit
  <2>1. CASE state = "OPEN"
    BY <1>9, <2>1 DEF Uninit, Gosub, Opening
  <2>2. CASE state # "OPEN"
    BY <1>1, <1>9, <2>2 DEF Uninit, AccReturn, Jump, sector, TypeInv, AccTypeOK
  <2> QED BY <2>1, <2>2
<1>10. CASE Close
  BY <1>10 DEF Close, Jump, Opening
<1>11. CASE Closing \/ Die
  BY <1>1, <1>11 DEF Closing, Die, AccReturn
<1>12. CASE DeviceStep \/ UNCHANGED vars
  <2>1. UNCHANGED <<pc, sector, packet, data, back_to, history>>
    BY <1>12 DEF DeviceStep, vars, acc_vars, args
  <2> QED BY <2>1 DEF sector, history, Opening, LastOpen, BufferTouched, Touched, Consumed, BlockEnd
<1> QED
  BY <1>2, <1>3, <1>4, <1>5, <1>6, <1>7, <1>8, <1>9, <1>10, <1>11, <1>12 DEF User

LEMMA OpeningStep ==
    ASSUME SectorsAligned
    PROVE  TypeInv /\ Sectoring /\ Buffered /\ Packeting /\ Blanks /\ Opening /\ [Next]_vars
           => Opening'
BY OpeningBlock, OpeningLoop, OpeningCopy, OpeningEnd, OpeningOther DEF Next, AccStep
-----------------------------------------------------------------------------
(***************************************************************************)
(* The image.  What the accepted packets and the running one up to where   *)
(* it has got to have promised is in the buffer, or in the flash where     *)
(* there is no buffer; and once bytes past the end of the flash are        *)
(* promised the buffer cannot be flushed.                                  *)
(***************************************************************************)
Passed(a) == taken.addr <= a /\ a < packet

Cleared(a) ==
    /\ \E x \in taken.addr .. packet - 1 : Base(x) = Base(a)
    /\ ~(Base(taken.addr) = open /\ Base(a) = open)

Wanted(a) ==
    IF ~Writing THEN image[a]
    ELSE IF Passed(a) THEN taken.data[a - taken.addr + 1]
    ELSE IF Cleared(a) THEN FF
    ELSE image[a]

InBuffer(a) == ~page_empty /\ block_addr <= a /\ a < BlockEnd
Sees(a) == IF InBuffer(a) THEN page[a - block_addr + 1] ELSE flash[a]

Promising == state = "OPEN" /\ (pc \in {"close", "closing"} => status = "NONE")
PassedEnd == beyond \/ (Writing /\ Consumed > 0 /\ packet > MaxAddr + 1)

Promised ==
    Promising =>
        /\ \A a \in Addr : Wanted(a) # Unset => Sees(a) = Wanted(a)
        /\ PassedEnd => ~page_empty /\ ~BlockReadable

LEMMA PromisedInit == Init => Promised
BY DEF Init, AccInit, Promised, Promising

LEMMA SameWanted ==
    ASSUME UNCHANGED <<taken, packet, data, open, image, beyond>>, Writing' <=> Writing
    PROVE  (PassedEnd' <=> PassedEnd) /\ \A a \in Addr : Wanted(a)' = Wanted(a)
BY DEF Wanted, Passed, Cleared, PassedEnd, Consumed

LEMMA SameSees ==
    ASSUME UNCHANGED <<block_addr, block_size, page_empty, page, flash>>
    PROVE  (BlockReadable' <=> BlockReadable) /\ \A a \in Addr : Sees(a)' = Sees(a)
BY DEF Sees, InBuffer, BlockEnd, BlockReadable

LEMMA PromisedSame ==
    ASSUME Promised, Promising' => Promising,
           PassedEnd' <=> PassedEnd,
           page_empty' = page_empty, BlockReadable' <=> BlockReadable,
           \A a \in Addr : Wanted(a)' = Wanted(a) /\ Sees(a)' = Sees(a)
    PROVE  Promised'
BY DEF Promised

\* The steps that only move the control of a write or of a flush.
LEMMA PromisedControl ==
    ASSUME TypeInv, Promised,
           \/ Flush \/ Compare \/ EraseDone \/ EraseUndo \/ WriteDone
           \/ Valid \/ CheckBlock \/ CheckSector \/ LoopFlush \/ LoopSector \/ Close
    PROVE  Promised'
<1>1. /\ UNCHANGED <<taken, packet, data, open, image, beyond>>
      /\ UNCHANGED <<state, block_addr, block_size, page_empty, page, flash>>
  BY DEF Flush, Compare, EraseDone, EraseUndo, WriteDone, Valid, CheckBlock, CheckSector, LoopFlush,
     LoopSector, Close, Jump, Gosub, FlushWith, history, sector, tf_vars, mcu, CallFlashUninit,
     CallProgramPage, CallEraseSector, StartCall
<1>2. /\ Writing' <=> Writing
      /\ Promising' => Promising
  <2>1. CASE Flush \/ Compare \/ EraseDone \/ EraseUndo \/ WriteDone
    <3>1. pc \in Flushing /\ pc' \in Flushing /\ UNCHANGED <<back_to, state>>
      BY <1>1, <2>1 DEF Flush, Compare, EraseDone, EraseUndo, WriteDone, Jump, FlushWith, Flushing
    <3> QED BY <3>1 DEF Writing, Promising, Setting, Flushing
  <2>2. CASE Valid \/ CheckBlock \/ CheckSector \/ LoopFlush \/ LoopSector
    BY <1>1, <2>2 DEF Valid, CheckBlock, CheckSector, LoopFlush, LoopSector, Jump, Gosub, Writing,
       Promising, Setting, Flushing
  <2>3. CASE Close
    BY <1>1, <2>3 DEF Close, Jump, Writing, Promising, Setting, Flushing
  <2> QED BY <2>1, <2>2, <2>3
<1> QED
  BY <1>1, <1>2, SameWanted, SameSees, PromisedSame

\* Setting up a sector: the buffer is empty before and after.
LEMMA PromisedSetup ==
    ASSUME TypeInv, Buffered, Promised, Setup \/ SetupAlgo \/ SetupUndo
    PROVE  Promised'
<1>1. CASE pc' = "idle"
  <2>1. back_to \in {"valid", "loop", "copy"}
    BY DEF Setup, SetupAlgo, SetupUndo, Setting, TypeInv, Geometry
  <2>2. state' = "ERROR"
    BY <1>1, <2>1 DEF Setup, SetupAlgo, SetupUndo, WriteFails, Jump
  <2> QED BY <2>2 DEF Promised, Promising
<1>2. CASE pc' # "idle"
  <2>1. /\ UNCHANGED <<packet, data, history, page_empty, back_to, state, flash>>
        /\ page_empty /\ pc \in Setting
        /\ pc' \in {"setup_algo", "setup_undo", "valid", "loop", "copy"}
    BY <1>2 DEF Setup, SetupAlgo, SetupUndo, WriteFails, AccReturn, Jump, Geometry, TypeInv,
       Buffered, Setting, tf_vars, mcu, CallAlgoSet, CallFlashUninit, StartCall
  <2>2. (Writing' <=> Writing) /\ (Promising' => Promising)
    BY <2>1 DEF Writing, Promising, Setting
  <2>3. (PassedEnd' <=> PassedEnd) /\ \A a \in Addr : Wanted(a)' = Wanted(a)
    BY <2>1, <2>2, SameWanted DEF history
  <2>4. \A a \in Addr : Sees(a)' = Sees(a)
    BY <2>1 DEF Sees, InBuffer
  <2> QED BY <2>1, <2>2, <2>3, <2>4 DEF Promised
<1> QED
  BY <1>1, <1>2

\* After a flush that went well the flash holds what the buffer held.
LEMMA PromisedFlushed ==
    ASSUME TypeInv, Buffered, Flushes, Promised, Flushed
    PROVE  Promised'
<1> SUFFICES ASSUME Promising' PROVE Promised'
  BY DEF Promised
<1>1. /\ state = "OPEN" /\ pc = "flushed" /\ back_to \in {"sector", "more", "close"}
      /\ page_empty' /\ flash' = flash
  BY DEF Flushed, Flushes, Flushing, TypeInv, Geometry, tf_vars, mcu
<1>2. pc' = back_to /\ status = "NONE" /\ UNCHANGED <<packet, data, back_to, history>>
  BY <1>1 DEF Promising, Flushed, WriteFails, AccReturn, FlushWith
<1>3. Writing' <=> Writing
  BY <1>1, <1>2 DEF Writing, Setting, Flushing
<1>4. (PassedEnd' <=> PassedEnd) /\ \A a \in Addr : Wanted(a)' = Wanted(a)
  BY <1>2, <1>3, SameWanted DEF history
<1>5. ~page_empty => BlockReadable /\ SameAsFlash
  BY <1>1, <1>2 DEF Flushes
<1>6. Promising
  BY <1>1 DEF Promising
<1>7. ~PassedEnd
  BY <1>5, <1>6 DEF Promised
<1>8. ASSUME NEW a \in Addr PROVE Sees(a) = flash[a] /\ Sees(a)' = flash[a]
  <2>1. Sees(a)' = flash[a]
    BY <1>1 DEF Sees, InBuffer
  <2>2. CASE InBuffer(a)
    <3>1. /\ block_addr \in Nat /\ block_size \in Nat \ {0} /\ Len(page) = block_size
          /\ a \in Nat /\ block_addr <= a /\ a < block_addr + block_size /\ SameAsFlash
      BY <1>1, <1>5, <2>2, FullBlock, AddrNat DEF InBuffer, BlockEnd
    <3>2. a - block_addr + 1 \in 1 .. Len(page) /\ block_addr + (a - block_addr + 1) - 1 = a
      BY <3>1
    <3>3. flash[a] = page[a - block_addr + 1]
      BY <3>1, <3>2 DEF SameAsFlash, Holds
    <3> QED BY <2>1, <2>2, <3>3 DEF Sees
  <2>3. CASE ~InBuffer(a)
    BY <2>1, <2>3 DEF Sees
  <2> QED BY <2>2, <2>3
<1>9. \A a \in Addr : Wanted(a)' # Unset => Sees(a)' = Wanted(a)'
  BY <1>4, <1>6, <1>8 DEF Promised
<1> QED
  BY <1>4, <1>7, <1>9 DEF Promised

\* The image of an accepted packet is what was wanted when it had all been copied.
LEMMA AcceptedImage ==
    ASSUME TypeInv, Packeting, Writing, data = << >>, NEW a \in Addr
    PROVE  ImageAfter(image, open, taken.addr, taken.data)[a] = Wanted(a)
<1>1. /\ taken.addr \in Nat /\ Len(taken.data) \in Nat /\ taken.data \in Seq(Byte)
      /\ packet = taken.addr + Len(taken.data)
  BY TakenPacket
<1>2. a \in Nat
  BY AddrNat
<1>3. Covered(taken.addr, taken.data) = taken.addr .. packet - 1
  BY <1>1 DEF Covered
<1>4. a \in Covered(taken.addr, taken.data) <=> Passed(a)
  BY <1>1, <1>2, <1>3 DEF Passed
<1>5. Base(a) \in Fresh(open, taken.addr, taken.data) <=> Cleared(a)
  <2>1. CASE taken.data = << >>
    BY <1>1, <2>1 DEF Fresh, Cleared
  <2>2. CASE taken.data # << >>
    <3>1. taken.addr \in taken.addr .. packet - 1
      BY <1>1, <2>2
    <3>2. Base(a) \in SectorsOf(taken.addr, taken.data)
          <=> \E x \in taken.addr .. packet - 1 : Base(x) = Base(a)
      BY <1>3, <3>1 DEF SectorsOf
    <3> QED BY <2>2, <3>2 DEF Fresh, Cleared
  <2> QED BY <2>1, <2>2
<1> QED
  BY <1>4, <1>5 DEF ImageAfter, Wanted

LEMMA PromisedEnd ==
    ASSUME TypeInv, Packeting, Promised, LoopEnd
    PROVE  Promised'
<1>1. /\ pc = "more" /\ pc' = "idle" /\ data = << >> /\ state' = state
      /\ image' = ImageAfter(image, open, taken.addr, taken.data)
      /\ beyond' = (beyond \/ PastEnd(taken.addr, taken.data))
      /\ UNCHANGED <<block_addr, block_size, page_empty, page, flash>>
  BY DEF LoopEnd, AccReturn, tf_vars, mcu
<1>2. Writing /\ ~Writing' /\ (Promising' => Promising)
  BY <1>1 DEF Writing, Promising, Setting, Flushing
<1>3. \A a \in Addr : Wanted(a)' = Wanted(a)
  BY <1>1, <1>2, AcceptedImage DEF Wanted
<1>4. PassedEnd' <=> PassedEnd
  <2>1. /\ packet = taken.addr + Len(taken.data) /\ Len(taken.data) \in Nat
        /\ Consumed = Len(taken.data) /\ taken.data \in Seq(Byte)
    BY <1>1, <1>2, TakenPacket
  <2>2. taken.data # << >> <=> Consumed > 0
    BY <2>1
  <2>3. PastEnd(taken.addr, taken.data) <=> Consumed > 0 /\ packet > MaxAddr + 1
    BY <2>1, <2>2 DEF PastEnd
  <2>4. beyond \in BOOLEAN
    BY DEF TypeInv, HistoryTypeOK
  <2> QED BY <1>1, <1>2, <2>3, <2>4 DEF PassedEnd
<1> QED
  BY <1>1, <1>2, <1>3, <1>4, SameSees, PromisedSame

\* A packet that has just been handed over promises nothing yet.
LEMMA PromisedWrite ==
    ASSUME TypeInv, Promised, NEW p \in Nat, NEW d \in Seq(Byte), Write(p, d)
    PROVE  Promised'
<1> SUFFICES ASSUME Promising' PROVE Promised'
  BY DEF Promised
<1>1. /\ state = "OPEN" /\ pc = "idle" /\ packet' = p /\ data' = d
      /\ taken' = [addr |-> p, data |-> d]
      /\ UNCHANGED <<image, open, beyond, block_addr, block_size, page_empty, page, flash>>
  BY DEF Promising, Write, Accepting, AccReturn, sector, tf_vars, mcu
<1>2. ~Writing /\ Promising
  BY <1>1 DEF Writing, Promising, Setting, Flushing
<1>3. Consumed' = 0
  BY <1>1 DEF Consumed
<1>4. PassedEnd' <=> PassedEnd
  BY <1>1, <1>2, <1>3 DEF PassedEnd
<1>5. ASSUME NEW a \in Addr PROVE Wanted(a)' = Wanted(a)
  <2>1. ~Passed(a)' /\ ~Cleared(a)'
    BY <1>1, AddrNat DEF Passed, Cleared
  <2> QED BY <1>1, <1>2, <2>1 DEF Wanted
<1> QED
  BY <1>1, <1>2, <1>4, <1>5, SameSees, PromisedSame

LEMMA PromisedOther ==
    ASSUME TypeInv, Device, Buffered, Flushes, Blanks, Promised,
           InitDone \/ CallInitSession \/ Uninit \/ Closing \/ Die \/ UNCHANGED vars
    PROVE  Promised'
<1>1. CASE state' # "OPEN"
  BY <1>1 DEF Promised, Promising
<1>2. CASE InitDone
  <2>1. state = "CLOSED" /\ page_empty
    BY <1>2 DEF InitDone, Device, Buffered
  <2>2. CASE result # "NONE"
    BY <1>1, <1>2, <2>1, <2>2 DEF InitDone
  <2>3. CASE result = "NONE"
    <3>1. pc' = "idle" /\ image' = Blank /\ beyond' = FALSE
      BY <1>2, <2>3 DEF InitDone, AccReturn, Forget
    <3>2. ~Writing'
      BY <3>1 DEF Writing, Setting, Flushing
    <3> QED BY <3>1, <3>2 DEF Promised, PassedEnd, Wanted, Blank
  <2> QED BY <2>2, <2>3
<1>3. CASE CallInitSession \/ Uninit
  <2>1. CASE state = "CLOSED"
    BY <1>1, <1>3, <2>1 DEF CallInitSession, Uninit, sector
  <2>2. CASE state # "CLOSED"
    <3>1. /\ UNCHANGED <<tf_vars, sector, history>> /\ pc = "idle"
          /\ \/ pc' = "idle"
             \/ state # "OPEN"
             \/ pc' = "flush" /\ back_to' = "close"
      BY <1>3, <2>2 DEF CallInitSession, Uninit, AccReturn, Gosub, Jump, TypeInv, AccTypeOK
    <3>2. CASE state # "OPEN"
      BY <1>1, <3>1, <3>2 DEF sector
    <3>3. CASE state = "OPEN"
      <4>1. ~Writing /\ ~Writing' /\ Promising
        BY <3>1, <3>3 DEF Writing, Promising, Setting, Flushing
      <4>2. UNCHANGED <<image, beyond, block_addr, block_size, page_empty, page, flash>>
        BY <3>1 DEF sector, history, tf_vars, mcu
      <4>3. (PassedEnd' <=> PassedEnd) /\ \A a \in Addr : Wanted(a)' = Wanted(a)
        BY <4>1, <4>2 DEF PassedEnd, Wanted
      <4> QED BY <4>1, <4>2, <4>3, SameSees, PromisedSame
    <3> QED BY <3>2, <3>3
  <2> QED BY <2>1, <2>2
<1>4. CASE Closing \/ Die
  BY <1>1, <1>4 DEF Closing, Die
<1>5. CASE UNCHANGED vars
  <2>1. /\ UNCHANGED <<taken, packet, data, open, image, beyond>>
        /\ UNCHANGED <<state, block_addr, block_size, page_empty, page, flash>>
        /\ (Writing' <=> Writing) /\ (Promising' => Promising)
    BY <1>5 DEF vars, tf_vars, mcu, acc_vars, sector, args, history, Writing, Promising
  <2> QED BY <2>1, SameWanted, SameSees, PromisedSame
<1> QED
  BY <1>2, <1>3, <1>4, <1>5

(***************************************************************************)
(* The primitives change the flash in the block of the buffer only.        *)
(***************************************************************************)
LEMMA DeviceFlash ==
    ASSUME TypeInv, Device, Buffered, Flushes, DeviceStep,
           NEW a \in Nat, NEW d \in Seq(Byte), a = block_addr, d = page
    PROVE  \/ flash' = flash
           \/ /\ state = "OPEN" /\ ~page_empty
              /\ \A x \in Addr : ~InBuffer(x) => flash'[x] = flash[x]
<1>1. TFStep /\ TFInv /\ at # "idle"
  BY TFStepAt DEF DeviceStep, TypeInv
<1>2. CASE pc = "write"
  <2>1. /\ at \in InProgram /\ Programming(a, d) /\ state = "OPEN" /\ ~page_empty
    BY <1>1, <1>2 DEF Flushes, Flushing
  <2>2. \A x \in Addr : x \notin Span(a, Len(d)) => flash'[x] = flash[x]
    BY <1>1, <2>1, ProgramWithin
  <2>3. Span(a, Len(d)) = Span(block_addr, block_size)
    BY <2>1, FullBlock
  <2> QED BY <2>1, <2>2, <2>3 DEF Span, InBuffer, BlockEnd
<1>3. CASE pc = "erase"
  <2>1. /\ at \in InErase /\ addr = sector_addr /\ state = "OPEN" /\ ~page_empty
    BY <1>1, <1>3 DEF Flushes, Flushing
  <2>2. \A x \in Addr : x \notin SectorCells(addr) => flash'[x] = flash[x]
    BY <1>1, <2>1, EraseWithin
  <2>3. SectorCells(addr) = Span(block_addr, block_size)
    BY <2>1, FullBlock
  <2> QED BY <2>1, <2>2, <2>3 DEF Span, InBuffer, BlockEnd
<1>4. CASE pc \notin {"write", "erase"}
  <2>1. at \notin {"erase_exec", "program_exec", "chip_exec"}
    BY <1>1, <1>4 DEF Flushes, Device, InProgram, InErase, Calling, Ending, Single
  <2> QED BY <1>1, <2>1, QuietSteps
<1> QED
  BY <1>2, <1>3, <1>4

LEMMA PromisedDevice ==
    ASSUME TypeInv, Device, Buffered, Flushes, Promised, DeviceStep
    PROVE  Promised'
<1>1. /\ UNCHANGED <<taken, packet, data, open, image, beyond>>
      /\ UNCHANGED <<state, block_addr, block_size, page_empty, page>>
      /\ (Writing' <=> Writing) /\ (Promising' => Promising)
  BY DEF DeviceStep, acc_vars, sector, args, history, Writing, Promising
<1>2. \A x \in Addr : ~InBuffer(x) => flash'[x] = flash[x]
  <2>1. block_addr \in Nat /\ page \in Seq(Byte)
    BY DEF TypeInv, AccTypeOK
  <2> QED BY <2>1, DeviceFlash
<1>3. \A x \in Addr : Sees(x)' = Sees(x)
  BY <1>1, <1>2 DEF Sees, InBuffer, BlockEnd
<1>4. BlockReadable' <=> BlockReadable
  BY <1>1 DEF BlockReadable
<1> QED
  BY <1>1, <1>3, <1>4, SameWanted, PromisedSame

(***************************************************************************)
(* Bytes copied into the buffer are wanted there, and the others of their  *)
(* sector are wanted as the buffer was: blank if the sector has been left  *)
(* and come back to, as before if it was still the one in the buffer.      *)
(***************************************************************************)
LEMMA CopyFacts ==
    ASSUME TypeInv, Sectoring, Buffered, Packeting, Copy, NEW n, n = CopySize
    PROVE  /\ n \in Nat \ {0} /\ packet \in Nat /\ packet' = packet + n
           /\ block_addr \in Nat /\ block_size \in Nat
           /\ block_addr <= packet /\ packet + n <= BlockEnd
           /\ SectorSet /\ block_addr = sector_addr /\ block_size = sector_size
           /\ Base(packet) = block_addr
           /\ Consumed \in Nat /\ packet = taken.addr + Consumed /\ taken.addr \in Nat
           /\ Consumed' = Consumed + n
           /\ Writing /\ Writing' /\ Promising /\ ~page_empty'
           /\ UNCHANGED <<taken, image, open, beyond, block_addr, block_size, flash>>
           /\ \A a \in Nat : block_addr <= a /\ a < BlockEnd =>
                page'[a - block_addr + 1] =
                  IF packet <= a /\ a < packet + n THEN taken.data[a - taken.addr + 1]
                  ELSE page[a - block_addr + 1]
<1>1. /\ pc = "copy" /\ pc' = "loop" /\ packet' = packet + n /\ page_empty' = (n = 0)
      /\ data' = SubSeq(data, n + 1, Len(data))
      /\ page' = [i \in 1 .. block_size |->
                     IF packet - block_addr < i /\ i <= packet - block_addr + n
                     THEN data[i - (packet - block_addr)] ELSE page[i]]
      /\ UNCHANGED <<taken, image, open, beyond, block_addr, block_size, flash>>
  BY DEF Copy, history, tf_vars, mcu
<1>2. /\ SectorSet /\ block_addr = sector_addr /\ block_size = sector_size
      /\ block_addr = Base(packet) /\ n # 0
  BY <1>1, CopySector
<1>3. /\ block_addr <= packet /\ packet < block_addr + block_size
      /\ n \in Nat /\ n <= Len(data) /\ packet - block_addr + n <= block_size
      /\ packet \in Nat /\ block_addr \in Nat /\ block_size \in Nat /\ data \in Seq(Byte)
      /\ Len(data) \in Nat
  BY <1>1, CopyBounds DEF TypeInv, AccTypeOK
<1>4. Writing /\ Writing' /\ Promising
  BY <1>1 DEF Writing, Promising, TypeInv, Geometry
<1>5. /\ Consumed \in Nat /\ packet = taken.addr + Consumed /\ taken.addr \in Nat
      /\ Len(taken.data) = Consumed + Len(data)
      /\ \A i \in 1 .. Len(data) : data[i] = taken.data[Consumed + i]
  BY <1>4, TakenPacket DEF Packeting
<1>6. Consumed' = Consumed + n
  <2>1. Len(data') = Len(data) - n
    BY <1>1, <1>3
  <2>2. Consumed' = Len(taken.data) - Len(data')
    BY <1>1 DEF Consumed
  <2> QED BY <1>3, <1>5, <2>1, <2>2
<1>7. ASSUME NEW a \in Nat, block_addr <= a, a < BlockEnd
      PROVE  page'[a - block_addr + 1] =
               IF packet <= a /\ a < packet + n THEN taken.data[a - taken.addr + 1]
               ELSE page[a - block_addr + 1]
  <2> DEFINE i == a - block_addr + 1
  <2>1. i \in 1 .. block_size
    BY <1>3, <1>7 DEF BlockEnd
  <2>2. packet - block_addr < i /\ i <= packet - block_addr + n <=> packet <= a /\ a < packet + n
    BY <1>3, <1>7
  <2>3. page'[i] = IF packet <= a /\ a < packet + n THEN data[i - (packet - block_addr)] ELSE page[i]
    BY <1>1, <2>1, <2>2
  <2>4. ASSUME packet <= a, a < packet + n
        PROVE  data[i - (packet - block_addr)] = taken.data[a - taken.addr + 1]
    <3>1. i - (packet - block_addr) \in 1 .. Len(data)
      BY <1>3, <1>7, <2>4
    <3>2. Consumed + (i - (packet - block_addr)) = a - taken.addr + 1
      <4>1. /\ Consumed \in Nat /\ taken.addr \in Nat /\ packet = taken.addr + Consumed
            /\ block_addr \in Nat
        BY <1>3, <1>5
      <4> HIDE <1>7
      <4> QED BY <4>1
    <3> QED BY <1>5, <3>1, <3>2
  <2> QED BY <2>3, <2>4
<1>8. \A a \in Nat : block_addr <= a /\ a < BlockEnd =>
        page'[a - block_addr + 1] =
          IF packet <= a /\ a < packet + n THEN taken.data[a - taken.addr + 1]
          ELSE page[a - block_addr + 1]
  BY <1>7
<1>9. packet + n <= BlockEnd
  BY <1>3 DEF BlockEnd
<1>10. n \in Nat \ {0} /\ ~page_empty'
  BY <1>1, <1>2, <1>3
<1>11. /\ packet \in Nat /\ packet' = packet + n
       /\ block_addr \in Nat /\ block_size \in Nat /\ block_addr <= packet
       /\ UNCHANGED <<taken, image, open, beyond, block_addr, block_size, flash>>
  BY <1>1, <1>3
<1>12. Consumed \in Nat /\ packet = taken.addr + Consumed /\ taken.addr \in Nat
  BY <1>5
<1>13. SectorSet /\ block_addr = sector_addr /\ block_size = sector_size /\ Base(packet) = block_addr
  BY <1>2
<1> QED
  BY <1>4, <1>6, <1>8, <1>9, <1>10, <1>11, <1>12, <1>13

LEMMA CopyCleared ==
    ASSUME TypeInv, Sectoring, Buffered, Packeting, Copy, NEW a \in Nat
    PROVE  Cleared(a)' <=> \/ Cleared(a)
                           \/ Base(a) = block_addr /\ ~(Base(taken.addr) = open /\ block_addr = open)
<1> DEFINE n == CopySize
<1>1. /\ n \in Nat \ {0} /\ packet \in Nat /\ packet' = packet + n /\ taken.addr \in Nat
      /\ taken.addr <= packet /\ block_addr <= packet /\ packet + n <= BlockEnd
      /\ SectorSet /\ block_addr = sector_addr /\ block_size = sector_size
      /\ UNCHANGED <<taken, open>> /\ block_addr \in Nat /\ block_size \in Nat
  BY CopyFacts
<1> HIDE DEF n
<1>2. ASSUME NEW x \in packet .. packet + n - 1 PROVE Base(x) = block_addr
  <2>1. x \in Nat /\ block_addr <= x /\ x < block_addr + block_size
    BY <1>1 DEF BlockEnd
  <2> QED BY <1>1, <2>1, BaseBlock
<1>3. packet \in packet .. packet + n - 1
  BY <1>1
<1>4. taken.addr .. packet + n - 1 = (taken.addr .. packet - 1) \cup (packet .. packet + n - 1)
  BY <1>1
<1>5. (\E x \in taken.addr .. packet + n - 1 : Base(x) = Base(a))
      <=> (\E x \in taken.addr .. packet - 1 : Base(x) = Base(a)) \/ Base(a) = block_addr
  BY <1>2, <1>3, <1>4
<1>6. Cleared(a)' <=> /\ \E x \in taken.addr .. packet + n - 1 : Base(x) = Base(a)
                      /\ ~(Base(taken.addr) = open /\ Base(a) = open)
  <2>1. Base(taken.addr)' = Base(taken.addr)
    BY <1>1 DEF Base
  <2> QED BY <1>1, <2>1 DEF Cleared
<1> QED
  BY <1>5, <1>6 DEF Cleared

\* What is wanted in the cells of the block, before and after bytes are copied to it.
LEMMA CopyWanted ==
    ASSUME TypeInv, Sectoring, Buffered, Packeting, Blanks, BufferTouched, Copy,
           NEW a \in Addr, block_addr <= a, a < BlockEnd, ~(packet <= a /\ a < packet')
    PROVE  Wanted(a)' = IF page_empty THEN FF ELSE Wanted(a)
<1> DEFINE n == CopySize
           t == taken.addr
<1>1. /\ n \in Nat \ {0} /\ packet \in Nat /\ packet' = packet + n /\ block_addr \in Nat
      /\ block_addr <= packet /\ packet + n <= BlockEnd /\ block_size \in Nat
      /\ SectorSet /\ block_addr = sector_addr /\ block_size = sector_size
      /\ Base(packet) = block_addr /\ Consumed \in Nat /\ packet = t + Consumed /\ t \in Nat
      /\ Writing /\ Writing' /\ UNCHANGED <<taken, image, open>>
  BY CopyFacts
<1>2. a \in Nat /\ Base(a) = block_addr
  <2>1. a \in Nat  BY AddrNat
  <2> QED BY <1>1, <2>1, BaseBlock DEF BlockEnd
<1>3. Base(t) \in Nat /\ Base(t) <= t
  BY <1>1, BaseBelow
<1> HIDE DEF n, t
<1>4. Passed(a)' <=> Passed(a)
  BY <1>1, <1>2 DEF Passed, t
<1>5. Cleared(a)' <=> Cleared(a) \/ ~(Base(t) = open /\ block_addr = open)
  BY <1>2, CopyCleared DEF t
<1>6. CASE page_empty
  <2>1. ~Touched
    BY <1>6 DEF BufferTouched
  <2>2. ~Passed(a)
    <3>1. CASE Consumed = 0
      BY <1>1, <1>2, <3>1 DEF Passed, t
    <3>2. CASE Consumed # 0
      <4>1. packet = block_addr
        BY <1>1, <2>1, <3>2 DEF Touched
      <4> QED BY <1>2, <1>1, <4>1 DEF Passed
    <3> QED BY <3>1, <3>2
  <2>3. ~(Base(t) = open /\ block_addr = open)
    <3>1. CASE Consumed = 0
      BY <1>1, <2>1, <3>1 DEF Touched
    <3>2. CASE Consumed # 0
      <4>1. packet = block_addr
        BY <1>1, <2>1, <3>2 DEF Touched
      <4> QED BY <1>1, <1>3, <3>2, <4>1
    <3> QED BY <3>1, <3>2
  <2>4. ~Passed(a)' /\ Cleared(a)' /\ Writing'
    BY <1>1, <1>4, <1>5, <2>2, <2>3
  <2>5. Wanted(a)' = FF
    BY <2>4 DEF Wanted
  <2> QED BY <1>6, <2>5
<1>7. CASE ~page_empty
  <2>1. Touched
    <3>1. packet < BlockEnd
      BY <1>1 DEF BlockEnd
    <3> QED BY <1>7, <3>1 DEF BufferTouched
  <2>2. Cleared(a)' <=> Cleared(a)
    <3>1. CASE Consumed = 0
      <4>1. open = block_addr /\ t = packet
        BY <1>1, <2>1, <3>1 DEF Touched
      <4> QED BY <1>1, <1>5, <4>1
    <3>2. CASE Consumed # 0
      <4>1. block_addr < packet
        BY <1>1, <2>1, <3>2 DEF Touched
      <4>2. packet - 1 \in t .. packet - 1 /\ packet - 1 \in Nat
        BY <1>1, <3>2
      <4>3. Base(packet - 1) = block_addr
        <5>1. block_addr <= packet - 1 /\ packet - 1 < block_addr + block_size
          BY <1>1, <4>1 DEF BlockEnd
        <5> QED BY <1>1, <4>2, <5>1, BaseBlock
      <4>4. Cleared(a) <=> ~(Base(t) = open /\ block_addr = open)
        BY <1>2, <4>2, <4>3 DEF Cleared, t
      <4> QED BY <1>5, <4>4
    <3> QED BY <3>1, <3>2
  <2> QED BY <1>1, <1>4, <1>7, <2>2 DEF Wanted
<1> QED
  BY <1>6, <1>7

LEMMA PromisedCopy ==
    ASSUME SectorsAligned, TypeInv, Sectoring, Buffered, Packeting, Blanks, Opening, Promised, Copy
    PROVE  Promised'
<1> DEFINE n == CopySize
<1>1. /\ n \in Nat \ {0} /\ packet \in Nat /\ packet' = packet + n /\ block_addr \in Nat
      /\ block_addr <= packet /\ packet + n <= BlockEnd /\ block_size \in Nat
      /\ SectorSet /\ block_addr = sector_addr /\ block_size = sector_size
      /\ Base(packet) = block_addr /\ Consumed \in Nat /\ taken.addr \in Nat
      /\ packet = taken.addr + Consumed /\ Consumed' = Consumed + n
      /\ UNCHANGED <<taken, image, open, beyond, block_addr, block_size, flash>>
  BY CopyFacts
<1>2. Writing /\ Writing' /\ Promising /\ ~page_empty' /\ BlockEnd' = BlockEnd
  BY CopyFacts DEF BlockEnd
<1>3. \A a \in Nat : block_addr <= a /\ a < BlockEnd =>
        page'[a - block_addr + 1] =
          IF packet <= a /\ a < packet + n THEN taken.data[a - taken.addr + 1]
          ELSE page[a - block_addr + 1]
  BY CopyFacts
<1>4. BufferTouched
  BY DEF Copy, Opening
<1>5. page_empty => page = Fill(block_size)
  BY DEF Copy, Blanks, Looping
<1> HIDE DEF n
<1>6. ASSUME NEW a \in Addr, Wanted(a)' # Unset
      PROVE  Sees(a)' = Wanted(a)'
  <2>1. a \in Nat
    BY AddrNat
  <2>2. CASE ~(block_addr <= a /\ a < BlockEnd)
    <3>1. Base(a) # block_addr
      BY <1>1, <2>1, <2>2, BaseInside DEF BlockEnd
    <3>2. Cleared(a)' <=> Cleared(a)
      BY <2>1, <3>1, CopyCleared
    <3>3. Passed(a)' <=> Passed(a)
      <4>1. a < packet' <=> a < packet
        BY <1>1, <2>1, <2>2 DEF BlockEnd
      <4> QED BY <1>1, <4>1 DEF Passed
    <3>4. Wanted(a)' = Wanted(a)
      BY <1>1, <1>2, <3>2, <3>3 DEF Wanted
    <3>5. Sees(a)' = flash[a] /\ Sees(a) = flash[a]
      BY <1>1, <1>2, <2>2 DEF Sees, InBuffer
    <3> QED BY <1>2, <1>6, <3>4, <3>5 DEF Promised
  <2>3. CASE packet <= a /\ a < packet'
    <3>1. block_addr <= a /\ a < BlockEnd
      BY <1>1, <2>1, <2>3 DEF BlockEnd
    <3>2. Sees(a)' = taken.data[a - taken.addr + 1]
      BY <1>1, <1>2, <1>3, <2>1, <2>3, <3>1 DEF Sees, InBuffer
    <3>3. Passed(a)'
      BY <1>1, <2>1, <2>3 DEF Passed
    <3> QED BY <1>1, <1>2, <3>2, <3>3 DEF Wanted
  <2>4. CASE block_addr <= a /\ a < BlockEnd /\ ~(packet <= a /\ a < packet')
    <3>1. Wanted(a)' = IF page_empty THEN FF ELSE Wanted(a)
      BY <1>4, <2>4, CopyWanted
    <3>2. Sees(a)' = page[a - block_addr + 1]
      BY <1>1, <1>2, <1>3, <2>1, <2>4 DEF Sees, InBuffer
    <3>3. CASE page_empty
      <4>1. a - block_addr + 1 \in 1 .. block_size
        BY <1>1, <2>1, <2>4 DEF BlockEnd
      <4>2. page[a - block_addr + 1] = FF
        BY <1>5, <3>3, <4>1 DEF Fill
      <4> QED BY <3>1, <3>2, <3>3, <4>2
    <3>4. CASE ~page_empty
      <4>1. Sees(a) = page[a - block_addr + 1]
        BY <2>4, <3>4 DEF Sees, InBuffer
      <4> QED BY <1>2, <1>6, <3>1, <3>2, <3>4, <4>1 DEF Promised
    <3> QED BY <3>3, <3>4
  <2> QED BY <2>2, <2>3, <2>4
<1>7. ASSUME PassedEnd' PROVE ~BlockReadable'
  <2>1. MaxAddr \in Nat
    BY LayoutAssumption
  <2>2. BlockReadable' <=> BlockEnd - 1 <= MaxAddr
    BY <1>1 DEF BlockReadable, BlockEnd
  <2>3. CASE beyond
    <3>1. ~BlockReadable
      BY <1>2, <2>3 DEF Promised, PassedEnd
    <3> QED BY <1>1, <3>1 DEF BlockReadable
  <2>4. CASE ~beyond
    <3>1. packet + n > MaxAddr + 1
      BY <1>1, <1>7, <2>4 DEF PassedEnd
    <3>2. BlockEnd \in Nat
      BY <1>1 DEF BlockEnd
    <3> QED BY <1>1, <2>1, <2>2, <3>1, <3>2
  <2> QED BY <2>3, <2>4
<1> QED
  BY <1>2, <1>6, <1>7 DEF Promised

LEMMA PromisedStep ==
    ASSUME SectorsAligned
    PROVE  /\ TypeInv /\ Device /\ Sectoring /\ Buffered /\ Flushes /\ Packeting /\ Blanks
           /\ Opening /\ Promised /\ [Next]_vars
           => Promised'
<1> SUFFICES ASSUME TypeInv, Device, Sectoring, Buffered, Flushes, Packeting, Blanks, Opening,
                    Promised, [Next]_vars
             PROVE  Promised'
  OBVIOUS
<1>1. ASSUME NEW k \in Packets, Write(k.addr, k.data) PROVE Promised'
  BY <1>1, PromisedWrite, UserAssumption
<1> QED
  BY <1>1, PromisedControl, PromisedSetup, PromisedFlushed, PromisedEnd, PromisedCopy,
     PromisedOther, PromisedDevice DEF Next, User, AccStep
-----------------------------------------------------------------------------
(***************************************************************************)
(* The refinement.  The specification of a session has its own copy of the *)
(* operators on images; they are the same ones.                            *)
(***************************************************************************)
LEMMA SessionSize == \A a : Session!flash_erase_sector_size(a) = flash_erase_sector_size(a)
BY Zenon DEF Session!flash_erase_sector_size, flash_erase_sector_size, Session!IsLastRun, IsLastRun

LEMMA SessionBase == \A a : Session!Base(a) = Base(a)
BY SessionSize, Zenon DEF Session!Base, Base, Session!ROUND_DOWN, ROUND_DOWN

LEMMA SessionSectors == \A p, d : Session!SectorsOf(p, d) = SectorsOf(p, d)
BY SessionBase DEF Session!SectorsOf, SectorsOf, Session!Covered, Covered

LEMMA SessionImage ==
    ASSUME NEW p, NEW d
    PROVE  /\ Session!ImageAfter(image, open, p, d) = ImageAfter(image, open, p, d)
           /\ Session!OpenAfter(open, p, d) = OpenAfter(open, p, d)
           /\ Session!PastEnd(p, d) <=> PastEnd(p, d)
<1>1. Session!Fresh(open, p, d) = Fresh(open, p, d)
  BY SessionBase, SessionSectors DEF Session!Fresh, Fresh
<1>2. Session!ImageAfter(image, open, p, d) = ImageAfter(image, open, p, d)
  BY <1>1, SessionBase, Zenon
     DEF Session!ImageAfter, ImageAfter, Session!Covered, Covered, Session!Addr, Addr
<1>3. Session!OpenAfter(open, p, d) = OpenAfter(open, p, d)
  BY SessionBase, Zenon DEF Session!OpenAfter, OpenAfter, Session!NoSector, NoSector
<1> QED
  BY <1>2, <1>3 DEF Session!PastEnd, PastEnd

LEMMA SessionForget == Forget => Session!Forget
BY DEF Forget, Session!Forget, Session!Blank, Blank, Session!NoSector, NoSector, Session!Addr, Addr

LEMMA SessionStutter ==
    UNCHANGED <<state, outcome, flash, image, open, beyond, scope>> => UNCHANGED Session!vars
BY DEF Session!vars

LEMMA SessionFails ==
    ASSUME NEW err, state = "OPEN", WriteFails(err), flash' = flash
    PROVE  Session!Fail
BY SessionForget DEF WriteFails, Session!Fail

LEMMA SessionStart == Init => Session!Init
BY DEF Init, McuInit, AccInit, HistoryInit, Session!Init, Session!Blank, Blank, Session!NoSector,
   NoSector, Session!Addr, Addr

\* The steps of which the session sees nothing.
LEMMA SessionQuiet ==
    ASSUME \/ CallInitSession \/ Uninit \/ SetupAlgo
           \/ Flush \/ Compare \/ EraseDone \/ EraseUndo \/ WriteDone
           \/ Valid \/ CheckBlock \/ CheckSector \/ LoopFlush \/ LoopSector \/ Copy \/ Close
           \/ UNCHANGED vars
    PROVE  UNCHANGED Session!vars
<1>1. flash' = flash
  BY DEF CallInitSession, Uninit, SetupAlgo, Flush, Compare, EraseDone, EraseUndo, WriteDone, Valid,
     CheckBlock, CheckSector, LoopFlush, LoopSector, Copy, Close, vars, tf_vars, mcu, CallFlashInit,
     CallFlashUninit, CallProgramPage, CallEraseSector, StartCall
<1>2. UNCHANGED <<state, history>>
  BY DEF CallInitSession, Uninit, SetupAlgo, Flush, Compare, EraseDone, EraseUndo, WriteDone, Valid,
     CheckBlock, CheckSector, LoopFlush, LoopSector, Copy, Close, vars, acc_vars, sector
<1> QED
  BY <1>1, <1>2, SessionStutter DEF history

LEMMA SessionSetup ==
    ASSUME TypeInv, Flushes, Setup \/ SetupUndo \/ Flushed
    PROVE  Session!Fail \/ UNCHANGED Session!vars
<1>1. (\E err : WriteFails(err)) \/ UNCHANGED <<state, history>>
  BY DEF Setup, SetupUndo, Flushed
<1>2. flash' = flash
  BY DEF Setup, SetupUndo, Flushed, tf_vars, mcu, CallAlgoSet, StartCall
<1>3. state = "OPEN"
  BY DEF TypeInv, Geometry, Flushes, Setting, Flushing, Setup, SetupUndo, Flushed
<1>4. CASE \E err : WriteFails(err)
  BY <1>2, <1>3, <1>4, SessionFails
<1>5. CASE UNCHANGED <<state, history>>
  BY <1>2, <1>5, SessionStutter DEF history
<1> QED
  BY <1>1, <1>4, <1>5

LEMMA SessionInit ==
    ASSUME Device, InitDone
    PROVE  Session!Open \/ UNCHANGED Session!vars
<1>1. state = "CLOSED" /\ flash' = flash
  BY DEF InitDone, Device, tf_vars, mcu
<1>2. CASE result = "NONE"
  <2>1. state' = "OPEN" /\ outcome' = "none" /\ Forget
    BY <1>2 DEF InitDone
  <2> QED BY <1>1, <2>1, SessionForget DEF Session!Open
<1>3. CASE result # "NONE"
  <2>1. UNCHANGED <<state, history>>
    BY <1>3 DEF InitDone
  <2> QED BY <1>1, <2>1, SessionStutter DEF history
<1> QED
  BY <1>2, <1>3

LEMMA SessionWrite ==
    ASSUME NEW k \in Packets, Write(k.addr, k.data)
    PROVE  Session!Begin(k.addr, k.data) \/ UNCHANGED Session!vars
<1>1. UNCHANGED <<flash, state>>
  BY DEF Write, tf_vars, mcu, sector
<1>2. CASE Accepting
  <2>1. /\ scope' = scope \cup SectorsOf(k.addr, k.data)
        /\ UNCHANGED <<image, open, beyond, outcome>>
    BY <1>2 DEF Write
  <2> QED BY <1>1, <1>2, <2>1, SessionSectors DEF Accepting, Session!Begin
<1>3. CASE ~Accepting
  <2>1. UNCHANGED history
    BY <1>3 DEF Write
  <2> QED BY <1>1, <2>1, SessionStutter DEF history
<1> QED
  BY <1>2, <1>3

LEMMA SessionAccept ==
    ASSUME TypeInv, Packeting, LoopEnd
    PROVE  taken \in Packets /\ Session!Accept(taken.addr, taken.data)
<1>1. /\ state = "OPEN" /\ Writing /\ UNCHANGED <<state, flash, scope, outcome>>
      /\ image' = ImageAfter(image, open, taken.addr, taken.data)
      /\ open' = OpenAfter(open, taken.addr, taken.data)
      /\ beyond' = (beyond \/ PastEnd(taken.addr, taken.data))
  BY DEF TypeInv, Geometry, LoopEnd, Writing, tf_vars, mcu
<1>2. taken \in Packets /\ SectorsOf(taken.addr, taken.data) \subseteq scope
  BY <1>1 DEF Packeting
<1>3. Session!SectorsOf(taken.addr, taken.data) \subseteq scope
  BY <1>2, SessionSectors
<1> QED
  BY <1>1, <1>2, <1>3, SessionImage DEF Session!Accept

LEMMA SessionClosing ==
    ASSUME TypeInv, Flushes, Promised, Closing
    PROVE  Session!CloseOk \/ Session!CloseFailed
<1>1. /\ pc = "closing" /\ state # "CLOSED" /\ (state = "OPEN" => page_empty)
      /\ state \in {"OPEN", "ERROR"} /\ state' = "CLOSED" /\ flash' = flash
  BY DEF Closing, Flushes, TypeInv, AccTypeOK, tf_vars, mcu
<1>2. CASE state = "OPEN" /\ UninitResult = "NONE"
  <2>1. outcome' = "ok" /\ UNCHANGED <<image, open, beyond, scope>>
    BY <1>2 DEF Closing
  <2>2. Promising /\ ~Writing
    BY <1>1, <1>2 DEF Promising, UninitResult, Writing, Setting, Flushing
  <2>3. ~beyond
    BY <1>1, <1>2, <2>2 DEF Promised, PassedEnd
  <2>4. \A a \in Addr : image[a] # Unset => flash[a] = image[a]
    BY <1>1, <1>2, <2>2 DEF Promised, Wanted, Sees, InBuffer
  <2>5. Session!Matches(image, flash)
    BY <2>4 DEF Session!Matches, Session!Addr, Addr
  <2> QED BY <1>1, <1>2, <2>1, <2>3, <2>5 DEF Session!CloseOk
<1>3. CASE ~(state = "OPEN" /\ UninitResult = "NONE")
  <2>1. outcome' = "failed" /\ Forget
    BY <1>3 DEF Closing
  <2> QED BY <1>1, <2>1, SessionForget DEF Session!CloseFailed
<1> QED
  BY <1>2, <1>3

LEMMA SessionDie == Die => Session!Die
BY SessionForget DEF Die, mcu, Session!Die

\* The primitives only change cells of the sector in the buffer, which is in scope.
LEMMA SessionDevice ==
    ASSUME TypeInv, TypeInv', Device, Buffered, Flushes, Blanks, DeviceStep
    PROVE  Session!Work \/ UNCHANGED Session!vars
<1>1. UNCHANGED <<state, outcome, image, open, beyond, scope>>
  BY DEF DeviceStep, acc_vars, sector, history
<1>2. block_addr \in Nat /\ page \in Seq(Byte)
  BY DEF TypeInv, AccTypeOK
<1>3. CASE flash' = flash
  BY <1>1, <1>3, SessionStutter
<1>4. CASE state = "OPEN" /\ ~page_empty /\ \A x \in Addr : ~InBuffer(x) => flash'[x] = flash[x]
  <2>1. ASSUME NEW a \in Addr, flash'[a] # flash[a] PROVE Base(a) \in scope
    <3>1. InBuffer(a) /\ a \in Nat
      BY <1>4, <2>1, AddrNat
    <3>2. SectorSet /\ block_addr = sector_addr /\ block_size = sector_size
      BY <1>4, FilledSector
    <3>3. Base(a) = block_addr
      BY <3>1, <3>2, BaseBlock DEF InBuffer, BlockEnd
    <3> QED BY <1>4, <3>3 DEF Blanks
  <2>2. \A a \in Session!Addr : flash'[a] = flash[a] \/ Session!Base(a) \in scope
    BY <2>1, SessionBase DEF Session!Addr, Addr
  <2>3. DOMAIN flash' = Session!Addr
    <3>1. flash' \in [Addr -> Byte]
      BY DEF TypeInv, TFInv, TFTypeOK, McuTypeOK
    <3> QED BY <3>1 DEF Session!Addr, Addr
  <2> QED BY <1>1, <1>4, <2>2, <2>3 DEF Session!Work
<1> QED
  BY <1>2, <1>3, <1>4, DeviceFlash

SessionInv ==
    /\ TypeInv /\ Device /\ Sectoring
    /\ Buffered /\ Flushes /\ Packeting /\ Blanks /\ Opening /\ Promised

LEMMA SessionStep ==
    ASSUME SessionInv, TypeInv', [Next]_vars
    PROVE  [Session!Next]_(Session!vars)
<1> USE DEF SessionInv
<1>1. CASE LoopEnd
  BY <1>1, SessionAccept DEF Session!Next
<1>2. ASSUME NEW k \in Packets, Write(k.addr, k.data)
      PROVE  Session!Next \/ UNCHANGED Session!vars
  BY <1>2, SessionWrite DEF Session!Next
<1>3. CASE Setup \/ SetupUndo \/ Flushed \/ InitDone \/ Closing \/ Die \/ DeviceStep
  BY <1>3, SessionSetup, SessionInit, SessionClosing, SessionDie, SessionDevice DEF Session!Next
<1> QED
  BY <1>1, <1>2, <1>3, SessionQuiet DEF Next, User, AccStep

LEMMA SessionInvariant ==
    ASSUME SectorsAligned
    PROVE  Spec => []SessionInv
<1>1. Init => SessionInv
  BY TypeInit, DeviceStart, SectoringInit, BufferedInit, FlushesInit, PacketingInit, BlanksInit,
     OpeningInit, PromisedInit DEF SessionInv
<1>2. SessionInv /\ [Next]_vars => SessionInv'
  BY TypeStep, DeviceNext, SectoringStep, BufferedStep, FlushesStep, PacketingStep, BlanksStep,
     OpeningStep, PromisedStep DEF SessionInv
<1> QED
  BY <1>1, <1>2, PTL DEF Spec

(***************************************************************************)
(* The accessor implements a flash session, for every table of aligned     *)
(* sectors, every packet, every failure of the target and every death of   *)
(* the process: the flash only changes in sectors of the packets handed to *)
(* write, and an uninit that reports success leaves in the flash what the  *)
(* accepted packets made of it, none of them past its end.                 *)
(***************************************************************************)
THEOREM AccessorImplements ==
    ASSUME SectorsAligned
    PROVE  Spec => ImplementsSession
<1>1. Init => Session!Init
  BY SessionStart
<1>2. SessionInv /\ SessionInv' /\ [Next]_vars => [Session!Next]_(Session!vars)
  BY SessionStep DEF SessionInv
<1>3. Spec => []SessionInv
  BY SessionInvariant
<1> QED
  BY <1>1, <1>2, <1>3, PTL DEF Spec, ImplementsSession, Session!Spec
=============================================================================

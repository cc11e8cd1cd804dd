----------------------- MODULE StreamProgrammerProofs -----------------------
(***************************************************************************)
(* What holds of the stream programmer for every memory map, every order   *)
(* of its calls and every way of cutting a file into pieces.               *)
(***************************************************************************)
EXTENDS StreamProgrammer, FlashLayoutProofs

Packet == [addr : Nat, data : Seq(Byte)]

Pending == todo \in Seq(Packet) /\ decode_size \in Nat /\ bad \in BOOLEAN

\* Only a write has packets to hand over.
Quiet == call # "write" => todo = << >> /\ ~busy

\* The sound records of a chunk are those of its records that are not garbled.
LEMMA SoundPart ==
    ASSUME NEW T, NEW chunk \in Seq({Garbled} \cup T)
    PROVE  \E n \in 0 .. Len(chunk) :
               /\ \A k \in 1 .. n : chunk[k] # Garbled
               /\ n < Len(chunk) => chunk[n + 1] = Garbled
               /\ Sound(chunk) = SubSeq(chunk, 1, n)
<1> DEFINE IsEnd(n) == /\ \A k \in 1 .. n : chunk[k] # Garbled
                       /\ n < Len(chunk) => chunk[n + 1] = Garbled
           S == {k \in 1 .. Len(chunk) : chunk[k] = Garbled}
<1>1. Len(chunk) \in Nat /\ \A k \in 1 .. Len(chunk) : chunk[k] \in {Garbled} \cup T
  OBVIOUS
<1>2. \E n \in 0 .. Len(chunk) : IsEnd(n)
  <2>1. CASE S = {}
    <3>1. IsEnd(Len(chunk))
      BY <1>1, <2>1
    <3> QED BY <1>1, <3>1
  <2>2. CASE S # {}
    <3>1. PICK m \in S : \A j \in 1 .. m - 1 : j \notin S
      <4>1. S \in SUBSET (1 .. Len(chunk))
        OBVIOUS
      <4> HIDE DEF S
      <4> QED BY <1>1, <2>2, <4>1, FirstIndex
    <3>2. PICK n \in 0 .. Len(chunk) : n + 1 = m
      <4>1. m - 1 \in 0 .. Len(chunk) /\ m - 1 + 1 = m
        BY <1>1, <3>1
      <4> QED BY <4>1
    <3>3. chunk[n + 1] = Garbled
      BY <1>1, <3>1, <3>2
    <3>4. \A k \in 1 .. n : chunk[k] # Garbled
      BY <1>1, <3>1, <3>2
    <3> QED BY <3>2, <3>3, <3>4
  <2> QED BY <2>1, <2>2
<1> DEFINE n == CHOOSE n \in 0 .. Len(chunk) : IsEnd(n)
<1>3. n \in 0 .. Len(chunk) /\ IsEnd(n)
  BY <1>2, Zenon
<1>4. Sound(chunk) = SubSeq(chunk, 1, n)
  BY Zenon DEF Sound
<1> QED
  BY <1>3, <1>4

\* The sound records of a chunk have the type of its records.
LEMMA SoundType ==
    ASSUME NEW T, NEW chunk \in Seq({Garbled} \cup T)
    PROVE  Sound(chunk) \in Seq(T)
<1>1. Len(chunk) \in Nat /\ \A k \in 1 .. Len(chunk) : chunk[k] \in {Garbled} \cup T
  OBVIOUS
<1>2. PICK n \in 0 .. Len(chunk) :
          (\A k \in 1 .. n : chunk[k] # Garbled) /\ Sound(chunk) = SubSeq(chunk, 1, n)
  BY SoundPart
<1>3. \A k \in 1 .. n : chunk[k] \in T
  BY <1>1, <1>2
<1>4. SubSeq(chunk, 1, n) = [k \in 1 .. n |-> chunk[k]]
  BY <1>1, <1>2
<1> QED
  BY <1>2, <1>3, <1>4

\* What a write hands over is packets.
LEMMA PacketsType ==
    ASSUME ProgTypeOK, NEW i \in Progs, NEW chunk,
           i = "bin" => chunk \in Seq(Byte),
           i = "hex" => chunk \in Seq({Garbled} \cup Packet)
    PROVE  PacketsOf(i, chunk) \in Seq(Packet)
<1>1. program_addr[i] \in Nat
  BY DEF ProgTypeOK
<1>2. CASE i = "bin"
  <2>1. [addr |-> program_addr[i], data |-> chunk] \in Packet
    BY <1>1, <1>2 DEF Packet
  <2> QED BY <1>2, <2>1 DEF PacketsOf
<1>3. CASE i = "hex"
  BY <1>3, SoundType DEF PacketsOf
<1> QED
  BY <1>2, <1>3 DEF Progs

\* What init, write and clean of a program make of the types.
LEMMA InitTypes ==
    ASSUME ProgTypeOK, NEW i \in Progs, NEW addr \in Nat, ProgramInit(i, addr)
    PROVE  ProgTypeOK' /\ Pending' /\ Quiet'
<1>1. << >> \in Seq(Packet)
  OBVIOUS
<1>2. StartAddr(i, addr) \in Nat
  BY DEF StartAddr
<1>3. ProgTypeOK
  OBVIOUS
<1>4. program_addr' \in [Progs -> Nat]
  BY <1>2, <1>3 DEF ProgramInit, ProgTypeOK
<1>5. Blank \in [Addr -> Byte \cup {Unset}]
  BY DEF Blank
<1>6. call = "none" /\ call' = "none" /\ ~busy' /\ prog' = prog
  BY <1>3, <1>4 DEF ProgramInit, Free, Drop, FlashOpens, FlashRefuses, Answer
<1>7. /\ mode' \in [Progs -> {"closed", "open", "error"}]
      /\ outcome' \in {"none", "ok", "failed"}
      /\ cells' = cells
      /\ image' \in [Addr -> Byte \cup {Unset}]
  <2>1. CASE UNCHANGED session
    BY <1>3, <2>1 DEF session, ProgTypeOK
  <2>2. CASE FlashOpens(i)
    BY <1>3, <1>5, <2>2 DEF FlashOpens, ProgTypeOK, Forget
  <2> QED BY <2>1, <2>2 DEF ProgramInit, FlashRefuses
<1>8. todo' = << >> /\ bad' = FALSE /\ decode_size' = 0
  BY DEF ProgramInit, Drop
<1> QED
  BY <1>1, <1>3, <1>4, <1>6, <1>7, <1>8 DEF ProgTypeOK, Pending, Quiet

\* A write keeps the types if its packets have theirs.
LEMMA WriteTypes ==
    ASSUME ProgTypeOK, NEW i \in Progs, NEW chunk, PacketsOf(i, chunk) \in Seq(Packet),
           ProgramWrite(i, chunk)
    PROVE  ProgTypeOK' /\ Pending' /\ Quiet'
<1>1. bad' \in BOOLEAN
  <2>1. bad' = (i = "hex" /\ Garbled \in {chunk[k] : k \in DOMAIN chunk})
    BY DEF ProgramWrite
  <2> QED BY <2>1, Zenon
<1>2. ProgTypeOK'
  BY DEF ProgramWrite, ProgTypeOK, session
<1> QED
  BY <1>1, <1>2 DEF ProgramWrite, Pending, Quiet

\* A clean keeps the types.
LEMMA CleanTypes ==
    ASSUME ProgTypeOK, Pending, Quiet, NEW i \in Progs, ProgramClean(i)
    PROVE  ProgTypeOK' /\ Pending' /\ Quiet'
<1>1. ProgTypeOK /\ ~busy /\ todo = << >> /\ call' \in {"none", "clean"}
  BY DEF Quiet, ProgramClean, Free
<1>2. Blank \in [Addr -> Byte \cup {Unset}]
  BY DEF Blank
<1>3. program_addr' \in [Progs -> Nat] /\ ~busy' /\ UNCHANGED <<todo, bad, decode_size>>
  BY <1>1 DEF ProgramClean, ProgTypeOK
<1>4. Pending' /\ Quiet'
  BY <1>1, <1>3 DEF Pending, Quiet
<1>5. CASE mode[i] = "error" /\ Closed(i) /\ outcome' = "failed" /\ Forgotten
           /\ UNCHANGED <<cells, torn, call, prog>>
  BY <1>1, <1>2, <1>3, <1>5, <1>4 DEF ProgTypeOK, Closed, Forgotten, Forget
<1>6. CASE /\ UNCHANGED session
           /\ UNCHANGED <<call, prog>> \/ (call' = "clean" /\ prog' = i)
  BY <1>1, <1>3, <1>6, <1>4 DEF ProgTypeOK, session
<1> QED
  BY <1>5, <1>6, <1>4 DEF ProgramClean

\* What the accessor and the loops of a write make of them.
LEMMA ProgressTypes ==
    ASSUME ProgTypeOK, Pending, Quiet, Progress \/ Work
    PROVE  ProgTypeOK' /\ Pending'
<1>1. ProgTypeOK /\ Pending
  OBVIOUS
<1>2. Blank \in [Addr -> Byte \cup {Unset}]
  BY DEF Blank
<1>3. << >> \in Seq(Packet)
  OBVIOUS
<1>4. ASSUME todo # << >>
      PROVE  Head(todo) \in Packet /\ Tail(todo) \in Seq(Packet)
  BY <1>1, <1>4 DEF Pending
<1>5. CASE PacketBegin
  <2>1. Head(todo) \in Packet
    BY <1>4, <1>5 DEF PacketBegin
  <2>2. FirstAddr(Head(todo)) \in Nat
    BY <1>1, <2>1 DEF FirstAddr, ProgTypeOK, Packet
  <2>3. program_addr' \in [Progs -> Nat]
    BY <1>1, <1>5, <2>2 DEF PacketBegin, ProgTypeOK
  <2>4. CASE CanWrite(prog)
    BY <1>1, <1>5, <2>3, <2>4 DEF PacketBegin, ProgTypeOK, Pending, CanWrite
  <2>5. CASE ~CanWrite(prog)
    <3>1. ~busy' /\ bad' = FALSE /\ todo' = << >> /\ decode_size' = 0
      BY <1>5, <2>5 DEF PacketBegin, Drop
    <3>2. call' = "none" /\ prog' = prog
      BY <1>5, <2>5 DEF PacketBegin, Answer, Drop
    <3>3. UNCHANGED <<mode, outcome, cells, image>>
      BY <1>5, <2>5 DEF PacketBegin, session
    <3> QED BY <1>1, <1>3, <2>3, <3>1, <3>2, <3>3 DEF ProgTypeOK, Pending
  <2> QED BY <2>4, <2>5
<1>6. CASE PacketAccepted
  <2>1. todo # << >>
    BY <1>1, <1>6 DEF PacketAccepted, ProgTypeOK
  <2>2. Head(todo).addr \in Nat /\ Head(todo).data \in Seq(Byte) /\ Len(Head(todo).data) \in Nat
    BY <1>4, <2>1 DEF Packet
  <2>3. image' \in [Addr -> Byte \cup {Unset}]
    <3>1. image \in [Addr -> Byte \cup {Unset}]
      BY <1>1 DEF ProgTypeOK
    <3>2. \/ image' = image
          \/ image' = ImageAfter(image, open, Head(todo).addr, Head(todo).data)
      BY <1>6 DEF PacketAccepted
    <3>3. ImageAfter(image, open, Head(todo).addr, Head(todo).data) \in [Addr -> Byte \cup {Unset}]
      BY <2>2, <3>1, ImageType
    <3> QED BY <3>1, <3>2, <3>3
  <2>4. decode_size' \in Nat /\ todo' \in Seq(Packet) /\ bad' \in BOOLEAN /\ ~busy'
    BY <1>1, <1>4, <1>6, <2>1, <2>2 DEF PacketAccepted, Pending
  <2> QED BY <1>1, <1>6, <2>3, <2>4 DEF PacketAccepted, ProgTypeOK, Pending
<1>7. CASE PacketFails
  BY <1>1, <1>2, <1>3, <1>7 DEF PacketFails, ProgTypeOK, Pending, Answer, Drop, Forgotten, Forget
<1>8. CASE WriteEnd
  <2>1. program_addr' \in [Progs -> Nat]
    BY <1>1, <1>8 DEF WriteEnd, ProgTypeOK, Pending
  <2> QED BY <1>1, <1>3, <1>8, <2>1 DEF WriteEnd, ProgTypeOK, Pending, Answer, Drop, session
<1>9. CASE CleanEnd
  <2>1. ~busy'
    BY <1>9 DEF CleanEnd, Quiet
  <2>2. image' \in [Addr -> Byte \cup {Unset}] /\ outcome' \in {"none", "ok", "failed"}
    BY <1>1, <1>2, <1>9 DEF CleanEnd, ProgTypeOK, Forgotten, Forget
  <2> QED BY <1>1, <1>9, <2>1, <2>2 DEF CleanEnd, Closed, ProgTypeOK, Pending
<1>10. CASE Work
  <2>1. cells' \in [Addr -> Byte]
    BY <1>1, <1>10 DEF Work, ProgTypeOK
  <2> QED BY <1>1, <1>10, <2>1 DEF Work, running, ProgTypeOK, Pending
<1> QED
  BY <1>5, <1>6, <1>7, <1>8, <1>9, <1>10 DEF Progress

-----------------------------------------------------------------------------

Records == Pending /\ start \in Nat /\ sent \in Seq(Byte)

\* A call of a program runs inside one of the user, on the user's program, and
\* leaves nothing behind; a stream that is being cleaned has ended.
Calling ==
    /\ pc = "idle" => call = "none"
    /\ pc = "write" => call \in {"none", "write"} /\ iface \in Progs
    /\ pc = "clean" => call \in {"none", "clean"} /\ cleaned
    /\ call = "write" => pc = "write" /\ prog = iface
    /\ Quiet

\* While no init was made over an open stream, the only session is that of the
\* stream's own program, or the one that is being closed.
OneSession ==
    mixed = 0 =>
        /\ ~torn
        /\ \A i \in Progs : mode[i] # "closed" =>
              \/ ~cleaned /\ i = iface
              \/ call = "clean" /\ prog = i

FailedClosed ==
    failed_write /\ iface # "none" => mode[iface] = "closed" \/ (call = "clean" /\ prog = iface)

\* The bytes of the stream that its session has accepted: all that were sent
\* but the ones of the packet that is on its way.
HandedIn == IF todo = << >> THEN sent ELSE SubSeq(sent, 1, Len(sent) - Len(todo[1].data))

Tracked == mixed = 0 /\ mode["bin"] = "open" /\ call # "clean"

(***************************************************************************)
(* StreamInOrder at every step: in the middle of a write the image is the  *)
(* one of the bytes handed in so far, the packet on its way comes next,    *)
(* and the address still has to move by decode_size.                       *)
(***************************************************************************)
InOrder ==
    Tracked =>
        /\ image = ImageAfter(Blank, NoSector, start, HandedIn)
        /\ open = OpenAfter(NoSector, start, HandedIn)
        /\ call = "none" => program_addr["bin"] = start + Len(sent)
        /\ pc = "write" /\ call = "none" => answer
        /\ call = "write" => ~bad /\ program_addr["bin"] + decode_size = start + Len(HandedIn)
        /\ todo # << >> => /\ Len(todo) = 1 /\ decode_size = 0
                           /\ todo[1].addr = program_addr["bin"]
                           /\ Len(todo[1].data) <= Len(sent)
                           /\ sent = HandedIn \o todo[1].data

\* The first part is kept whatever the sector table.
CallInv == StreamTypeOK /\ Records /\ Calling /\ OneSession /\ FailedClosed
IInv == CallInv /\ InOrder

-----------------------------------------------------------------------------
-----------------------------------------------------------------------------
\* Every step keeps the types.
LEMMA TypeStep ==
    ASSUME CallInv, [Next]_vars
    PROVE  (StreamTypeOK /\ Records)'
<1>1. StreamTypeOK /\ Records /\ ProgTypeOK /\ Quiet
  BY DEF CallInv, StreamTypeOK, Calling
<1>2. << >> \in Seq(Packet) /\ << >> \in Seq(Byte) /\ 0 \in Nat
  OBVIOUS
<1>3. ASSUME EndStream
      PROVE  start' = 0 /\ sent' = << >> /\ cleaned' = TRUE /\ mixed' = mixed
  BY <1>3 DEF EndStream, NewStream
<1>4. ASSUME NEW m \in Progs \cup {"none"}, NEW addr \in Starts, InitStream(m, addr)
      PROVE  (StreamTypeOK /\ Records)'
  <2>1. mixed' \in 0 .. MaxMixed
    BY <1>1, <1>4, StreamAssumption DEF InitStream, StreamTypeOK
  <2>2. CASE m \notin Progs /\ UNCHANGED <<prog_vars, pc, start, written, sent, cleaned>>
    BY <1>1, <1>4, <2>1, <2>2
    DEF InitStream, StreamTypeOK, ProgTypeOK, Records, Pending, prog_vars, session, running
  <2>3. CASE m \in Progs /\ ProgramInit(m, addr)
    <3>1. addr \in Nat
      BY StreamAssumption
    <3>2. ProgTypeOK' /\ Pending'
      BY <1>1, <2>3, <3>1, InitTypes
    <3>3. start' \in Nat /\ sent' = << >> /\ cleaned' = FALSE /\ iface' = m /\ pc' = pc
      BY <1>4, <2>3, StreamAssumption DEF InitStream, NewStream
    <3> QED BY <1>1, <1>2, <2>1, <2>3, <3>2, <3>3 DEF StreamTypeOK, Records
  <2> QED BY <1>4, <2>2, <2>3 DEF InitStream
<1>5. ASSUME NEW m \in Progs, NEW piece \in Pieces[m], Write(piece)
      PROVE  (StreamTypeOK /\ Records)'
  <2>1. CASE iface = "none"
    BY <1>1, <1>5, <2>1
    DEF Write, StreamTypeOK, ProgTypeOK, Records, Pending, prog_vars, session, running, stream
  <2>2. CASE iface # "none"
    <3>1. iface \in Progs /\ piece \in Pieces[iface]
      BY <1>1, <1>5, <2>2 DEF Write, StreamTypeOK
    <3>2. PacketsOf(iface, piece) \in Seq(Packet)
      <4>1. iface = "bin" => piece \in Seq(Byte)
        BY <3>1, StreamAssumption
      <4>2. iface = "hex" => piece \in Seq({Garbled} \cup Packet)
        BY <3>1, StreamAssumption DEF Packet
      <4> QED BY <1>1, <3>1, <4>1, <4>2, PacketsType
    <3>3. ProgTypeOK' /\ Pending'
      BY <1>1, <1>5, <2>2, <3>1, <3>2, WriteTypes DEF Write
    <3>4. start' \in Nat
      BY <1>1, <1>5, <2>2 DEF Write, Records
    <3>5. sent' \in Seq(Byte)
      <4>1. CASE iface = "bin"
        <5>1. piece \in Seq(Byte)
          BY <3>1, <4>1, StreamAssumption
        <5>2. sent \in Seq(Byte) /\ sent \o piece \in Seq(Byte)
          BY <1>1, <5>1 DEF Records, Pending
        <5>3. sent' = sent \o piece \/ sent' = sent
          BY <1>5, <2>2 DEF Write
        <5> QED BY <5>2, <5>3
      <4>2. CASE iface # "bin"
        BY <1>1, <1>5, <2>2, <4>2 DEF Write, Records, Pending
      <4> QED BY <4>1, <4>2
    <3>6. (iface' \in Progs \cup {"none"}) /\ pc' = "write" /\ cleaned' = cleaned /\ mixed' = mixed
      BY <1>1, <1>5, <2>2 DEF Write, StreamTypeOK
    <3> QED BY <1>1, <3>3, <3>4, <3>5, <3>6 DEF StreamTypeOK, Records
  <2> QED BY <2>1, <2>2
<1>6. ASSUME NEW i \in Progs, ProgramClean(i), EndStream,
             iface' \in Progs \cup {"none"}, pc' = "clean"
      PROVE  (StreamTypeOK /\ Records)'
  <2>1. ProgTypeOK' /\ Pending'
    BY <1>1, <1>6, CleanTypes DEF Records
  <2> QED BY <1>1, <1>2, <1>3, <1>6, <2>1 DEF StreamTypeOK, Records
<1>7. ASSUME UNCHANGED prog_vars, EndStream,
             iface' \in Progs \cup {"none"}, pc' = pc
      PROVE  (StreamTypeOK /\ Records)'
  BY <1>1, <1>2, <1>3, <1>7
  DEF StreamTypeOK, ProgTypeOK, Records, Pending, prog_vars, session, running
<1>8. CASE Clean
  <2>1. iface' \in Progs \cup {"none"}
    BY <1>1, <1>8 DEF Clean, StreamTypeOK
  <2> QED BY <1>1, <1>6, <1>7, <1>8, <2>1 DEF Clean, StreamTypeOK
<1>9. CASE Destroy
  BY <1>1, <1>6, <1>7, <1>9 DEF Destroy, StreamTypeOK
<1>10. CASE Written
  <2>1. iface \in Progs /\ iface' \in Progs \cup {"none"}
    BY <1>10 DEF Written, CallInv, Calling, Quiet
  <2>2. CASE answer /\ pc' = "idle" /\ UNCHANGED <<prog_vars, stream>>
    BY <1>1, <2>1, <2>2
    DEF StreamTypeOK, ProgTypeOK, Records, Pending, prog_vars, session, running, stream
  <2> QED BY <1>6, <1>10, <2>1, <2>2 DEF Written
<1>11. CASE Cleaned \/ UNCHANGED vars
  <2>1. UNCHANGED <<prog_vars, iface, stream>> /\ pc' \in {"idle", "write", "clean"}
    BY <1>1, <1>11 DEF Cleaned, vars, sp_vars, StreamTypeOK
  <2> QED BY <1>1, <2>1
    DEF StreamTypeOK, ProgTypeOK, Records, Pending, prog_vars, session, running, stream
<1>12. CASE (Progress \/ Work) /\ UNCHANGED <<sp_vars, stream>>
  <2>1. ProgTypeOK' /\ Pending'
    BY <1>1, <1>12, ProgressTypes DEF Records
  <2> QED BY <1>1, <1>12, <2>1 DEF StreamTypeOK, Records, sp_vars, stream
<1> QED
  BY <1>4, <1>5, <1>8, <1>9, <1>10, <1>11, <1>12 DEF Next, User

\* Every step keeps the calls nested.
LEMMA CallStep ==
    ASSUME CallInv, [Next]_vars
    PROVE  Calling'
<1>1. Calling /\ iface \in Progs \cup {"none"} /\ pc \in {"idle", "write", "clean"}
      /\ call \in {"none", "write", "clean"}
  BY DEF CallInv, StreamTypeOK, ProgTypeOK
<1>2. ASSUME NEW m \in Progs \cup {"none"}, NEW addr \in Starts, InitStream(m, addr)
      PROVE  Calling'
  <2>1. CASE UNCHANGED <<prog_vars, pc>>
    BY <1>1, <1>2, <2>1 DEF InitStream, Idle, Free, Calling, Quiet, prog_vars, running
  <2>2. CASE ProgramInit(m, addr) /\ pc' = pc
    <3>1. call' = "none" /\ todo' = << >> /\ ~busy'
      BY <2>2 DEF ProgramInit, Answer, Drop, FlashOpens, FlashRefuses
    <3> QED BY <1>2, <2>2, <3>1 DEF InitStream, Idle, Calling, Quiet
  <2> QED BY <1>2, <2>1, <2>2 DEF InitStream
<1>3. ASSUME NEW piece, Write(piece)
      PROVE  Calling'
  <2>1. CASE iface = "none"
    BY <1>1, <1>3, <2>1 DEF Write, Idle, Free, Calling, Quiet, prog_vars, running, stream
  <2>2. CASE iface # "none"
    BY <1>1, <1>3, <2>2 DEF Write, ProgramWrite, Calling, Quiet
  <2> QED BY <2>1, <2>2
<1>4. ASSUME NEW i \in Progs, ProgramClean(i), pc' = "clean", EndStream
      PROVE  Calling'
  BY <1>1, <1>4 DEF ProgramClean, Free, Calling, Quiet, EndStream
<1>5. CASE Clean
  BY <1>1, <1>4, <1>5 DEF Clean, Idle, Free, Calling, Quiet, prog_vars, running
<1>6. CASE Destroy
  BY <1>1, <1>4, <1>6 DEF Destroy, Idle, Free, Calling, Quiet, prog_vars, running
<1>7. CASE Written
  BY <1>1, <1>4, <1>7 DEF Written, Free, Calling, Quiet, prog_vars, running
<1>8. CASE Cleaned
  BY <1>1, <1>8 DEF Cleaned, Free, Calling, Quiet, prog_vars, running, stream
<1>9. CASE UNCHANGED vars
  BY <1>1, <1>9 DEF vars, sp_vars, Calling, Quiet, prog_vars, running, stream
<1>10. CASE Progress /\ UNCHANGED <<sp_vars, stream>>
  <2>1. UNCHANGED <<iface, pc, cleaned>>
    BY <1>10 DEF sp_vars, stream
  <2>2. CASE PacketBegin
    <3>1. CASE CanWrite(prog)
      BY <1>1, <2>1, <2>2, <3>1 DEF PacketBegin, Calling, Quiet
    <3>2. CASE ~CanWrite(prog)
      BY <1>1, <2>1, <2>2, <3>2 DEF PacketBegin, Answer, Drop, Calling, Quiet
    <3> QED BY <3>1, <3>2
  <2>3. CASE PacketAccepted
    <3>1. call = "write"
      BY <1>1, <2>3 DEF PacketAccepted, Calling, Quiet
    <3> QED BY <1>1, <2>1, <2>3, <3>1 DEF PacketAccepted, Calling, Quiet
  <2>4. CASE PacketFails \/ WriteEnd
    <3>1. call' = "none" /\ todo' = << >> /\ ~busy'
      BY <2>4 DEF PacketFails, WriteEnd, Answer, Drop
    <3> QED BY <1>1, <2>1, <3>1 DEF Calling, Quiet
  <2>5. CASE CleanEnd
    BY <1>1, <2>1, <2>5 DEF CleanEnd, Calling, Quiet
  <2> QED BY <1>10, <2>2, <2>3, <2>4, <2>5 DEF Progress
<1>11. CASE Work /\ UNCHANGED <<sp_vars, stream>>
  BY <1>1, <1>11 DEF Work, sp_vars, Calling, Quiet, running, stream
<1> QED
  BY <1>2, <1>3, <1>5, <1>6, <1>7, <1>8, <1>9, <1>10, <1>11 DEF Next, User

\* Every step keeps the sessions of the two programs apart, and closes the one
\* of a write that failed.
LEMMA SessionStep ==
    ASSUME CallInv, [Next]_vars
    PROVE  OneSession' /\ FailedClosed'
<1>1. /\ Calling /\ OneSession /\ FailedClosed
      /\ iface \in Progs \cup {"none"} /\ pc \in {"idle", "write", "clean"}
      /\ call \in {"none", "write", "clean"} /\ prog \in Progs /\ mixed \in Nat
      /\ mode \in [Progs -> {"closed", "open", "error"}]
  BY DEF CallInv, StreamTypeOK, ProgTypeOK
<1>2. "none" \notin Progs
  BY DEF Progs
<1>3. ASSUME UNCHANGED <<mode, torn, call, prog, iface, cleaned, mixed>>, failed_write' => failed_write
      PROVE  OneSession' /\ FailedClosed'
  BY <1>1, <1>3 DEF OneSession, FailedClosed
<1>4. ASSUME NEW m \in Progs \cup {"none"}, NEW addr \in Starts, InitStream(m, addr)
      PROVE  OneSession' /\ FailedClosed'
  <2>1. FailedClosed'
    BY <1>4 DEF InitStream, FailedClosed
  <2>2. ASSUME mixed' = 0
        PROVE  mixed = 0 /\ cleaned /\ ~torn /\ \A i \in Progs : mode[i] = "closed"
    <3>1. mixed = 0 /\ cleaned
      BY <1>1, <1>4, <2>2 DEF InitStream
    <3>2. call = "none"
      BY <1>4 DEF InitStream, Idle, Free
    <3> QED BY <1>1, <3>1, <3>2 DEF OneSession
  <2>3. CASE UNCHANGED <<mode, torn>>
    BY <2>1, <2>2, <2>3 DEF OneSession
  <2>4. CASE m \in Progs /\ FlashOpens(m) /\ iface' = m /\ cleaned' = FALSE
    <3>1. mixed' = 0 => ~torn'
      BY <2>2, <2>4 DEF FlashOpens, OthersOpen
    <3>2. ASSUME mixed' = 0, NEW i \in Progs, mode'[i] # "closed"
          PROVE  ~cleaned' /\ i = iface'
      BY <1>1, <2>2, <2>4, <3>2 DEF FlashOpens
    <3> QED BY <2>1, <3>1, <3>2 DEF OneSession
  <2> QED BY <1>4, <2>3, <2>4
    DEF InitStream, ProgramInit, FlashRefuses, NewStream, prog_vars, session
<1>5. ASSUME NEW piece, Write(piece)
      PROVE  OneSession' /\ FailedClosed'
  <2>1. /\ pc = "idle" /\ call = "none"
        /\ UNCHANGED <<mode, torn, iface, cleaned, mixed>>
    BY <1>5 DEF Write, ProgramWrite, Idle, Free, prog_vars, session, stream
  <2>2. OneSession'
    BY <1>1, <2>1 DEF OneSession
  <2>3. iface = "none" \/ failed_write' = FALSE
    BY <1>5 DEF Write
  <2> QED BY <2>1, <2>2, <2>3 DEF FailedClosed
\* Whatever clean, the destructor and a failed write close is all there is.
<1>6. ASSUME ProgramClean(iface), iface \in Progs, EndStream
      PROVE  /\ OneSession'
             /\ mode'[iface] = "closed" \/ (call' = "clean" /\ prog' = iface)
  <2>1. call = "none" /\ cleaned' /\ mixed' = mixed
    BY <1>6 DEF ProgramClean, Free, EndStream
  <2>2. /\ torn' = torn
        /\ mode'[iface] = "closed" \/ (call' = "clean" /\ prog' = iface)
        /\ \A i \in Progs \ {iface} : mode'[i] = mode[i]
    BY <1>1, <1>6 DEF ProgramClean, Closed, session
  <2>3. ASSUME mixed = 0, NEW i \in Progs \ {iface}
        PROVE  mode[i] = "closed"
    BY <1>1, <2>1, <2>3 DEF OneSession
  <2>4. mixed = 0 => ~torn
    BY <1>1 DEF OneSession
  <2>5. ASSUME mixed' = 0, NEW i \in Progs, mode'[i] # "closed"
        PROVE  call' = "clean" /\ prog' = i
    BY <2>1, <2>2, <2>3, <2>5
  <2> QED BY <2>1, <2>2, <2>4, <2>5 DEF OneSession
<1>7. ASSUME iface = "none", UNCHANGED prog_vars, EndStream, call = "none"
      PROVE  OneSession'
  <2>1. UNCHANGED <<mode, torn>> /\ mixed' = mixed
    BY <1>7 DEF EndStream, prog_vars, session
  <2> QED BY <1>1, <1>2, <1>7, <2>1 DEF OneSession
<1>8. CASE Clean
  <2>1. failed_write' = FALSE
    BY <1>8 DEF Clean
  <2> QED BY <1>1, <1>6, <1>7, <1>8, <2>1 DEF Clean, Idle, Free, FailedClosed
<1>9. CASE Destroy
  <2>1. failed_write' = FALSE
    BY <1>9 DEF Destroy
  <2> QED BY <1>1, <1>6, <1>7, <1>9, <2>1 DEF Destroy, Idle, Free, FailedClosed
<1>10. CASE Written
  <2>1. CASE answer /\ UNCHANGED <<prog_vars, stream>> /\ failed_write' = ~answer
    BY <1>3, <1>10, <2>1 DEF Written, prog_vars, session, running, stream
  <2>2. CASE ProgramClean(iface) /\ EndStream
    BY <1>1, <1>6, <1>10, <2>2 DEF Written, Calling, Quiet, FailedClosed
  <2> QED BY <1>10, <2>1, <2>2 DEF Written
<1>11. CASE Cleaned \/ UNCHANGED vars
  BY <1>3, <1>11 DEF Cleaned, vars, sp_vars, prog_vars, session, running, stream
<1>12. CASE Work /\ UNCHANGED <<sp_vars, stream>>
  BY <1>3, <1>12 DEF Work, running, sp_vars, stream
<1>13. CASE Progress /\ UNCHANGED <<sp_vars, stream>>
  <2>1. UNCHANGED <<iface, failed_write, cleaned, mixed>>
    BY <1>13 DEF sp_vars, stream
  <2>2. CASE PacketBegin \/ PacketAccepted \/ WriteEnd
    <3>1. call = "write"
      BY <1>1, <2>2 DEF PacketBegin, PacketAccepted, WriteEnd, Calling, Quiet
    <3>2. UNCHANGED <<mode, torn, prog>>
      BY <2>2 DEF PacketBegin, PacketAccepted, WriteEnd, Drop, session
    <3> QED BY <1>1, <2>1, <3>1, <3>2 DEF OneSession, FailedClosed
  <2>3. CASE PacketFails
    <3>1. call = "write" /\ prog = iface
      BY <1>1, <2>3 DEF PacketFails, Calling, Quiet
    <3>2. mode' = [mode EXCEPT ![prog] = "error"] /\ torn' = torn /\ mode[prog] = "open"
      BY <2>3 DEF PacketFails, CallInv, StreamTypeOK, ProgTypeOK
    <3>3. ~(failed_write /\ iface # "none")
      BY <1>1, <3>1, <3>2 DEF FailedClosed
    <3>4. FailedClosed'
      BY <2>1, <3>3 DEF FailedClosed
    <3>5. OneSession'
      BY <1>1, <2>1, <3>1, <3>2 DEF OneSession
    <3> QED BY <3>4, <3>5
  <2>4. CASE CleanEnd
    <3>1. mode' = [mode EXCEPT ![prog] = "closed"] /\ torn' = torn /\ call = "clean"
      BY <2>4 DEF CleanEnd, Closed
    <3> QED BY <1>1, <2>1, <3>1 DEF OneSession, FailedClosed
  <2> QED BY <1>13, <2>2, <2>3, <2>4 DEF Progress
<1> QED
  BY <1>4, <1>5, <1>8, <1>9, <1>10, <1>11, <1>12, <1>13 DEF Next, User

\* Every step keeps the bytes of a binary in order.
LEMMA OrderStep ==
    ASSUME SectorsAligned, IInv, [Next]_vars
    PROVE  InOrder'
<1>1. /\ Calling /\ OneSession /\ InOrder /\ Records
      /\ iface \in Progs \cup {"none"} /\ pc \in {"idle", "write", "clean"}
      /\ call \in {"none", "write", "clean"} /\ prog \in Progs /\ mixed \in Nat
      /\ mode \in [Progs -> {"closed", "open", "error"}]
      /\ program_addr \in [Progs -> Nat]
  BY DEF IInv, CallInv, StreamTypeOK, ProgTypeOK
<1>2. OneSession' /\ "bin" \in Progs /\ "none" \notin Progs
  BY SessionStep DEF IInv, Progs
<1>3. Tracked => /\ ~torn /\ iface = "bin" /\ ~cleaned /\ pc # "clean"
                 /\ call = "write" => prog = "bin"
  BY <1>1, <1>2 DEF Tracked, OneSession, Calling, Quiet
\* A stream that has ended is not tracked any more.
<1>4. ASSUME cleaned' PROVE ~Tracked'
  BY <1>2, <1>4 DEF Tracked, OneSession
<1>5. ASSUME EndStream PROVE InOrder'
  <2>1. cleaned'
    BY <1>5 DEF EndStream
  <2> QED BY <1>4, <2>1 DEF InOrder
<1>6. ASSUME UNCHANGED <<prog_vars, stream>>, pc' # "write" \/ pc' = pc
      PROVE  InOrder'
  <2>1. /\ HandedIn' = HandedIn
        /\ UNCHANGED <<mode, image, open, program_addr, call, todo, bad, decode_size, answer,
                       start, sent, mixed>>
    BY <1>6 DEF HandedIn, prog_vars, session, running, stream
  <2> QED BY <1>1, <1>6, <2>1 DEF InOrder, Tracked
<1>7. ASSUME NEW m \in Progs \cup {"none"}, NEW addr \in Starts, InitStream(m, addr), Tracked'
      PROVE  InOrder'
  <2>1. mixed = 0 /\ cleaned /\ call = "none" /\ pc = "idle"
    BY <1>1, <1>7 DEF InitStream, Tracked, Idle, Free
  <2>2. \A i \in Progs : mode[i] = "closed"
    BY <1>1, <2>1 DEF OneSession
  <2>3. mode'["bin"] = "open"
    BY <1>7 DEF Tracked
  <2>4. m = "bin" /\ FlashOpens("bin")
    BY <1>1, <1>2, <1>7, <2>2, <2>3
    DEF InitStream, ProgramInit, FlashRefuses, FlashOpens, prog_vars, session
  <2>5. image' = Blank /\ open' = NoSector
    BY <2>2, <2>4 DEF FlashOpens, OthersOpen, Forget
  <2>6. start' = addr /\ sent' = << >> /\ addr \in Nat /\ pc' = "idle"
    BY <1>2, <1>7, <2>1, <2>4, StreamAssumption DEF InitStream, NewStream
  <2>7. program_addr'["bin"] = addr /\ todo' = << >> /\ call' = "none"
    BY <1>1, <1>2, <1>7, <2>2, <2>4, <2>3
    DEF InitStream, ProgramInit, StartAddr, Drop, FlashOpens, Answer, session
  <2>8. HandedIn' = << >>
    BY <2>6, <2>7 DEF HandedIn
  <2>9. Blank \in [Addr -> {Unset}]
    BY DEF Blank
  <2>10. image' = ImageAfter(Blank, NoSector, start', HandedIn')
         /\ open' = OpenAfter(NoSector, start', HandedIn')
    BY <2>5, <2>6, <2>8, <2>9, ImageAfterNothing
  <2>11. program_addr'["bin"] = start' + Len(sent')
    BY <2>6, <2>7
  <2> QED BY <2>6, <2>7, <2>10, <2>11 DEF InOrder
<1>8. ASSUME NEW m \in Progs, NEW piece \in Pieces[m], Write(piece), Tracked'
      PROVE  InOrder'
  <2>1. CASE iface = "none"
    BY <1>6, <1>8, <2>1 DEF Write, Idle
  <2>2. CASE iface # "none"
    <3>1. UNCHANGED <<mode, image, open, program_addr, start, mixed>> /\ call = "none"
      BY <1>8, <2>2 DEF Write, ProgramWrite, session, Idle, Free
    <3>2. Tracked /\ iface = "bin" /\ mixed = 0
      BY <1>3, <1>8, <3>1 DEF Tracked
    <3>3. piece \in Seq(Byte)
      BY <1>8, <2>2, <3>2, StreamAssumption DEF Write
    <3>4. /\ sent' = sent \o piece /\ bad' = FALSE /\ decode_size' = 0 /\ call' = "write"
          /\ todo' = <<[addr |-> program_addr["bin"], data |-> piece]>>
      BY <1>8, <2>2, <3>2 DEF Write, ProgramWrite, PacketsOf
    <3>5. todo = << >> /\ HandedIn = sent
      BY <1>1, <3>1 DEF Calling, Quiet, HandedIn
    <3>6. /\ todo' # << >> /\ Len(todo') = 1
          /\ todo'[1].addr = program_addr["bin"] /\ todo'[1].data = piece
      BY <3>4
    <3>7. /\ Len(sent) \in Nat /\ Len(piece) \in Nat
          /\ Len(sent') = Len(sent) + Len(piece)
          /\ SubSeq(sent \o piece, 1, Len(sent)) = sent
      BY <1>1, <3>3, <3>4 DEF Records, Pending
    <3>8. HandedIn' = sent
      <4>1. HandedIn' = SubSeq(sent', 1, Len(sent') - Len(piece))
        BY <3>6 DEF HandedIn
      <4>2. Len(sent') - Len(piece) = Len(sent)
        BY <3>7
      <4> QED BY <3>4, <3>7, <4>1, <4>2
    <3>9. /\ image = ImageAfter(Blank, NoSector, start, sent)
          /\ open = OpenAfter(NoSector, start, sent)
          /\ program_addr["bin"] = start + Len(sent)
      BY <1>1, <3>1, <3>2, <3>5 DEF InOrder
    <3>10. program_addr'["bin"] + decode_size' = start' + Len(HandedIn')
      BY <1>1, <1>2, <3>1, <3>4, <3>7, <3>8, <3>9
    <3>11. Len(todo'[1].data) <= Len(sent') /\ sent' = HandedIn' \o todo'[1].data
      BY <3>4, <3>6, <3>7, <3>8
    <3> QED BY <3>1, <3>4, <3>6, <3>8, <3>9, <3>10, <3>11 DEF InOrder
  <2> QED BY <2>1, <2>2
<1>9. CASE Clean \/ Destroy
  BY <1>5, <1>9 DEF Clean, Destroy
<1>10. CASE Written
  BY <1>5, <1>6, <1>10 DEF Written
<1>11. CASE Cleaned
  BY <1>6, <1>11 DEF Cleaned
<1>12. CASE UNCHANGED vars
  BY <1>6, <1>12 DEF vars, sp_vars
<1>13. CASE Work /\ UNCHANGED <<sp_vars, stream>>
  <2>1. /\ HandedIn' = HandedIn /\ pc' = pc
        /\ UNCHANGED <<mode, image, open, program_addr, call, todo, bad, decode_size, answer,
                       start, sent, mixed>>
    BY <1>13 DEF Work, HandedIn, running, sp_vars, stream
  <2> QED BY <1>1, <2>1 DEF InOrder, Tracked
<1>14. ASSUME Progress, UNCHANGED <<sp_vars, stream>>, Tracked'
       PROVE  InOrder'
  <2>1. UNCHANGED <<pc, iface, start, sent, cleaned, mixed>>
    BY <1>14 DEF sp_vars, stream
  <2>2. iface = "bin" /\ ~cleaned
    BY <1>2, <1>14, <2>1 DEF Tracked, OneSession
  <2>3. ~CleanEnd
    BY <1>1, <2>2 DEF CleanEnd, Calling, Quiet
  <2>4. call = "write" /\ prog = "bin" /\ pc = "write"
    BY <1>1, <1>14, <2>2, <2>3
    DEF Progress, PacketBegin, PacketAccepted, PacketFails, WriteEnd, Calling, Quiet
  <2>5. ~PacketFails
    BY <1>1, <1>2, <1>14, <2>4 DEF PacketFails, Tracked
  <2>6. mode["bin"] = "open" /\ UNCHANGED mode
    BY <1>14, <2>3, <2>5
    DEF Progress, PacketBegin, PacketAccepted, WriteEnd, Tracked, session
  <2>7. Tracked
    BY <1>14, <2>1, <2>4, <2>6 DEF Tracked
  <2>8. CASE PacketBegin
    <3>1. /\ UNCHANGED <<image, open, call, todo, bad, decode_size>>
          /\ program_addr' = program_addr
      <4>1. CanWrite(prog)
        BY <2>4, <2>6 DEF CanWrite
      <4>2. FirstAddr(Head(todo)) = program_addr[prog]
        BY <2>4 DEF FirstAddr
      <4> QED BY <1>1, <2>8, <4>1, <4>2 DEF PacketBegin
    <3>2. HandedIn' = HandedIn
      BY <2>1, <3>1 DEF HandedIn
    <3> QED BY <1>1, <2>1, <2>4, <2>7, <3>1, <3>2 DEF InOrder
  <2>9. CASE PacketAccepted
    <3> DEFINE data == todo[1].data
    <3>1. todo # << >>
      BY <2>9 DEF PacketAccepted, IInv, CallInv, StreamTypeOK, ProgTypeOK
    <3>2. todo[1] \in Packet /\ Head(todo) = todo[1]
      BY <1>1, <3>1 DEF Records, Pending
    <3>3. data \in Seq(Byte) /\ Len(data) \in Nat
      BY <3>2 DEF Packet
    <3>4. /\ Len(todo) = 1 /\ decode_size = 0 /\ todo[1].addr = program_addr["bin"]
          /\ sent = HandedIn \o data /\ Len(data) <= Len(sent)
          /\ image = ImageAfter(Blank, NoSector, start, HandedIn)
          /\ open = OpenAfter(NoSector, start, HandedIn)
          /\ program_addr["bin"] + decode_size = start + Len(HandedIn) /\ ~bad
      BY <1>1, <2>4, <2>7, <3>1 DEF InOrder
    <3>5. HandedIn \in Seq(Byte) /\ Len(HandedIn) \in Nat
      <4>1. Len(sent) - Len(data) \in 0 .. Len(sent)
        BY <1>1, <3>3, <3>4 DEF Records, Pending
      <4>2. HandedIn = SubSeq(sent, 1, Len(sent) - Len(data))
        BY <3>1 DEF HandedIn
      <4> HIDE DEF data, HandedIn
      <4>3. HandedIn \in Seq(Byte)
        BY <1>1, <4>1, <4>2 DEF Records, Pending
      <4> QED BY <4>3
    <3>6. todo[1].addr = start + Len(HandedIn)
      BY <1>1, <1>2, <3>4, <3>5 DEF Records, Pending
    <3>7. /\ image' = ImageAfter(image, open, todo[1].addr, data)
          /\ open' = OpenAfter(open, todo[1].addr, data)
          /\ decode_size' = decode_size + Len(data) /\ todo' = Tail(todo)
          /\ UNCHANGED <<program_addr, call, bad>>
      BY <1>3, <2>7, <2>9, <3>2 DEF PacketAccepted
    <3>8. todo' = << >>
      <4>1. todo \in Seq(Packet) /\ Len(todo) = 1
        BY <1>1, <3>4 DEF Records, Pending
      <4>2. Tail(todo) \in Seq(Packet) /\ Len(Tail(todo)) = 0
        BY <3>1, <4>1
      <4> QED BY <3>7, <4>2
    <3>9. HandedIn' = sent
      BY <2>1, <3>8 DEF HandedIn
    <3> HIDE DEF data, HandedIn
    <3>10. image' = ImageAfter(Blank, NoSector, start, sent)
      BY <1>1, <3>3, <3>4, <3>5, <3>6, <3>7, PacketCut DEF Records, Pending
    <3>11. open' = OpenAfter(NoSector, start, sent)
      BY <1>1, <3>3, <3>4, <3>5, <3>6, <3>7, CutOpen DEF Records, Pending
    <3>12. Len(sent) = Len(HandedIn) + Len(data)
      BY <3>3, <3>4, <3>5
    <3>13. program_addr'["bin"] + decode_size' = start + Len(sent)
      BY <1>1, <1>2, <3>3, <3>4, <3>5, <3>7, <3>12 DEF Records, Pending
    <3> QED BY <2>1, <2>4, <3>4, <3>7, <3>8, <3>9, <3>10, <3>11, <3>13 DEF InOrder
  <2>10. CASE WriteEnd
    <3>1. todo = << >> /\ HandedIn = sent
      BY <2>10 DEF WriteEnd, HandedIn
    <3>2. /\ image = ImageAfter(Blank, NoSector, start, sent)
          /\ open = OpenAfter(NoSector, start, sent)
          /\ ~bad /\ program_addr["bin"] + decode_size = start + Len(sent)
      BY <1>1, <2>4, <2>7, <3>1 DEF InOrder
    <3>3. program_addr'["bin"] = program_addr["bin"] + decode_size
      BY <1>1, <1>2, <2>4, <2>10, <3>2 DEF WriteEnd
    <3>4. UNCHANGED <<image, open>> /\ todo' = << >> /\ call' = "none" /\ answer'
      BY <2>10, <3>2 DEF WriteEnd, session, Answer, Drop
    <3>5. HandedIn' = sent
      BY <2>1, <3>4 DEF HandedIn
    <3> QED BY <2>1, <3>2, <3>3, <3>4, <3>5 DEF InOrder
  <2> QED BY <1>14, <2>3, <2>5, <2>8, <2>9, <2>10 DEF Progress
<1>15. ~Tracked' => InOrder'
  BY DEF InOrder
<1> QED
  BY <1>7, <1>8, <1>9, <1>10, <1>11, <1>12, <1>13, <1>14, <1>15 DEF Next, User

-----------------------------------------------------------------------------
\* The invariant holds at the start, and every step keeps it.
LEMMA InitInvariant == Init => IInv
<1> SUFFICES ASSUME Init PROVE IInv
  OBVIOUS
<1>1. cells \in [Addr -> Byte]
  BY ProgramAssumption DEF Init, ProgInit
<1>2. Blank \in [Addr -> Byte \cup {Unset}]
  BY DEF Blank
<1>3. 0 \in Nat /\ << >> \in Seq(Packet) /\ << >> \in Seq(Byte) /\ 0 \in 0 .. MaxMixed
  BY StreamAssumption
<1>4. mode["bin"] = "closed" /\ \A i \in Progs : mode[i] = "closed"
  BY DEF Init, ProgInit, Progs
<1>5. StreamTypeOK /\ Records
  BY <1>1, <1>2, <1>3 DEF Init, ProgInit, StreamTypeOK, ProgTypeOK, Records, Pending, Progs
<1>6. Calling /\ OneSession /\ FailedClosed
  BY <1>4 DEF Init, ProgInit, Calling, Quiet, OneSession, FailedClosed
<1>7. InOrder
  BY <1>4 DEF InOrder, Tracked
<1> QED
  BY <1>5, <1>6, <1>7 DEF IInv, CallInv

LEMMA CallInvStep == CallInv /\ [Next]_vars => CallInv'
BY TypeStep, CallStep, SessionStep DEF CallInv

LEMMA InvariantStep == SectorsAligned /\ IInv /\ [Next]_vars => IInv'
BY CallInvStep, OrderStep DEF IInv

\* The invariants give what the runs check.
LEMMA InOrderGives ==
    ASSUME IInv
    PROVE  StreamInv
<1>1. StreamInOrder
  <2> SUFFICES ASSUME Idle, mixed = 0, mode["bin"] = "open"
               PROVE  /\ image = ImageAfter(Blank, NoSector, start, sent)
                      /\ open = (IF sent = << >> THEN NoSector
                                 ELSE OpenAfter(NoSector, start, sent))
                      /\ program_addr["bin"] = start + Len(sent)
    BY DEF StreamInOrder
  <2>1. call = "none" /\ todo = << >> /\ Tracked
    BY DEF Idle, Free, IInv, CallInv, Calling, Quiet, Tracked
  <2>2. HandedIn = sent /\ start \in Nat
    BY <2>1 DEF HandedIn, IInv, CallInv, Records, Pending
  <2>3. Blank \in [Addr -> {Unset}]
    BY DEF Blank
  <2>4. sent = << >> => OpenAfter(NoSector, start, sent) = NoSector
    BY <2>2, <2>3, ImageAfterNothing
  <2> QED BY <2>1, <2>2, <2>4 DEF IInv, InOrder
<1> QED
  BY <1>1 DEF StreamInv, IInv, CallInv

\* What the part without a hypothesis gives the user.
LEMMA CallsGive ==
    ASSUME CallInv
    PROVE  FailedWriteCloses /\ CleanCloses
<1>1. FailedWriteCloses
  BY DEF FailedWriteCloses, Idle, Free, CallInv, FailedClosed
<1>2. CleanCloses
  BY DEF CleanCloses, Idle, Free, CallInv, OneSession
<1> QED
  BY <1>1, <1>2

\* However the user cuts a binary into pieces, the session has the image of
\* one write of all of them, and every variable has its type.
THEOREM StreamOrder == ASSUME SectorsAligned PROVE Spec => []StreamInv
<1>1. IInv /\ [Next]_vars => IInv'
  BY InvariantStep
<1> QED
  BY <1>1, InitInvariant, InOrderGives, PTL DEF Spec

\* When write has returned false, the session it wrote to is closed.
THEOREM StreamFailure == Spec => []FailedWriteCloses
<1>1. Init => CallInv
  BY InitInvariant DEF IInv
<1> QED
  BY <1>1, CallInvStep, CallsGive, PTL DEF Spec

\* A user who cleans before every init never has two sessions at once, and
\* finds both programs closed.
THEOREM StreamClean == Spec => []CleanCloses
<1>1. Init => CallInv
  BY InitInvariant DEF IInv
<1> QED
  BY <1>1, CallInvStep, CallsGive, PTL DEF Spec
=============================================================================

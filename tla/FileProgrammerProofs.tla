------------------------ MODULE FileProgrammerProofs ------------------------
(***************************************************************************)
(* What holds of FileProgrammer::program for every memory map, every file, *)
(* every size of the buffer and every failure.                             *)
(***************************************************************************)
EXTENDS FileProgrammer, FlashLayoutProofs

Packet == [addr : Nat, data : Seq(Byte)]

Pending == todo \in Seq(Packet) /\ decode_size \in Nat /\ bad \in BOOLEAN

\* Only a write has packets to hand over.
Quiet == call # "write" => todo = << >> /\ ~busy

\* The sound records of a chunk are those of its records that are not garbled.
LEMMA SoundPart ==
    ASSUME NEW T, NEW chunk \in Seq({Garbled} \cup T)
    PROVE  \E n \in 0 .. Len(chunk) :
               /\ \A k \in 1 .. n : chunk[k] # Garbled
               /\ n < Len(chunk) => chunk[n + 1] = Garbled
               /\ Sound(chunk) = SubSeq(chunk, 1, n)
<1> DEFINE IsEnd(n) == /\ \A k \in 1 .. n : chunk[k] # Garbled
                       /\ n < Len(chunk) => chunk[n + 1] = Garbled
           S == {k \in 1 .. Len(chunk) : chunk[k] = Garbled}
<1>1. Len(chunk) \in Nat /\ \A k \in 1 .. Len(chunk) : chunk[k] \in {Garbled} \cup T
  OBVIOUS
<1>2. \E n \in 0 .. Len(chunk) : IsEnd(n)
  <2>1. CASE S = {}
    <3>1. IsEnd(Len(chunk))
      BY <1>1, <2>1
    <3> QED BY <1>1, <3>1
  <2>2. CASE S # {}
    <3>1. PICK m \in S : \A j \in 1 .. m - 1 : j \notin S
      <4>1. S \in SUBSET (1 .. Len(chunk))
        OBVIOUS
      <4> HIDE DEF S
      <4> QED BY <1>1, <2>2, <4>1, FirstIndex
    <3>2. PICK n \in 0 .. Len(chunk) : n + 1 = m
      <4>1. m - 1 \in 0 .. Len(chunk) /\ m - 1 + 1 = m
        BY <1>1, <3>1
      <4> QED BY <4>1
    <3>3. chunk[n + 1] = Garbled
      BY <1>1, <3>1, <3>2
    <3>4. \A k \in 1 .. n : chunk[k] # Garbled
      BY <1>1, <3>1, <3>2
    <3> QED BY <3>2, <3>3, <3>4
  <2> QED BY <2>1, <2>2
<1> DEFINE n == CHOOSE n \in 0 .. Len(chunk) : IsEnd(n)
<1>3. n \in 0 .. Len(chunk) /\ IsEnd(n)
  BY <1>2, Zenon
<1>4. Sound(chunk) = SubSeq(chunk, 1, n)
  BY Zenon DEF Sound
<1> QED
  BY <1>3, <1>4

\* The sound records of a chunk have the type of its records.
LEMMA SoundType ==
    ASSUME NEW T, NEW chunk \in Seq({Garbled} \cup T)
    PROVE  Sound(chunk) \in Seq(T)
<1>1. Len(chunk) \in Nat /\ \A k \in 1 .. Len(chunk) : chunk[k] \in {Garbled} \cup T
  OBVIOUS
<1>2. PICK n \in 0 .. Len(chunk) :
          (\A k \in 1 .. n : chunk[k] # Garbled) /\ Sound(chunk) = SubSeq(chunk, 1, n)
  BY SoundPart
<1>3. \A k \in 1 .. n : chunk[k] \in T
  BY <1>1, <1>2
<1>4. SubSeq(chunk, 1, n) = [k \in 1 .. n |-> chunk[k]]
  BY <1>1, <1>2
<1> QED
  BY <1>2, <1>3, <1>4

\* What a write hands over is packets.
LEMMA PacketsType ==
    ASSUME ProgTypeOK, NEW i \in Progs, NEW chunk,
           i = "bin" => chunk \in Seq(Byte),
           i = "hex" => chunk \in Seq({Garbled} \cup Packet)
    PROVE  PacketsOf(i, chunk) \in Seq(Packet)
<1>1. program_addr[i] \in Nat
  BY DEF ProgTypeOK
<1>2. CASE i = "bin"
  <2>1. [addr |-> program_addr[i], data |-> chunk] \in Packet
    BY <1>1, <1>2 DEF Packet
  <2> QED BY <1>2, <2>1 DEF PacketsOf
<1>3. CASE i = "hex"
  BY <1>3, SoundType DEF PacketsOf
<1> QED
  BY <1>2, <1>3 DEF Progs

\* What init, write and clean of a program make of the types.
LEMMA InitTypes ==
    ASSUME ProgTypeOK, NEW i \in Progs, NEW addr \in Nat, ProgramInit(i, addr)
    PROVE  ProgTypeOK' /\ Pending' /\ Quiet'
<1>1. << >> \in Seq(Packet)
  OBVIOUS
<1>2. StartAddr(i, addr) \in Nat
  BY DEF StartAddr
<1>3. ProgTypeOK
  OBVIOUS
<1>4. program_addr' \in [Progs -> Nat]
  BY <1>2, <1>3 DEF ProgramInit, ProgTypeOK
<1>5. Blank \in [Addr -> Byte \cup {Unset}]
  BY DEF Blank
<1>6. call = "none" /\ call' = "none" /\ ~busy' /\ prog' = prog
  BY <1>3, <1>4 DEF ProgramInit, Free, Drop, FlashOpens, FlashRefuses, Answer
<1>7. /\ mode' \in [Progs -> {"closed", "open", "error"}]
      /\ outcome' \in {"none", "ok", "failed"}
      /\ cells' = cells
      /\ image' \in [Addr -> Byte \cup {Unset}]
  <2>1. CASE UNCHANGED session
    BY <1>3, <2>1 DEF session, ProgTypeOK
  <2>2. CASE FlashOpens(i)
    BY <1>3, <1>5, <2>2 DEF FlashOpens, ProgTypeOK, Forget
  <2> QED BY <2>1, <2>2 DEF ProgramInit, FlashRefuses
<1>8. todo' = << >> /\ bad' = FALSE /\ decode_size' = 0
  BY DEF ProgramInit, Drop
<1> QED
  BY <1>1, <1>3, <1>4, <1>6, <1>7, <1>8 DEF ProgTypeOK, Pending, Quiet

\* A write keeps the types if its packets have theirs.
LEMMA WriteTypes ==
    ASSUME ProgTypeOK, NEW i \in Progs, NEW chunk, PacketsOf(i, chunk) \in Seq(Packet),
           ProgramWrite(i, chunk)
    PROVE  ProgTypeOK' /\ Pending' /\ Quiet'
<1>1. bad' \in BOOLEAN
  <2>1. bad' = (i = "hex" /\ Garbled \in {chunk[k] : k \in DOMAIN chunk})
    BY DEF ProgramWrite
  <2> QED BY <2>1, Zenon
<1>2. ProgTypeOK'
  BY DEF ProgramWrite, ProgTypeOK, session
<1> QED
  BY <1>1, <1>2 DEF ProgramWrite, Pending, Quiet

\* A clean keeps the types.
LEMMA CleanTypes ==
    ASSUME ProgTypeOK, Pending, Quiet, NEW i \in Progs, ProgramClean(i)
    PROVE  ProgTypeOK' /\ Pending' /\ Quiet'
<1>1. ProgTypeOK /\ ~busy /\ todo = << >> /\ call' \in {"none", "clean"}
  BY DEF Quiet, ProgramClean, Free
<1>2. Blank \in [Addr -> Byte \cup {Unset}]
  BY DEF Blank
<1>3. program_addr' \in [Progs -> Nat] /\ ~busy' /\ UNCHANGED <<todo, bad, decode_size>>
  BY <1>1 DEF ProgramClean, ProgTypeOK
<1>4. Pending' /\ Quiet'
  BY <1>1, <1>3 DEF Pending, Quiet
<1>5. CASE mode[i] = "error" /\ Closed(i) /\ outcome' = "failed" /\ Forgotten
           /\ UNCHANGED <<cells, torn, call, prog>>
  BY <1>1, <1>2, <1>3, <1>5, <1>4 DEF ProgTypeOK, Closed, Forgotten, Forget
<1>6. CASE /\ UNCHANGED session
           /\ UNCHANGED <<call, prog>> \/ (call' = "clean" /\ prog' = i)
  BY <1>1, <1>3, <1>6, <1>4 DEF ProgTypeOK, session
<1> QED
  BY <1>5, <1>6, <1>4 DEF ProgramClean

\* What the accessor and the loops of a write make of them.
LEMMA ProgressTypes ==
    ASSUME ProgTypeOK, Pending, Quiet, Progress \/ Work
    PROVE  ProgTypeOK' /\ Pending'
<1>1. ProgTypeOK /\ Pending
  OBVIOUS
<1>2. Blank \in [Addr -> Byte \cup {Unset}]
  BY DEF Blank
<1>3. << >> \in Seq(Packet)
  OBVIOUS
<1>4. ASSUME todo # << >>
      PROVE  Head(todo) \in Packet /\ Tail(todo) \in Seq(Packet)
  BY <1>1, <1>4 DEF Pending
<1>5. CASE PacketBegin
  <2>1. Head(todo) \in Packet
    BY <1>4, <1>5 DEF PacketBegin
  <2>2. FirstAddr(Head(todo)) \in Nat
    BY <1>1, <2>1 DEF FirstAddr, ProgTypeOK, Packet
  <2>3. program_addr' \in [Progs -> Nat]
    BY <1>1, <1>5, <2>2 DEF PacketBegin, ProgTypeOK
  <2>4. CASE CanWrite(prog)
    BY <1>1, <1>5, <2>3, <2>4 DEF PacketBegin, ProgTypeOK, Pending, CanWrite
  <2>5. CASE ~CanWrite(prog)
    <3>1. ~busy' /\ bad' = FALSE /\ todo' = << >> /\ decode_size' = 0
      BY <1>5, <2>5 DEF PacketBegin, Drop
    <3>2. call' = "none" /\ prog' = prog
      BY <1>5, <2>5 DEF PacketBegin, Answer, Drop
    <3>3. UNCHANGED <<mode, outcome, cells, image>>
      BY <1>5, <2>5 DEF PacketBegin, session
    <3> QED BY <1>1, <1>3, <2>3, <3>1, <3>2, <3>3 DEF ProgTypeOK, Pending
  <2> QED BY <2>4, <2>5
<1>6. CASE PacketAccepted
  <2>1. todo # << >>
    BY <1>1, <1>6 DEF PacketAccepted, ProgTypeOK
  <2>2. Head(todo).addr \in Nat /\ Head(todo).data \in Seq(Byte) /\ Len(Head(todo).data) \in Nat
    BY <1>4, <2>1 DEF Packet
  <2>3. image' \in [Addr -> Byte \cup {Unset}]
    <3>1. image \in [Addr -> Byte \cup {Unset}]
      BY <1>1 DEF ProgTypeOK
    <3>2. \/ image' = image
          \/ image' = ImageAfter(image, open, Head(todo).addr, Head(todo).data)
      BY <1>6 DEF PacketAccepted
    <3>3. ImageAfter(image, open, Head(todo).addr, Head(todo).data) \in [Addr -> Byte \cup {Unset}]
      BY <2>2, <3>1, ImageType
    <3> QED BY <3>1, <3>2, <3>3
  <2>4. decode_size' \in Nat /\ todo' \in Seq(Packet) /\ bad' \in BOOLEAN /\ ~busy'
    BY <1>1, <1>4, <1>6, <2>1, <2>2 DEF PacketAccepted, Pending
  <2> QED BY <1>1, <1>6, <2>3, <2>4 DEF PacketAccepted, ProgTypeOK, Pending
<1>7. CASE PacketFails
  BY <1>1, <1>2, <1>3, <1>7 DEF PacketFails, ProgTypeOK, Pending, Answer, Drop, Forgotten, Forget
<1>8. CASE WriteEnd
  <2>1. program_addr' \in [Progs -> Nat]
    BY <1>1, <1>8 DEF WriteEnd, ProgTypeOK, Pending
  <2> QED BY <1>1, <1>3, <1>8, <2>1 DEF WriteEnd, ProgTypeOK, Pending, Answer, Drop, session
<1>9. CASE CleanEnd
  <2>1. ~busy'
    BY <1>9 DEF CleanEnd, Quiet
  <2>2. image' \in [Addr -> Byte \cup {Unset}] /\ outcome' \in {"none", "ok", "failed"}
    BY <1>1, <1>2, <1>9 DEF CleanEnd, ProgTypeOK, Forgotten, Forget
  <2> QED BY <1>1, <1>9, <2>1, <2>2 DEF CleanEnd, Closed, ProgTypeOK, Pending
<1>10. CASE Work
  <2>1. cells' \in [Addr -> Byte]
    BY <1>1, <1>10 DEF Work, ProgTypeOK
  <2> QED BY <1>1, <1>10, <2>1 DEF Work, running, ProgTypeOK, Pending
<1> QED
  BY <1>5, <1>6, <1>7, <1>8, <1>9, <1>10 DEF Progress

\* A call that ends leaves no packet behind.
LEMMA ProgressQuiet ==
    ASSUME ProgTypeOK, Quiet, Progress \/ Work
    PROVE  Quiet'
<1>1. CASE PacketBegin
  BY <1>1 DEF PacketBegin, Quiet, Drop
<1>2. CASE PacketAccepted
  BY <1>2 DEF PacketAccepted, Quiet, ProgTypeOK
<1>3. CASE PacketFails \/ WriteEnd
  BY <1>3 DEF PacketFails, WriteEnd, Quiet, Drop
<1>4. CASE CleanEnd
  BY <1>4 DEF CleanEnd, Quiet
<1>5. CASE Work
  BY <1>5 DEF Work, Quiet, running
<1> QED
  BY <1>1, <1>2, <1>3, <1>4, <1>5 DEF Progress

\* A program that is started again has the types it was started with.
LEMMA DieTypes ==
    ASSUME ProgTypeOK, ProgDie
    PROVE  ProgTypeOK' /\ Pending' /\ Quiet'
<1>1. << >> \in Seq(Packet) /\ 0 \in Nat
  OBVIOUS
<1>2. Blank \in [Addr -> Byte \cup {Unset}]
  BY DEF Blank
<1> QED
  BY <1>1, <1>2 DEF ProgDie, ProgTypeOK, Pending, Quiet, Forget, Drop

-----------------------------------------------------------------------------

\* The loop of program(), in which pieces of the file are handed over.
Feeding == {"loop", "write", "finish"}

Arguments ==
    /\ start \in Nat
    /\ pc # "idle" => file \in Files /\ file.kind \in Progs /\ start \in Starts
    /\ pc \in Feeding /\ file.kind = "bin" => start # 0

(***************************************************************************)
(* Reading.  The end of the file is known when all of it has been read,    *)
(* and until then whole buffers have been.  A callback that is not         *)
(* registered hears nothing.                                               *)
(***************************************************************************)
Reading ==
    /\ ~registered => progress = 0
    /\ pc = "init" => pos = 0 /\ ~eof /\ progress = 0
    /\ pc = "write" => pos > 0
    /\ pc = "finish" => eof
    /\ pc \in Feeding /\ eof => file.readable /\ pos = Len(file.data)
    /\ pc \in Feeding /\ ~eof => \E k \in 0 .. Len(file.data) : pos = k * Chunk

(***************************************************************************)
(* The only session is that of the file's program.  It is open in the      *)
(* loop, and after a piece unless the piece failed; every way out closes   *)
(* it.                                                                     *)
(***************************************************************************)
OneSession ==
    /\ ~torn
    /\ \A i \in Progs : mode[i] # "closed" => pc \notin {"idle", "init"} /\ i = file.kind
    /\ pc \in {"idle", "init", "loop", "finish"} => call = "none"
    /\ pc \in {"loop", "finish"} => mode[file.kind] = "open"
    /\ pc = "write" => \/ call = "write" /\ prog = file.kind /\ mode[file.kind] = "open"
                       \/ call = "none" /\ (answer => mode[file.kind] = "open")
    /\ pc \in {"clean", "failed"} =>
         \/ call = "clean" /\ prog = file.kind /\ mode[file.kind] = "open"
         \/ call = "none" /\ mode[file.kind] = "closed"

\* The packets on their way are those of the file, and the one inside the
\* accessor is in scope.
Handing ==
    /\ busy => SectorsOf(Head(todo).addr, Head(todo).data) \subseteq scope
    /\ todo \in Seq(Packets)

\* How much of a binary its session has accepted: all that was read but the
\* bytes of the packet that is on its way.
HandedIn == IF todo = << >> THEN pos ELSE pos - Len(todo[1].data)

Fed == pc \in Feeding /\ mode[file.kind] = "open"
Binary == Fed /\ file.kind = "bin"

\* The next piece of a binary goes where the last one ended.
Addressed ==
    Binary =>
        /\ call = "none" => program_addr["bin"] = start + pos
        /\ pc = "write" /\ call = "none" => answer
        /\ call = "write" => ~bad /\ program_addr["bin"] + decode_size = start + HandedIn
        /\ todo # << >> => /\ Len(todo) = 1 /\ decode_size = 0
                           /\ todo[1].addr = program_addr["bin"]
                           /\ HandedIn \in Nat
                           /\ todo[1].data = SubSeq(file.data, HandedIn + 1, pos)

(***************************************************************************)
(* HandedOver at every step of the loop: the image is the one a session    *)
(* makes in one write of all the bytes of the binary it has accepted.      *)
(***************************************************************************)
InOrder ==
    Binary => /\ image = ImageAfter(Blank, NoSector, start, SubSeq(file.data, 1, HandedIn))
              /\ open = OpenAfter(NoSector, start, SubSeq(file.data, 1, HandedIn))

\* The same of a hex file: the session has accepted its first n records, and
\* the next ones are on their way up to the end of the piece or a garbled one.
RecordsInOrder ==
    Fed /\ file.kind = "hex" =>
        \E n \in 0 .. pos :
            /\ image = AfterRecords(file.data)[n].image
            /\ open = AfterRecords(file.data)[n].open
            /\ call = "none" /\ (pc = "write" => answer) => n = pos
            /\ call = "write" => /\ n + Len(todo) <= pos /\ (~bad => n + Len(todo) = pos)
                                 /\ \A i \in 1 .. Len(todo) : todo[i] = file.data[n + i]

\* The image stays that of the file while its session is closed, and then the
\* flash has it until another file is programmed.
Held ==
    /\ pc = "clean" /\ call = "clean" => image = FileImage(file, start)
    /\ pc = "clean" /\ call = "none" /\ outcome = "ok" => Matches(FileImage(file, start), cells)
    /\ HoldsFile

BaseInv == FileTypeOK /\ Pending /\ Quiet /\ Arguments /\ Reading /\ ProgressHonest
\* Kept whatever the sector table; the image needs a table that is aligned.
FlowInv == BaseInv /\ OneSession /\ Handing /\ Addressed
IInv == FlowInv /\ InOrder /\ RecordsInOrder /\ Held

-----------------------------------------------------------------------------
\* A file that is programmed is a sequence of bytes or of records.
LEMMA FileType ==
    ASSUME NEW f \in Files, f.kind \in Progs
    PROVE  /\ f.kind = "bin" => f.data \in Seq(Byte)
           /\ f.kind = "hex" => f.data \in Seq({Garbled} \cup (Packets \cap Packet))
           /\ Len(f.data) \in Nat /\ \E T : f.data \in Seq(T)
<1>1. /\ f.kind = "bin" => f.data \in Seq(Byte)
      /\ f.kind = "hex" => f.data \in Seq({Garbled} \cup (Packets \cap Packet))
  BY FileAssumption DEF Packet
<1>2. \E T : f.data \in Seq(T)
  BY <1>1 DEF Progs
<1> QED
  BY <1>1, <1>2

\* Induction over a set of numbers, for a number k and below it.
LEMMA UpTo ==
    ASSUME NEW S \in SUBSET Nat, 0 \in S, NEW k \in Nat,
           \A n \in S : n < k => n + 1 \in S
    PROVE  k \in S
<1> SUFFICES ASSUME k \notin S PROVE FALSE
  OBVIOUS
<1> DEFINE T == {n \in Nat : n <= k /\ n \notin S}
<1>1. T \in SUBSET Nat /\ T # {}
  OBVIOUS
<1>2. PICK n \in T : \A m \in T : n <= m
  <2> HIDE DEF T
  <2> QED BY <1>1, Least
<1>3. n \in Nat /\ n <= k /\ n \notin S /\ n # 0
  BY <1>2
<1>4. n - 1 \in Nat /\ n - 1 \notin T /\ n - 1 < k
  BY <1>2, <1>3
<1>5. n - 1 \in S
  BY <1>3, <1>4
<1>6. n - 1 + 1 = n
  BY <1>3
<1> QED
  BY <1>3, <1>4, <1>5, <1>6

\* The recursive definition of AfterRecords is one of a function.
LEMMA RecordsAccepted ==
    ASSUME NEW records, Len(records) \in Nat
    PROVE  /\ AfterRecords(records)[0] = [image |-> Blank, open |-> NoSector]
           /\ \A n \in 1 .. Len(records) :
                 AfterRecords(records)[n] = AfterRecord(AfterRecords(records)[n - 1], records[n])
<1> DEFINE first == [image |-> Blank, open |-> NoSector]
           L == Len(records)
           Rec(g, m) == [n \in 0 .. m |-> IF n = 0 THEN first ELSE AfterRecord(g[n - 1], records[n])]
           S == {m \in Nat : \E g : g = Rec(g, m)}
<1>1. 0 \in S
  <2> DEFINE g == [n \in 0 .. 0 |-> first]
  <2>1. g = Rec(g, 0)
    OBVIOUS
  <2> QED BY <2>1
<1>2. ASSUME NEW m \in S
      PROVE  m + 1 \in S
  <2>1. m \in Nat /\ m + 1 \in Nat /\ m \in 0 .. m + 1
    OBVIOUS
  <2>2. PICK g : g = Rec(g, m)
    BY <1>2
  <2> DEFINE h == [n \in 0 .. m + 1 |-> IF n = m + 1 THEN AfterRecord(g[m], records[m + 1]) ELSE g[n]]
  <2>3. ASSUME NEW n \in 0 .. m + 1
        PROVE  h[n] = IF n = 0 THEN first ELSE AfterRecord(h[n - 1], records[n])
    <3>1. CASE n = m + 1
      <4>1. n # 0 /\ n - 1 = m /\ m # m + 1
        BY <2>1, <3>1
      <4>2. h[n] = AfterRecord(g[m], records[n])
        BY <2>1, <3>1
      <4>3. h[n - 1] = g[m]
        BY <2>1, <4>1
      <4> QED BY <4>1, <4>2, <4>3
    <3>2. CASE n # m + 1
      <4>1. n \in 0 .. m
        BY <2>1, <3>2
      <4>2. h[n] = g[n]
        BY <3>2
      <4>3. g[n] = IF n = 0 THEN first ELSE AfterRecord(g[n - 1], records[n])
        <5> HIDE DEF first
        <5> QED BY <2>2, <4>1
      <4>4. n # 0 => h[n - 1] = g[n - 1]
        <5>1. n # 0 => n - 1 \in 0 .. m + 1 /\ n - 1 # m + 1
          BY <2>1, <4>1
        <5> QED BY <5>1
      <4> QED BY <4>2, <4>3, <4>4
    <3> QED BY <3>1, <3>2
  <2>4. h = Rec(h, m + 1)
    <3>1. h = [n \in 0 .. m + 1 |-> h[n]]
      OBVIOUS
    <3> HIDE DEF h
    <3> QED BY <2>3, <3>1, Zenon
  <2> HIDE DEF h
  <2> QED BY <2>1, <2>4
<1>3. S \in SUBSET Nat
  OBVIOUS
<1>4. L \in S
  <2> HIDE DEF S, L
  <2>1. L \in Nat
    BY DEF L
  <2> QED BY <1>1, <1>2, <1>3, <2>1, UpTo
<1>5. \E g : g = Rec(g, L)
  BY <1>4
<1> DEFINE a == AfterRecords(records)
<1>6. a = Rec(a, L)
  <2>1. a = CHOOSE g : g = Rec(g, L)
    BY Zenon DEF AfterRecords
  <2> HIDE DEF a, Rec
  <2> QED BY <1>5, <2>1, Zenon
<1>7. a[0] = first
  <2> HIDE DEF a
  <2> QED BY <1>6
<1>8. ASSUME NEW n \in 1 .. L
      PROVE  a[n] = AfterRecord(a[n - 1], records[n])
  <2>1. n \in 0 .. L /\ n # 0
    OBVIOUS
  <2> HIDE DEF a, first
  <2> QED BY <1>6, <2>1
<1> QED
  BY <1>7, <1>8

\* A share of a file in percent; only the whole file is a hundred.
LEMMA PercentOf ==
    ASSUME NEW a \in Nat, NEW n \in Nat \ {0}, a <= n
    PROVE  /\ (a * 100) \div n \in 0 .. 100
           /\ (a * 100) \div n = 100 => a = n
<1> DEFINE x == a * 100
           q == x \div n
           r == x % n
<1>1. x \in Nat /\ x <= n * 100
  OBVIOUS
<1>2. x = n * q + r /\ q \in Int /\ r \in 0 .. n - 1 /\ q >= 0
  BY <1>1
<1> HIDE DEF q, r
<1>3. n * q \in Int
  BY <1>2
<1>4. CASE q >= 101
  <2>1. n * q >= n * 101
    BY <1>2, <1>4
  <2> QED BY <1>1, <1>2, <1>3, <2>1
<1>5. CASE q <= 100
  <2>1. q = 100 => n * 100 <= a * 100
    BY <1>2, <1>3
  <2> QED BY <1>2, <1>5, <2>1 DEF q
<1> QED
  BY <1>2, <1>4, <1>5

\* What fread gives is there in the file.
LEMMA ReadSize ==
    ASSUME BaseInv, pc = "loop"
    PROVE  /\ rd_size \in 0 .. Chunk /\ pos + rd_size <= Len(file.data) /\ pos \in Nat
           /\ Len(file.data) \in Nat /\ Chunk \in Nat
           /\ AtEnd => pos + rd_size = Len(file.data) /\ file.readable
           /\ ~AtEnd => rd_size = IF file.readable THEN Chunk ELSE 0
<1>1. /\ pos \in Nat /\ Len(file.data) \in Nat /\ pos <= Len(file.data) /\ Chunk \in Nat \ {0}
  BY FileType, FileAssumption DEF BaseInv, FileTypeOK, Arguments
<1>2. CASE file.readable
  <2>1. rd_size = Smaller(Chunk, Len(file.data) - pos)
    BY <1>2 DEF rd_size
  <2>2. CASE Chunk <= Len(file.data) - pos
    <3>1. rd_size = Chunk
      BY <1>1, <2>1, <2>2 DEF Smaller
    <3> QED BY <1>1, <1>2, <2>2, <3>1 DEF AtEnd
  <2>3. CASE ~(Chunk <= Len(file.data) - pos)
    <3>1. rd_size = Len(file.data) - pos
      BY <1>1, <2>1, <2>3 DEF Smaller
    <3> QED BY <1>1, <1>2, <2>3, <3>1 DEF AtEnd
  <2> QED BY <2>2, <2>3
<1>3. CASE ~file.readable
  BY <1>1, <1>3 DEF rd_size, AtEnd
<1> QED
  BY <1>2, <1>3

\* The next buffer begins where the last one ended.
LEMMA NextBuffer ==
    ASSUME NEW c \in Nat \ {0}, NEW n \in Nat, NEW k \in Nat, k * c + c <= n
    PROVE  \E j \in 0 .. n : k * c + c = j * c
<1>1. k * c + c = (k + 1) * c
  OBVIOUS
<1>2. k * c \in Nat /\ k <= k * c
  <2>1. k * (c - 1) \in Nat /\ k * c = k * (c - 1) + k
    OBVIOUS
  <2> QED BY <2>1
<1>3. k + 1 \in 0 .. n
  BY <1>2
<1> QED
  BY <1>1, <1>3

-----------------------------------------------------------------------------
\* Every step keeps the types and the account of what has been read.
LEMMA BaseStep ==
    ASSUME BaseInv, [Next]_vars
    PROVE  BaseInv'
<1>1. /\ FileTypeOK /\ ProgTypeOK /\ Pending /\ Quiet /\ Arguments /\ Reading /\ ProgressHonest
      /\ pos \in Nat /\ progress \in 0 .. 100
      /\ eof \in BOOLEAN /\ registered \in BOOLEAN /\ result \in BOOLEAN
  BY DEF BaseInv, FileTypeOK
<1>2. Chunk \in Nat \ {0} /\ Starts \subseteq Nat /\ 0 \in 0 .. 100 /\ 100 \in 0 .. 100
  BY FileAssumption
<1> DEFINE Prog == ProgTypeOK /\ Pending /\ Quiet
           Fp == /\ pc \in {"idle", "init", "loop", "write", "finish", "clean", "failed"}
                 /\ pos \in Nat /\ (pc # "idle" => pos <= Len(file.data)) /\ progress \in 0 .. 100
                 /\ eof \in BOOLEAN /\ registered \in BOOLEAN /\ result \in BOOLEAN
                 /\ Arguments /\ Reading /\ ProgressHonest
<1>3. Prog' /\ Fp' => BaseInv'
  BY DEF BaseInv, FileTypeOK
<1>4. Prog /\ Fp
  BY <1>1 DEF FileTypeOK
<1>5. ASSUME UNCHANGED prog_vars
      PROVE  Prog'
  BY <1>1, <1>5 DEF ProgTypeOK, Pending, Quiet, prog_vars, session, running
<1>6. ASSUME UNCHANGED fp_vars
      PROVE  Fp'
  BY <1>4, <1>6 DEF fp_vars, Arguments, Reading, ProgressHonest
<1>7. CASE register_progress_changed_callback
  <2>1. Fp'
    BY <1>1, <1>7 DEF register_progress_changed_callback, FileTypeOK, Arguments, Reading, ProgressHonest, Feeding
  <2> QED BY <1>3, <1>5, <1>7, <2>1 DEF register_progress_changed_callback
<1>8. ASSUME NEW f \in Files, NEW addr \in Starts, Program(f, addr)
      PROVE  BaseInv'
  <2>1. UNCHANGED <<prog_vars, registered>> /\ file' = f /\ start' = addr /\ addr \in Nat
    BY <1>2, <1>8 DEF Program
  <2>2. CASE pc' = "idle" /\ result' = FALSE /\ UNCHANGED <<pos, eof, progress>>
    <3>1. Fp'
      BY <1>1, <2>1, <2>2 DEF Arguments, Reading, ProgressHonest, Feeding
    <3> QED BY <1>3, <1>5, <2>1, <3>1
  <2>3. CASE ~Refused(f) /\ pc' = "init" /\ pos' = 0 /\ ~eof' /\ eof' \in BOOLEAN
             /\ set_program_progress(0) /\ UNCHANGED result
    <3>1. f.kind \in Progs /\ Len(f.data) \in Nat
      BY <2>3, FileType DEF Refused
    <3>2. progress' = 0
      BY <1>1, <2>3 DEF set_program_progress, Reading
    <3>3. Fp'
      BY <1>1, <1>2, <2>1, <2>3, <3>1, <3>2 DEF Arguments, Reading, ProgressHonest, Feeding
    <3> QED BY <1>3, <1>5, <2>1, <3>3
  <2> QED BY <1>8, <2>2, <2>3 DEF Program
<1>9. CASE StartProgram
  <2>1. pc = "init" /\ file.kind \in Progs /\ start \in Nat /\ pos = 0 /\ ~eof /\ progress = 0
    BY <1>1, <1>9 DEF StartProgram, Arguments, Reading
  <2>2. Prog'
    BY <1>1, <1>9, <2>1, InitTypes DEF StartProgram
  <2>3. UNCHANGED <<file, start, pos, eof, registered, progress>>
    BY <1>9 DEF StartProgram
  <2>4. 0 = 0 * Chunk /\ Len(file.data) \in Nat
    BY <1>1, <1>2, <2>1, FileType DEF Arguments
  <2>5. CASE answer' /\ pc' = "loop" /\ UNCHANGED result
    <3>1. file.kind = "bin" => start # 0
      BY <1>9, <2>5 DEF StartProgram, ProgramInit, Answer
    <3>2. Arguments'
      BY <1>1, <2>1, <2>3, <2>5, <3>1 DEF Arguments
    <3>3. \E k \in 0 .. Len(file.data) : pos = k * Chunk
      BY <2>1, <2>4
    <3>4. Reading' /\ ProgressHonest'
      BY <1>1, <2>1, <2>3, <2>5, <3>3 DEF Reading, ProgressHonest
    <3> QED BY <1>3, <1>4, <2>1, <2>2, <2>3, <2>5, <3>2, <3>4
  <2>6. CASE pc' = "idle" /\ result' = FALSE
    <3>1. Fp'
      BY <1>4, <2>1, <2>3, <2>6 DEF Arguments, Reading, ProgressHonest, Feeding
    <3> QED BY <1>3, <2>2, <3>1
  <2> QED BY <1>9, <2>5, <2>6 DEF StartProgram
<1>10. CASE Read
  <2>1. /\ pc = "loop" /\ ~eof /\ file \in Files /\ file.kind \in Progs
        /\ UNCHANGED <<file, start, registered, progress, result>>
        /\ pos' = pos + rd_size /\ eof' = AtEnd
    BY <1>1, <1>10 DEF Read, Arguments
  <2>2. /\ rd_size \in 0 .. Chunk /\ pos + rd_size <= Len(file.data)
        /\ Len(file.data) \in Nat
        /\ AtEnd => pos + rd_size = Len(file.data) /\ file.readable
        /\ ~AtEnd => rd_size = IF file.readable THEN Chunk ELSE 0
    BY <2>1, ReadSize
  <2>3. ASSUME pc' = "write", ProgramWrite(file.kind, SubSeq(file.data, pos + 1, pos + rd_size))
        PROVE  Prog'
    <3>1. file.kind = "bin" => file.data \in Seq(Byte)
      BY <2>1, FileType
    <3>2. file.kind = "hex" => file.data \in Seq({Garbled} \cup Packet)
      <4>1. file.kind = "hex" => file.data \in Seq({Garbled} \cup (Packets \cap Packet))
        BY <2>1, FileType
      <4> QED BY <4>1
    <3>3. pos + 1 \in 1 .. Len(file.data) + 1 /\ pos + rd_size \in 0 .. Len(file.data)
      BY <1>1, <1>2, <2>2
    <3>4. file.kind = "bin" => SubSeq(file.data, pos + 1, pos + rd_size) \in Seq(Byte)
      BY <3>1, <3>3
    <3>5. file.kind = "hex" => SubSeq(file.data, pos + 1, pos + rd_size) \in Seq({Garbled} \cup Packet)
      BY <3>2, <3>3
    <3>6. PacketsOf(file.kind, SubSeq(file.data, pos + 1, pos + rd_size)) \in Seq(Packet)
      BY <1>1, <2>1, <3>4, <3>5, PacketsType
    <3> QED BY <1>1, <2>1, <2>3, <3>6, WriteTypes
  <2>4. Prog' /\ ((pc' = "write" /\ rd_size > 0) \/ pc' = "loop")
    BY <1>5, <1>10, <2>1, <2>3 DEF Read
  <2>5. pos' \in Nat /\ pos' <= Len(file.data) /\ eof' \in BOOLEAN /\ (pc' = "write" => pos' > 0)
    <3>1. eof' = (file.readable /\ rd_size < Chunk)
      BY <2>1 DEF AtEnd
    <3>2. eof' \in BOOLEAN
      BY <3>1, Zenon
    <3>3. pos' \in Nat /\ pos' <= Len(file.data)
      BY <1>1, <1>2, <2>1, <2>2
    <3>4. rd_size > 0 => pos' > 0
      BY <1>1, <1>2, <2>1, <2>2
    <3>5. pc' = "write" => pos' > 0
      BY <2>4, <3>4
    <3> QED BY <3>2, <3>3, <3>5
  <2>6. eof' => file.readable /\ pos' = Len(file.data)
    BY <2>1, <2>2
  <2>7. ~eof' => \E k \in 0 .. Len(file.data) : pos' = k * Chunk
    <3>1. SUFFICES ASSUME ~eof' PROVE \E k \in 0 .. Len(file.data) : pos' = k * Chunk
      OBVIOUS
    <3>2. PICK k \in 0 .. Len(file.data) : pos = k * Chunk
      BY <1>1, <2>1 DEF Reading, Feeding
    <3>3. rd_size = 0 \/ rd_size = Chunk
      BY <2>1, <2>2, <3>1
    <3>4. CASE rd_size = 0
      BY <1>1, <2>1, <3>2, <3>4
    <3>5. CASE rd_size = Chunk
      <4>1. pos' = k * Chunk + Chunk /\ k * Chunk + Chunk <= Len(file.data)
        BY <2>1, <2>2, <3>2, <3>5
      <4> DEFINE c == Chunk
                 n == Len(file.data)
      <4>2. c \in Nat \ {0} /\ n \in Nat /\ k \in Nat
        BY <1>2, <2>2, <3>2
      <4>3. pos' = k * c + c /\ k * c + c <= n
        BY <4>1
      <4> HIDE DEF c, n
      <4>4. \E j \in 0 .. n : k * c + c = j * c
        BY <4>2, <4>3, NextBuffer, Zenon
      <4>5. \E j \in 0 .. n : pos' = j * c
        BY <4>3, <4>4, Zenon
      <4> QED BY <4>5, Zenon DEF c, n
    <3> QED BY <3>3, <3>4, <3>5, Zenon
  <2>8. progress = 100 => pos' = Len(file.data)
    <3>1. progress = 100 => pos = Len(file.data)
      BY <1>1, <2>1 DEF ProgressHonest
    <3> QED BY <1>1, <1>2, <2>1, <2>2, <3>1
  <2>9. Arguments' /\ Reading' /\ ProgressHonest'
    <3>1. Arguments'
      BY <1>1, <2>1, <2>4 DEF Arguments, Feeding
    <3>2. Reading'
      BY <1>1, <2>1, <2>4, <2>5, <2>6, <2>7 DEF Reading, Feeding
    <3>3. ProgressHonest'
      BY <1>1, <2>1, <2>8 DEF ProgressHonest
    <3> QED BY <3>1, <3>2, <3>3
  <2> QED BY <1>1, <1>3, <2>1, <2>4, <2>5, <2>9
\* Whatever has been written, all of it has been read.
<1>11. CASE Written
  <2>1. /\ pc = "write" /\ file \in Files /\ file.kind \in Progs /\ pos > 0 /\ pos <= Len(file.data)
        /\ UNCHANGED <<file, start, pos, eof, registered, result>>
    BY <1>1, <1>11 DEF Written, Arguments, Reading, FileTypeOK
  <2>2. Len(file.data) \in Nat \ {0}
    BY <1>1, <2>1, FileType
  <2>3. CASE answer /\ set_program_progress(Percent) /\ pc' = "loop" /\ UNCHANGED prog_vars
    <3>1. Percent \in 0 .. 100 /\ (Percent = 100 => pos = Len(file.data))
      BY <1>1, <2>1, <2>2, PercentOf DEF Percent
    <3>2. progress' = Percent \/ progress' = progress
      BY <2>3 DEF set_program_progress
    <3>3. (registered \/ progress' = progress) /\ progress' \in 0 .. 100
      BY <1>1, <2>3, <3>1 DEF set_program_progress
    <3>4. ProgressHonest'
      BY <1>1, <2>1, <3>1, <3>2 DEF ProgressHonest
    <3>5. Reading'
      BY <1>1, <2>1, <2>3, <3>3 DEF Reading, Feeding
    <3>6. Arguments'
      BY <1>1, <2>1, <2>3 DEF Arguments, Feeding
    <3> QED BY <1>3, <1>5, <1>4, <2>1, <2>3, <3>1, <3>2, <3>4, <3>5, <3>6
  <2>4. CASE ~answer /\ ProgramClean(file.kind) /\ pc' = "failed" /\ UNCHANGED progress
    <3>1. Prog'
      BY <1>1, <2>1, <2>4, CleanTypes
    <3>2. Arguments' /\ Reading' /\ ProgressHonest'
      BY <1>1, <2>1, <2>4 DEF Arguments, Reading, ProgressHonest, Feeding
    <3> QED BY <1>3, <1>4, <2>1, <2>4, <3>1, <3>2
  <2> QED BY <1>11, <2>3, <2>4 DEF Written
<1>12. CASE Finish
  <2>1. /\ pc = "loop" /\ eof /\ pos = Len(file.data)
        /\ progress' = progress \/ (registered /\ progress' = 100)
        /\ UNCHANGED <<prog_vars, file, start, pos, eof, registered, result>> /\ pc' = "finish"
    BY <1>1, <1>12 DEF Finish, set_program_progress, Reading, Feeding
  <2>2. Arguments' /\ Reading' /\ ProgressHonest'
    BY <1>1, <2>1 DEF Arguments, Reading, ProgressHonest, Feeding
  <2>3. progress' \in 0 .. 100
    <3>1. progress' = progress \/ progress' = 100
      BY <2>1
    <3> QED BY <1>1, <1>2, <3>1
  <2> QED BY <1>3, <1>5, <1>4, <2>1, <2>2, <2>3
<1>13. CASE Clean
  <2>1. /\ pc = "finish" /\ file.kind \in Progs /\ pc' = "clean" /\ ProgramClean(file.kind)
        /\ UNCHANGED <<file, start, pos, eof, registered, progress, result>>
    BY <1>1, <1>13 DEF Clean, Arguments
  <2>2. Prog'
    BY <1>1, <2>1, CleanTypes
  <2>3. Arguments' /\ Reading' /\ ProgressHonest'
    BY <1>1, <2>1 DEF Arguments, Reading, ProgressHonest, Feeding
  <2> QED BY <1>3, <1>4, <2>1, <2>2, <2>3
<1>14. CASE Done
  <2>1. /\ pc' = "idle" /\ result' = (pc = "clean")
        /\ UNCHANGED <<prog_vars, file, start, pos, eof, registered, progress>>
    BY <1>14 DEF Done
  <2>2. result' \in BOOLEAN
    BY <2>1, Zenon
  <2>3. Arguments' /\ Reading' /\ ProgressHonest'
    BY <1>1, <2>1 DEF Arguments, Reading, ProgressHonest, Feeding
  <2> QED BY <1>3, <1>5, <1>4, <2>1, <2>2, <2>3
<1>15. CASE (Progress \/ Work) /\ UNCHANGED fp_vars
  BY <1>1, <1>3, <1>6, <1>15, ProgressTypes, ProgressQuiet
<1>16. CASE Die
  <2>1. Prog'
    BY <1>1, <1>16, DieTypes DEF Die
  <2>2. Fp'
    BY <1>2, <1>16 DEF Die, Arguments, Reading, ProgressHonest, Feeding
  <2> QED BY <1>3, <2>1, <2>2
<1>17. CASE UNCHANGED vars
  BY <1>3, <1>5, <1>6, <1>17 DEF vars
<1> QED
  BY <1>7, <1>8, <1>9, <1>10, <1>11, <1>12, <1>13, <1>14, <1>15, <1>16, <1>17 DEF Next, Step, User

-----------------------------------------------------------------------------
\* A call that runs is that of the file's program, in the session of its own.
LEMMA Running ==
    ASSUME BaseInv, OneSession
    PROVE  /\ call \in {"none", "write", "clean"}
           /\ pc # "idle" => file.kind \in Progs
           /\ call = "write" => pc = "write" /\ prog = file.kind /\ mode[file.kind] = "open"
           /\ call = "clean" => pc \in {"clean", "failed"} /\ prog = file.kind /\ mode[file.kind] = "open"
           /\ busy => call = "write" /\ todo # << >>
           /\ todo # << >> => call = "write"
BY DEF BaseInv, FileTypeOK, ProgTypeOK, Arguments, Quiet, OneSession

\* Every step keeps the sessions of the two programs apart.
LEMMA SessionStep ==
    ASSUME BaseInv, OneSession, [Next]_vars
    PROVE  OneSession'
<1>1. /\ OneSession /\ Arguments /\ prog \in Progs /\ call \in {"none", "write", "clean"}
      /\ pc \in {"idle", "init", "loop", "write", "finish", "clean", "failed"}
      /\ mode \in [Progs -> {"closed", "open", "error"}] /\ Quiet
  BY DEF BaseInv, FileTypeOK, ProgTypeOK
<1>2. /\ call = "write" => pc = "write" /\ prog = file.kind /\ mode[file.kind] = "open"
      /\ call = "clean" => pc \in {"clean", "failed"} /\ prog = file.kind /\ mode[file.kind] = "open"
      /\ pc # "idle" => file.kind \in Progs
      /\ busy => call = "write" /\ todo # << >>
  BY Running
<1>3. ASSUME UNCHANGED <<mode, torn, call, prog, answer, pc, file>>
      PROVE  OneSession'
  BY <1>1, <1>3 DEF OneSession
<1>4. CASE register_progress_changed_callback
  BY <1>3, <1>4 DEF register_progress_changed_callback, prog_vars, session, running
<1>5. ASSUME NEW f \in Files, NEW addr \in Starts, Program(f, addr)
      PROVE  OneSession'
  <2>1. UNCHANGED <<mode, torn, call, prog, answer>> /\ pc = "idle" /\ pc' \in {"idle", "init"}
    BY <1>5 DEF Program, prog_vars, session, running
  <2> QED BY <1>1, <2>1 DEF OneSession
<1>6. CASE StartProgram
  <2>1. /\ pc = "init" /\ file.kind \in Progs /\ file' = file /\ prog' = prog
        /\ ~torn /\ \A i \in Progs : mode[i] = "closed"
    BY <1>1, <1>2, <1>6 DEF StartProgram, OneSession, ProgramInit, Drop
  <2>2. CASE FlashOpens(file.kind)
    <3>1. call' = "none" /\ answer' /\ ~torn' /\ mode' = [mode EXCEPT ![file.kind] = "open"]
      BY <2>1, <2>2 DEF FlashOpens, OthersOpen, Answer
    <3>2. pc' = "loop"
      BY <1>6, <3>1 DEF StartProgram
    <3> QED BY <1>1, <2>1, <3>1, <3>2 DEF OneSession
  <2>3. CASE Answer(FALSE) /\ UNCHANGED session
    <3>1. call' = "none" /\ ~answer' /\ UNCHANGED <<mode, torn>>
      BY <2>3 DEF Answer, session
    <3>2. pc' = "idle"
      BY <1>6, <3>1 DEF StartProgram
    <3> QED BY <1>1, <2>1, <3>1, <3>2 DEF OneSession
  <2> QED BY <1>6, <2>2, <2>3 DEF StartProgram, ProgramInit, FlashRefuses
<1>7. CASE Read
  <2>1. pc = "loop" /\ file' = file /\ file.kind \in Progs /\ call = "none"
        /\ mode[file.kind] = "open"
    BY <1>1, <1>2, <1>7 DEF Read, OneSession
  <2>2. CASE UNCHANGED <<pc, prog_vars>>
    BY <1>3, <2>1, <2>2 DEF prog_vars, session, running
  <2>3. CASE pc' = "write" /\ \E piece : ProgramWrite(file.kind, piece)
    <3>1. UNCHANGED <<mode, torn>> /\ call' = "write" /\ prog' = file.kind
      BY <2>3 DEF ProgramWrite, session
    <3> QED BY <1>1, <2>1, <2>3, <3>1 DEF OneSession
  <2> QED BY <1>7, <2>2, <2>3 DEF Read
<1>8. ASSUME ProgramClean(file.kind), file.kind \in Progs, file' = file, pc # "idle",
             pc' \in {"clean", "failed"}
      PROVE  OneSession'
  <2>1. call = "none" /\ ~torn
    BY <1>1, <1>8 DEF ProgramClean, Free, OneSession
  <2>2. \A i \in Progs : i # file.kind => mode[i] = "closed"
    BY <1>1 DEF OneSession
  <2>3. CASE mode[file.kind] = "open" /\ call' = "clean" /\ prog' = file.kind /\ UNCHANGED session
    BY <1>1, <1>8, <2>1, <2>2, <2>3 DEF OneSession, session
  <2>4. CASE mode[file.kind] = "closed" /\ UNCHANGED <<session, call, prog>>
    BY <1>1, <1>8, <2>1, <2>2, <2>4 DEF OneSession, session
  <2>5. CASE Closed(file.kind) /\ UNCHANGED <<torn, call, prog>>
    BY <1>1, <1>8, <2>1, <2>2, <2>5 DEF OneSession, Closed
  <2> QED BY <1>8, <2>3, <2>4, <2>5 DEF ProgramClean
<1>9. CASE Written
  <2>1. pc = "write" /\ call = "none" /\ file.kind \in Progs /\ file' = file
    BY <1>1, <1>2, <1>9 DEF Written, Free
  <2>2. CASE answer /\ pc' = "loop" /\ UNCHANGED prog_vars
    BY <1>1, <2>1, <2>2 DEF OneSession, prog_vars, session, running
  <2>3. CASE ProgramClean(file.kind) /\ pc' = "failed"
    BY <1>8, <2>1, <2>3
  <2> QED BY <1>9, <2>2, <2>3 DEF Written
<1>10. CASE Finish
  BY <1>1, <1>10 DEF Finish, OneSession, prog_vars, session, running
<1>11. CASE Clean
  BY <1>1, <1>2, <1>8, <1>11 DEF Clean
<1>12. CASE Done
  BY <1>1, <1>2, <1>12 DEF Done, Free, OneSession, prog_vars, session, running
<1>13. CASE (Progress \/ Work) /\ UNCHANGED fp_vars
  <2>1. UNCHANGED <<pc, file>>
    BY <1>13 DEF fp_vars
  <2>2. CASE Work
    BY <1>3, <2>1, <2>2 DEF Work, running
  <2>3. CASE PacketBegin
    <3>1. call = "write" /\ CanWrite(prog)
      BY <1>2, <2>3 DEF PacketBegin, CanWrite
    <3> QED BY <1>3, <2>1, <2>3, <3>1 DEF PacketBegin
  <2>4. CASE PacketAccepted
    <3>1. UNCHANGED <<mode, torn, call, prog, answer>>
      BY <2>4 DEF PacketAccepted
    <3> QED BY <1>3, <2>1, <3>1
  <2>5. CASE PacketFails
    <3>1. pc = "write" /\ prog = file.kind /\ file.kind \in Progs
      BY <1>2, <2>5 DEF PacketFails
    <3>2. mode' = [mode EXCEPT ![file.kind] = "error"] /\ torn' = torn /\ call' = "none" /\ ~answer'
      BY <2>5, <3>1 DEF PacketFails, Answer
    <3> QED BY <1>1, <2>1, <3>1, <3>2 DEF OneSession
  <2>6. CASE WriteEnd
    <3>1. pc = "write" /\ prog = file.kind /\ file.kind \in Progs /\ mode[file.kind] = "open"
      BY <1>2, <2>6 DEF WriteEnd
    <3>2. UNCHANGED <<mode, torn>> /\ call' = "none"
      BY <2>6 DEF WriteEnd, session, Answer
    <3> QED BY <1>1, <2>1, <3>1, <3>2 DEF OneSession
  <2>7. CASE CleanEnd
    <3>1. pc \in {"clean", "failed"} /\ prog = file.kind /\ file.kind \in Progs
      BY <1>2, <2>7 DEF CleanEnd
    <3>2. mode' = [mode EXCEPT ![file.kind] = "closed"] /\ torn' = torn /\ call' = "none"
      BY <2>7, <3>1 DEF CleanEnd, Closed
    <3> QED BY <1>1, <2>1, <3>1, <3>2 DEF OneSession
  <2> QED BY <1>13, <2>2, <2>3, <2>4, <2>5, <2>6, <2>7 DEF Progress
<1>14. CASE Die
  BY <1>14 DEF Die, ProgDie, OneSession
<1>15. CASE UNCHANGED vars
  BY <1>3, <1>15 DEF vars, fp_vars, prog_vars, session, running
<1> QED
  BY <1>4, <1>5, <1>6, <1>7, <1>9, <1>10, <1>11, <1>12, <1>13, <1>14, <1>15 DEF Next, Step, User

\* What is handed over of a file is one of the packets it gives rise to.
LEMMA BufferPackets ==
    ASSUME FlowInv, pc = "loop", ~eof, rd_size > 0
    PROVE  PacketsOf(file.kind, SubSeq(file.data, pos + 1, pos + rd_size)) \in Seq(Packets)
<1>1. /\ BaseInv /\ OneSession /\ Addressed /\ Arguments /\ Reading
  BY DEF FlowInv, BaseInv
<1>2. /\ file \in Files /\ file.kind \in Progs /\ start \in Starts
      /\ file.kind = "bin" => start # 0
      /\ call = "none" /\ mode[file.kind] = "open"
  BY <1>1 DEF Arguments, OneSession, Feeding
<1>3. /\ rd_size \in 0 .. Chunk /\ pos + rd_size <= Len(file.data) /\ pos \in Nat
      /\ Len(file.data) \in Nat /\ Chunk \in Nat
  BY <1>1, ReadSize
<1>4. CASE file.kind = "bin"
  <2> DEFINE piece == SubSeq(file.data, pos + 1, pos + rd_size)
  <2>1. program_addr["bin"] = start + pos
    BY <1>1, <1>2, <1>4 DEF Addressed, Binary, Fed, Feeding
  <2>2. PICK k \in 0 .. Len(file.data) : pos = k * Chunk
    BY <1>1 DEF Reading, Feeding
  <2>3. file.readable
    BY <1>3 DEF rd_size
  <2>4. rd_size = Smaller(Chunk, Len(file.data) - pos)
    BY <2>3 DEF rd_size
  <2>5. pos + rd_size = Smaller(pos + Chunk, Len(file.data)) /\ pos < Len(file.data)
    BY <1>3, <2>4 DEF Smaller
  <2>6. \A addr \in Starts \ {0}, j \in 0 .. Len(file.data) :
            LET from == j * Chunk
                to == Smaller(from + Chunk, Len(file.data))
            IN  file.readable /\ from < Len(file.data) =>
                    [addr |-> addr + from, data |-> SubSeq(file.data, from + 1, to)] \in Packets
    BY <1>2, <1>4, FileAssumption, Zenon
  <2>7. [addr |-> start + pos, data |-> piece] \in Packets
    BY <1>2, <1>4, <2>2, <2>3, <2>5, <2>6
  <2>8. PacketsOf(file.kind, piece) = <<[addr |-> start + pos, data |-> piece]>>
    BY <1>4, <2>1 DEF PacketsOf
  <2> HIDE DEF piece
  <2>9. <<[addr |-> start + pos, data |-> piece]>> \in Seq(Packets)
    BY <2>7
  <2> QED BY <2>8, <2>9 DEF piece
<1>5. CASE file.kind = "hex"
  <2>1. file.data \in Seq({Garbled} \cup (Packets \cap Packet))
    BY <1>2, <1>5, FileType
  <2>2. file.data \in Seq({Garbled} \cup Packets)
    BY <2>1
  <2>3. pos + 1 \in 1 .. Len(file.data) + 1 /\ pos + rd_size \in 0 .. Len(file.data)
    BY <1>3
  <2>4. SubSeq(file.data, pos + 1, pos + rd_size) \in Seq({Garbled} \cup Packets)
    BY <2>2, <2>3
  <2>5. Sound(SubSeq(file.data, pos + 1, pos + rd_size)) \in Seq(Packets)
    BY <2>4, SoundType
  <2> QED BY <1>5, <2>5 DEF PacketsOf
<1> QED
  BY <1>2, <1>4, <1>5 DEF Progs

\* Every step keeps the packets on their way.
LEMMA HandingStep ==
    ASSUME FlowInv, [Next]_vars
    PROVE  Handing'
<1>1. BaseInv /\ OneSession /\ Handing /\ Quiet
  BY DEF FlowInv, BaseInv
<1>2. (busy => call = "write" /\ todo # << >>) /\ (todo # << >> => call = "write")
  BY <1>1, Running
<1>3. << >> \in Seq(Packets)
  OBVIOUS
<1>4. ASSUME ~busy', todo' = todo \/ todo' = << >>
      PROVE  Handing'
  BY <1>1, <1>3, <1>4 DEF Handing
<1>5. ASSUME UNCHANGED <<busy, scope, todo>>
      PROVE  Handing'
  BY <1>1, <1>5 DEF Handing
<1>6. CASE StartProgram
  <2>1. ~busy' /\ todo' = << >>
    BY <1>6 DEF StartProgram, ProgramInit, Drop
  <2> QED BY <1>4, <2>1
<1>7. CASE Read
  <2>1. CASE rd_size > 0
    <3>1. pc = "loop" /\ ~eof /\ ~busy'
          /\ todo' = PacketsOf(file.kind, SubSeq(file.data, pos + 1, pos + rd_size))
      BY <1>7, <2>1 DEF Read, ProgramWrite
    <3>2. todo' \in Seq(Packets)
      BY <2>1, <3>1, BufferPackets
    <3> QED BY <3>1, <3>2 DEF Handing
  <2>2. CASE ~(rd_size > 0)
    BY <1>5, <1>7, <2>2 DEF Read, prog_vars, session, running
  <2> QED BY <2>1, <2>2
<1>8. ASSUME NEW i, ProgramClean(i)
      PROVE  Handing'
  <2>1. ~busy /\ UNCHANGED <<todo, busy>>
    BY <1>2, <1>8 DEF ProgramClean, Free
  <2> QED BY <1>4, <2>1
<1>9. ASSUME UNCHANGED prog_vars
      PROVE  Handing'
  BY <1>5, <1>9 DEF prog_vars, session, running
<1>10. CASE register_progress_changed_callback \/ Finish \/ Done \/ UNCHANGED vars
  BY <1>9, <1>10 DEF register_progress_changed_callback, Finish, Done, vars
<1>11. ASSUME NEW f, NEW addr, Program(f, addr)
       PROVE  Handing'
  BY <1>9, <1>11 DEF Program
<1>12. CASE Written
  BY <1>8, <1>9, <1>12 DEF Written
<1>13. CASE Clean
  BY <1>8, <1>13 DEF Clean
<1>14. CASE Work
  BY <1>5, <1>14 DEF Work, running
<1>15. CASE PacketBegin
  <2>1. CASE CanWrite(prog)
    <3>1. /\ scope' = scope \cup SectorsOf(Head(todo).addr, Head(todo).data)
          /\ todo' = todo
      BY <1>15, <2>1 DEF PacketBegin
    <3> QED BY <1>1, <3>1 DEF Handing
  <2>2. CASE ~CanWrite(prog)
    BY <1>4, <1>15, <2>2 DEF PacketBegin, Drop
  <2> QED BY <2>1, <2>2
<1>16. CASE PacketAccepted
  <2>1. todo \in Seq(Packets) /\ todo # << >> /\ todo' = Tail(todo) /\ ~busy'
    BY <1>1, <1>2, <1>16 DEF PacketAccepted, Handing
  <2>2. todo' \in Seq(Packets)
    BY <2>1
  <2> QED BY <2>1, <2>2 DEF Handing
<1>17. CASE PacketFails \/ WriteEnd
  BY <1>4, <1>17 DEF PacketFails, WriteEnd, Drop
<1>18. CASE CleanEnd
  BY <1>2, <1>4, <1>18 DEF CleanEnd
<1>19. CASE Die
  BY <1>4, <1>19 DEF Die, ProgDie, Drop
<1> QED
  BY <1>6, <1>7, <1>10, <1>11, <1>12, <1>13, <1>14, <1>15, <1>16, <1>17, <1>18, <1>19
  DEF Next, Step, User, Progress

(***************************************************************************)
(* The steps that keep a session in the loop: its beginning, a buffer that *)
(* is read, a packet that is accepted, the end of a write, and those that  *)
(* touch nothing the account of what it has accepted depends on.           *)
(***************************************************************************)
Begins ==
    /\ call' = "none" /\ todo' = << >> /\ image' = Blank /\ open' = NoSector
    /\ pos' = 0 /\ start' = start /\ pc' = "loop"
    /\ file.kind = "bin" => program_addr'["bin"] = start
Feeds ==
    /\ Fed /\ pc = "loop" /\ ~eof /\ rd_size > 0 /\ call = "none" /\ todo = << >> /\ pc' = "write"
    /\ pos' = pos + rd_size
    /\ ProgramWrite(file.kind, SubSeq(file.data, pos + 1, pos + rd_size))
    /\ UNCHANGED <<start, image, open, program_addr>>
Accepts ==
    /\ Fed /\ call = "write" /\ todo # << >>
    /\ image' = ImageAfter(image, open, todo[1].addr, todo[1].data)
    /\ open' = OpenAfter(open, todo[1].addr, todo[1].data)
    /\ decode_size' = decode_size + Len(todo[1].data) /\ todo' = Tail(todo)
    /\ UNCHANGED <<pc, start, pos, program_addr, call, bad>>
Ends ==
    /\ Fed /\ call = "write" /\ todo = << >> /\ todo' = << >> /\ call' = "none" /\ answer' = ~bad
    /\ file.kind = "bin" /\ ~bad => program_addr'["bin"] = program_addr["bin"] + decode_size
    /\ UNCHANGED <<pc, start, pos, image, open>>
Stays ==
    /\ Fed /\ (pc' = "write" => pc = "write") /\ (pc = "write" /\ pc' # "write" => answer)
    /\ UNCHANGED <<start, pos, image, open, call, todo, bad, decode_size, answer>>
    /\ file.kind = "bin" => UNCHANGED program_addr

\* A step of the loop of program() does one of these to the piece it hands over.
LEMMA FeedSteps ==
    ASSUME FlowInv, [Next]_vars, Fed'
    PROVE  file' = file /\ (Begins \/ Feeds \/ Accepts \/ Ends \/ Stays)
<1>1. /\ BaseInv /\ OneSession /\ Quiet /\ Reading
      /\ mode \in [Progs -> {"closed", "open", "error"}] /\ program_addr \in [Progs -> Nat]
      /\ todo \in Seq(Packet)
  BY DEF FlowInv, BaseInv, FileTypeOK, ProgTypeOK, Pending
<1>2. /\ call = "write" => pc = "write" /\ prog = file.kind /\ mode[file.kind] = "open"
      /\ call = "clean" => pc \in {"clean", "failed"}
      /\ pc # "idle" => file.kind \in Progs
      /\ busy => call = "write" /\ todo # << >>
      /\ todo # << >> => call = "write"
  BY <1>1, Running
<1>3. /\ pc' \in {"loop", "write", "finish"} /\ mode'[file'.kind] = "open"
      /\ "bin" \in Progs /\ "bin" # "hex"
  BY DEF Fed, Feeding, Progs
<1>4. ASSUME UNCHANGED <<prog_vars, file, start, pos>>, pc \in Feeding, pc' = "write" => pc = "write",
             pc = "write" /\ pc' # "write" => answer
      PROVE  Stays
  BY <1>3, <1>4 DEF Stays, Fed, prog_vars, session, running
<1>5. CASE StartProgram
  <2>1. answer' /\ pc' = "loop" /\ pc = "init" /\ UNCHANGED <<file, start, pos>> /\ ProgramInit(file.kind, start)
    BY <1>3, <1>5 DEF StartProgram
  <2>2. file.kind \in Progs /\ pos = 0 /\ \A i \in Progs : mode[i] = "closed"
    BY <1>1, <1>2, <2>1 DEF Reading, OneSession
  <2>3. FlashOpens(file.kind) /\ Drop
        /\ program_addr' = [program_addr EXCEPT ![file.kind] = StartAddr(file.kind, start)]
    BY <1>3, <2>1, <2>2 DEF ProgramInit, FlashRefuses, Answer
  <2>4. image' = Blank /\ open' = NoSector /\ call' = "none" /\ todo' = << >>
    BY <2>2, <2>3 DEF FlashOpens, OthersOpen, Forget, Answer, Drop
  <2> QED BY <1>1, <1>3, <2>1, <2>2, <2>3, <2>4 DEF Begins, StartAddr
<1>6. CASE Read
  <2>1. /\ pc = "loop" /\ ~eof /\ file' = file /\ start' = start
        /\ pos' = pos + rd_size /\ call = "none"
    BY <1>1, <1>3, <1>6 DEF Read, OneSession
  <2>2. CASE rd_size > 0
    <3>1. pc' = "write" /\ ProgramWrite(file.kind, SubSeq(file.data, pos + 1, pos + rd_size))
      BY <1>6, <2>1, <2>2 DEF Read
    <3>2. UNCHANGED <<mode, image, open, program_addr>>
      BY <3>1 DEF ProgramWrite, session
    <3>3. Fed /\ todo = << >>
      BY <1>1, <1>2, <1>3, <2>1, <3>2 DEF Fed, Feeding
    <3> QED BY <2>1, <2>2, <3>1, <3>2, <3>3 DEF Feeds
  <2>3. CASE ~(rd_size > 0)
    <3>1. rd_size = 0 /\ pos \in Nat
      BY <1>1, <2>1, <2>3, ReadSize
    <3> QED BY <1>4, <1>6, <2>1, <2>3, <3>1 DEF Read, Feeding
  <2> QED BY <2>2, <2>3
<1>7. CASE Written
  BY <1>3, <1>4, <1>7 DEF Written, Feeding
<1>8. CASE Finish
  BY <1>4, <1>8 DEF Finish, Feeding
<1>9. CASE UNCHANGED vars
  BY <1>3, <1>4, <1>9 DEF vars, fp_vars, Feeding
<1>10. ~Clean /\ ~Done /\ ~Die /\ ~register_progress_changed_callback
       /\ \A f, addr : ~Program(f, addr)
  BY <1>3 DEF Clean, Done, Die, register_progress_changed_callback, Program
<1>11. CASE Work /\ UNCHANGED fp_vars
  BY <1>3, <1>11 DEF Work, fp_vars, running, Stays, Fed, Feeding
<1>12. CASE Progress /\ UNCHANGED fp_vars
  <2>1. UNCHANGED <<pc, file, start, pos>> /\ pc \in Feeding
    BY <1>3, <1>12 DEF fp_vars, Feeding
  <2>2. ~CleanEnd
    BY <1>2, <2>1 DEF CleanEnd, Feeding
  <2>3. call = "write" /\ prog = file.kind /\ file.kind \in Progs /\ Fed
    BY <1>2, <1>12, <2>1, <2>2 DEF Progress, PacketBegin, PacketAccepted, PacketFails, WriteEnd, Fed
  <2>4. ~PacketFails
    BY <1>1, <1>3, <2>1, <2>3 DEF PacketFails
  <2>5. CASE PacketBegin
    <3>1. CanWrite(prog) /\ (prog = "bin" => FirstAddr(Head(todo)) = program_addr[prog])
      BY <1>3, <2>3 DEF CanWrite, Fed, FirstAddr
    <3>2. file.kind = "bin" => program_addr' = program_addr
      BY <1>1, <1>3, <2>3, <2>5, <3>1 DEF PacketBegin
    <3> QED BY <2>1, <2>3, <2>5, <3>1, <3>2 DEF PacketBegin, Stays
  <2>6. CASE PacketAccepted
    <3>1. todo # << >> /\ ~torn
      BY <1>1, <1>2, <2>6 DEF PacketAccepted, OneSession
    <3>2. Head(todo) = todo[1]
      BY <1>1, <3>1
    <3> QED BY <2>1, <2>3, <2>6, <3>1, <3>2 DEF PacketAccepted, Accepts
  <2>7. CASE WriteEnd
    <3>1. file.kind = "bin" /\ ~bad => program_addr'["bin"] = program_addr["bin"] + decode_size
      BY <1>1, <1>3, <2>3, <2>7 DEF WriteEnd
    <3> QED BY <2>1, <2>3, <2>7, <3>1 DEF WriteEnd, Answer, Drop, session, Ends
  <2> QED BY <1>12, <2>2, <2>4, <2>5, <2>6, <2>7 DEF Progress
<1> QED
  BY <1>5, <1>6, <1>7, <1>8, <1>9, <1>10, <1>11, <1>12 DEF Next, Step, User

\* A sequence of one element, and a part of a sequence.
LEMMA OneElement ==
    ASSUME NEW T, NEW s \in Seq(T), Len(s) = 1
    PROVE  s # << >> /\ s[1] \in T /\ Head(s) = s[1] /\ Tail(s) = << >>
<1>1. s # << >> /\ s[1] \in T /\ Head(s) = s[1]
  OBVIOUS
<1>2. Tail(s) \in Seq(T) /\ Len(Tail(s)) = 0
  BY <1>1, HeadTailProperties
<1>3. Tail(s) = << >>
  BY <1>2, EmptySeq
<1> QED
  BY <1>1, <1>3

\* What of a binary is on its way is the last piece that was read.
LEMMA OnItsWay ==
    ASSUME FlowInv, Binary
    PROVE  /\ file.data \in Seq(Byte) /\ pos \in 0 .. Len(file.data) /\ start \in Nat
           /\ HandedIn \in 0 .. pos
           /\ todo = << >> => HandedIn = pos
           /\ todo # << >> => /\ todo[1].data \in Seq(Byte)
                              /\ HandedIn + Len(todo[1].data) = pos
                              /\ Tail(todo) = << >>
<1>1. /\ file.data \in Seq(Byte) /\ pos \in 0 .. Len(file.data) /\ start \in Nat
      /\ Len(file.data) \in Nat
  <2>1. file \in Files /\ pos \in Nat /\ pos <= Len(file.data) /\ start \in Nat
    BY DEF FlowInv, BaseInv, FileTypeOK, Arguments, Binary, Fed, Feeding
  <2>2. file.data \in Seq(Byte)
    BY <2>1, FileAssumption DEF Binary, Fed
  <2> QED BY <2>1, <2>2
<1>2. CASE todo = << >>
  BY <1>1, <1>2 DEF HandedIn
<1>3. CASE todo # << >>
  <2>1. todo \in Seq(Packet) /\ Len(todo) = 1 /\ HandedIn \in Nat
    BY <1>3 DEF FlowInv, BaseInv, Pending, Addressed
  <2>2. todo[1].data \in Seq(Byte) /\ Len(todo[1].data) \in Nat
    <3>1. todo[1] \in Packet
      BY <2>1, OneElement
    <3>2. todo[1].data \in Seq(Byte)
      BY <3>1 DEF Packet
    <3> QED BY <3>2
  <2>3. HandedIn = pos - Len(todo[1].data)
    BY <1>3 DEF HandedIn
  <2>4. Tail(todo) = << >>
    BY <2>1, OneElement
  <2>5. HandedIn + Len(todo[1].data) = pos /\ HandedIn <= pos
    BY <1>1, <2>1, <2>2, <2>3
  <2> QED BY <1>1, <1>3, <2>1, <2>2, <2>4, <2>5
<1> QED
  BY <1>2, <1>3

\* Every step keeps the addresses of the pieces of a binary.
LEMMA AddressStep ==
    ASSUME FlowInv, [Next]_vars
    PROVE  Addressed'
<1> SUFFICES ASSUME Binary' PROVE Addressed'
  BY DEF Addressed
<1>1. Addressed /\ program_addr \in [Progs -> Nat] /\ start \in Nat /\ BaseInv
  BY DEF FlowInv, BaseInv, FileTypeOK, ProgTypeOK, Arguments
<1>7. /\ file' = file /\ file.kind = "bin" /\ (Fed => Binary)
      /\ Begins \/ Feeds \/ Accepts \/ Ends \/ Stays
  BY FeedSteps DEF Binary
<1>8. ASSUME Feeds
      PROVE  /\ todo' = <<[addr |-> program_addr["bin"], data |-> SubSeq(file.data, pos + 1, pos + rd_size)]>>
             /\ call' = "write" /\ ~bad' /\ decode_size' = 0
  BY <1>7, <1>8 DEF Feeds, ProgramWrite, PacketsOf
<1>2. CASE Begins
  <2>1. program_addr'["bin"] = start' + pos'
    BY <1>7, <1>1, <1>2 DEF Begins
  <2> QED BY <1>7, <1>2, <2>1 DEF Begins, Addressed
<1>3. CASE Feeds
  <2> DEFINE data == SubSeq(file.data, pos + 1, pos + rd_size)
  <2>1. Binary /\ call = "none" /\ pc = "loop" /\ program_addr["bin"] = start + pos
    BY <1>7, <1>1, <1>3 DEF Feeds, Addressed
  <2>2. pos \in 0 .. Len(file.data) /\ file.data \in Seq(Byte)
    BY <2>1, OnItsWay
  <2>3. rd_size \in Nat /\ pos + rd_size <= Len(file.data)
    BY <1>1, <2>1, ReadSize, FileAssumption
  <2>4. Len(data) = rd_size
    BY <2>2, <2>3, PartOf
  <2>5. todo' = <<[addr |-> program_addr["bin"], data |-> data]>>
    BY <1>3, <1>8
  <2> HIDE DEF data
  <2>6. todo' # << >> /\ Len(todo') = 1 /\ todo'[1].addr = program_addr["bin"] /\ todo'[1].data = data
    BY <2>5
  <2>7. HandedIn' = pos
    <3>1. HandedIn' = pos' - Len(data)
      BY <2>6 DEF HandedIn
    <3>2. pos' = pos + rd_size
      BY <1>3 DEF Feeds
    <3> QED BY <2>2, <2>3, <2>4, <3>1, <3>2
  <2>8. todo'[1].data = SubSeq(file'.data, HandedIn' + 1, pos')
    <3>1. data = SubSeq(file.data, pos + 1, pos + rd_size)
      BY DEF data
    <3>2. pos' = pos + rd_size /\ file' = file
      BY <1>3, <1>7 DEF Feeds
    <3> QED BY <2>6, <2>7, <3>1, <3>2, Zenon
  <2>9. program_addr'["bin"] + decode_size' = start' + HandedIn' /\ HandedIn' \in Nat
    <3>1. program_addr'["bin"] = start + pos /\ decode_size' = 0 /\ start' = start
      BY <1>3, <1>8, <2>1 DEF Feeds
    <3> QED BY <1>1, <2>2, <2>7, <3>1
  <2> QED BY <1>3, <1>7, <1>8, <2>6, <2>8, <2>9 DEF Feeds, Addressed
<1>4. CASE Accepts
  <2>1. /\ Binary /\ decode_size = 0 /\ ~bad
        /\ program_addr["bin"] + decode_size = start + HandedIn
    BY <1>7, <1>1, <1>4 DEF Accepts, Addressed
  <2>2. todo[1].data \in Seq(Byte) /\ HandedIn + Len(todo[1].data) = pos /\ Tail(todo) = << >>
        /\ HandedIn \in 0 .. pos /\ pos \in Nat /\ Len(todo[1].data) \in Nat
    <3>1. todo # << >>
      BY <1>4 DEF Accepts
    <3>2. todo[1].data \in Seq(Byte) /\ HandedIn + Len(todo[1].data) = pos /\ Tail(todo) = << >>
          /\ HandedIn \in 0 .. pos
      BY <2>1, <3>1, OnItsWay, Zenon
    <3>3. pos \in Nat
      BY DEF FlowInv, BaseInv, FileTypeOK
    <3>4. Len(todo[1].data) \in Nat
      BY <3>2
    <3> QED BY <3>2, <3>3, <3>4, Zenon
  <2>3. todo' = << >> /\ HandedIn' = pos
    BY <1>7, <1>4, <2>2 DEF Accepts, HandedIn
  <2>4. program_addr["bin"] \in Nat
    BY <1>1 DEF Progs
  <2>5. program_addr'["bin"] + decode_size' = start' + HandedIn'
    <3>1. PICK p \in Nat, h \in Nat, n \in Nat :
             p = program_addr["bin"] /\ h = HandedIn /\ n = Len(todo[1].data)
      <4>1. HandedIn \in Nat
        BY <2>2
      <4> HIDE DEF HandedIn
      <4> QED BY <2>2, <2>4, <4>1
    <3>2. p = start + h /\ h + n = pos
      BY <2>1, <2>2, <3>1
    <3>3. program_addr'["bin"] = p /\ decode_size' = n /\ start' = start
      BY <1>7, <1>4, <2>1, <3>1 DEF Accepts
    <3> QED BY <1>1, <2>3, <3>2, <3>3
  <2> QED BY <1>7, <1>4, <2>1, <2>3, <2>5 DEF Accepts, Addressed
<1>5. CASE Ends
  <2>1. ~bad /\ program_addr["bin"] + decode_size = start + HandedIn /\ HandedIn = pos
    BY <1>7, <1>1, <1>5, OnItsWay DEF Ends, Addressed
  <2> QED BY <1>7, <1>5, <2>1 DEF Ends, Addressed
<1>6. CASE Stays
  <2>1. HandedIn' = HandedIn
    BY <1>7, <1>6 DEF Stays, HandedIn
  <2> QED BY <1>7, <1>1, <1>6, <2>1 DEF Stays, Addressed
<1> QED
  BY <1>2, <1>3, <1>4, <1>5, <1>6, <1>7

\* Every step keeps the bytes of a binary in order.
LEMMA OrderStep ==
    ASSUME SectorsAligned, FlowInv, InOrder, [Next]_vars
    PROVE  InOrder'
<1> SUFFICES ASSUME Binary' PROVE InOrder'
  BY DEF InOrder
<1>6. /\ file' = file /\ file.kind = "bin" /\ (Fed => Binary)
      /\ Begins \/ Feeds \/ Accepts \/ Ends \/ Stays
  BY FeedSteps DEF Binary
<1>7. ASSUME Feeds
      PROVE  /\ todo' = <<[addr |-> program_addr["bin"], data |-> SubSeq(file.data, pos + 1, pos + rd_size)]>>
             /\ call' = "write" /\ ~bad' /\ decode_size' = 0
  BY <1>6, <1>7 DEF Feeds, ProgramWrite, PacketsOf
<1>1. CASE Begins
  <2>1. file'.data \in Seq(Byte) /\ start \in Nat
    <3>1. Arguments' /\ start \in Nat
      BY BaseStep DEF FlowInv, BaseInv, Arguments
    <3> QED BY <1>6, <1>1, <3>1, FileAssumption DEF Arguments, Binary, Fed, Begins
  <2>2. HandedIn' = 0
    BY <1>6, <1>1 DEF Begins, HandedIn
  <2>3. SubSeq(file'.data, 1, 0) = << >>
    BY <2>1
  <2>4. Blank \in [Addr -> {Unset}]
    BY DEF Blank
  <2> QED BY <1>6, <1>1, <2>1, <2>2, <2>3, <2>4, ImageAfterNothing DEF Begins, InOrder
<1>2. CASE Feeds
  <2>1. HandedIn = pos
    BY <1>6, <1>2, OnItsWay DEF Feeds
  <2>2. pos \in 0 .. Len(file.data) /\ file.data \in Seq(Byte) /\ Len(file.data) \in Nat
    BY <1>6, <1>2, OnItsWay DEF Feeds
  <2>3. HandedIn' = pos
    <3>1. FlowInv'
      BY BaseStep, SessionStep, HandingStep, AddressStep DEF FlowInv
    <3>2. rd_size \in Nat /\ pos + rd_size <= Len(file.data)
      BY <1>6, <1>2, ReadSize, FileAssumption DEF Feeds, FlowInv
    <3>3. todo' # << >> /\ todo'[1].data = SubSeq(file.data, pos + 1, pos + rd_size) /\ pos' = pos + rd_size
      <4>1. todo' = <<[addr |-> program_addr["bin"], data |-> SubSeq(file.data, pos + 1, pos + rd_size)]>>
        BY <1>2, <1>7
      <4> QED BY <1>2, <4>1 DEF Feeds
    <3>4. Len(SubSeq(file.data, pos + 1, pos + rd_size)) = rd_size
      BY <2>2, <3>2, PartOf
    <3>5. HandedIn' = pos' - rd_size
      BY <3>3, <3>4 DEF HandedIn
    <3> QED BY <2>2, <3>2, <3>3, <3>5
  <2> QED BY <1>6, <1>2, <2>1, <2>3 DEF Feeds, InOrder
<1>3. CASE Accepts
  <2> DEFINE x == SubSeq(file.data, 1, HandedIn)
             y == todo[1].data
  <2>1. /\ Binary /\ file.data \in Seq(Byte) /\ pos \in 0 .. Len(file.data) /\ start \in Nat
        /\ HandedIn \in 0 .. pos /\ y \in Seq(Byte) /\ HandedIn + Len(y) = pos
        /\ Tail(todo) = << >>
    BY <1>6, <1>3, OnItsWay DEF Accepts
  <2>2. /\ y = SubSeq(file.data, HandedIn + 1, pos)
        /\ todo[1].addr = program_addr["bin"]
        /\ program_addr["bin"] + 0 = start + HandedIn
    BY <1>6, <1>3, <2>1 DEF FlowInv, Addressed, Accepts
  <2>3. HandedIn' = pos
    BY <1>6, <1>3, <2>1 DEF Accepts, HandedIn
  <2>4. program_addr["bin"] \in Nat
    BY DEF FlowInv, BaseInv, FileTypeOK, ProgTypeOK, Progs
  <2>5. image = ImageAfter(Blank, NoSector, start, x) /\ open = OpenAfter(NoSector, start, x)
    BY <2>1 DEF InOrder
  <2>6. /\ image' = ImageAfter(image, open, todo[1].addr, y)
        /\ open' = OpenAfter(open, todo[1].addr, y)
        /\ UNCHANGED <<start, file>>
    BY <1>6, <1>3 DEF Accepts
  <2>7. PICK h \in 0 .. pos : h = HandedIn
    BY <2>1
  <2> HIDE DEF HandedIn
  <2>8. x \in Seq(Byte) /\ Len(x) = h /\ x \o y = SubSeq(file.data, 1, pos)
    <3>1. x = SubSeq(file.data, 1, h) /\ y = SubSeq(file.data, h + 1, pos)
      BY <2>2, <2>7
    <3> HIDE DEF x, y
    <3>2. /\ SubSeq(file.data, 1, h) \in Seq(Byte) /\ Len(SubSeq(file.data, 1, h)) = h
          /\ SubSeq(file.data, 1, h) \o SubSeq(file.data, h + 1, pos) = SubSeq(file.data, 1, pos)
      BY <2>1, SplitAt
    <3> QED BY <3>1, <3>2, Zenon
  <2>9. todo[1].addr = start + Len(x)
    <3> HIDE DEF x, y
    <3>1. HandedIn = h /\ h \in Nat /\ program_addr["bin"] \in Nat /\ start \in Nat
      BY <2>1, <2>4, <2>7
    <3>2. todo[1].addr = start + HandedIn
      BY <2>2, <3>1
    <3>3. Len(x) = HandedIn
      BY <2>8, <3>1, Zenon
    <3> QED BY <3>2, <3>3, Zenon
  <2> HIDE DEF x, y
  <2>10. image' = ImageAfter(Blank, NoSector, start, x \o y)
    <3>1. ImageAfter(ImageAfter(Blank, NoSector, start, x), OpenAfter(NoSector, start, x), start + Len(x), y)
          = ImageAfter(Blank, NoSector, start, x \o y)
      <4>1. start \in Nat /\ x \in Seq(Byte) /\ y \in Seq(Byte)
        BY <2>1, <2>8
      <4> QED BY <4>1, PacketCut
    <3> QED BY <2>5, <2>6, <2>9, <3>1
  <2>11. open' = OpenAfter(NoSector, start, x \o y)
    <3>1. OpenAfter(OpenAfter(NoSector, start, x), start + Len(x), y) = OpenAfter(NoSector, start, x \o y)
      BY <2>1, <2>8, CutOpen
    <3> QED BY <2>5, <2>6, <2>9, <3>1
  <2> QED BY <2>3, <2>6, <2>8, <2>10, <2>11 DEF InOrder
<1>4. CASE Ends
  <2>1. HandedIn = pos /\ HandedIn' = pos'
    BY <1>6, <1>4, OnItsWay DEF Ends, HandedIn
  <2> QED BY <1>6, <1>4, <2>1 DEF Ends, InOrder
<1>5. CASE Stays
  <2>1. HandedIn' = HandedIn
    BY <1>6, <1>5 DEF Stays, HandedIn
  <2> QED BY <1>6, <1>5, <2>1 DEF Stays, InOrder
<1> QED
  BY <1>1, <1>2, <1>3, <1>4, <1>5, <1>6

\* Every step keeps the records of a hex file in order.
LEMMA RecordStep ==
    ASSUME FlowInv, RecordsInOrder, [Next]_vars
    PROVE  RecordsInOrder'
<1> SUFFICES ASSUME Fed', file'.kind = "hex"
             PROVE  \E n \in 0 .. pos' :
                        /\ image' = AfterRecords(file.data)[n].image
                        /\ open' = AfterRecords(file.data)[n].open
                        /\ call' = "none" /\ (pc' = "write" => answer') => n = pos'
                        /\ call' = "write" =>
                              /\ n + Len(todo') <= pos' /\ (~bad' => n + Len(todo') = pos')
                              /\ \A i \in 1 .. Len(todo') : todo'[i] = file.data[n + i]
  <2>1. Fed' => file' = file
    BY FeedSteps
  <2> QED BY <2>1 DEF RecordsInOrder
<1> DEFINE after == AfterRecords(file.data)
<1>1. /\ file' = file /\ file.kind = "hex" /\ pos \in Nat /\ todo \in Seq(Packet)
      /\ Begins \/ Feeds \/ Accepts \/ Ends \/ Stays
  BY FeedSteps DEF FlowInv, BaseInv, FileTypeOK, Pending
<1>2. Fed => /\ pos <= Len(file.data) /\ file.data \in Seq({Garbled} \cup Packet)
             /\ Len(file.data) \in Nat
  <2>1. Fed => pos <= Len(file.data) /\ file \in Files /\ file.kind \in Progs
    BY DEF FlowInv, BaseInv, FileTypeOK, Arguments, Fed, Feeding
  <2>2. Fed => file.data \in Seq({Garbled} \cup (Packets \cap Packet)) /\ Len(file.data) \in Nat
    BY <1>1, <2>1, FileType
  <2> QED BY <2>1, <2>2
<1>3. Fed => \E n \in 0 .. pos :
            /\ image = after[n].image /\ open = after[n].open
            /\ call = "none" /\ (pc = "write" => answer) => n = pos
            /\ call = "write" => /\ n + Len(todo) <= pos /\ (~bad => n + Len(todo) = pos)
                                 /\ \A i \in 1 .. Len(todo) : todo[i] = file.data[n + i]
  BY <1>1 DEF RecordsInOrder
<1>4. CASE Begins
  <2>1. Len(file.data) \in Nat
    <3>1. Arguments'
      BY BaseStep DEF FlowInv, BaseInv
    <3>2. file \in Files /\ file.kind \in Progs
      BY <1>1, <1>4, <3>1 DEF Arguments, Begins
    <3> QED BY <3>2, FileType
  <2>2. after[0].image = Blank /\ after[0].open = NoSector
    BY <2>1, RecordsAccepted
  <2> HIDE DEF after
  <2> QED BY <1>4, <2>2 DEF Begins, after
<1>5. CASE Feeds
  <2> DEFINE chunk == SubSeq(file.data, pos + 1, pos + rd_size)
  <2>1. /\ Fed /\ call = "none" /\ pc = "loop" /\ pc' = "write" /\ pos' = pos + rd_size
        /\ todo' = Sound(chunk) /\ call' = "write"
        /\ bad' = (Garbled \in {chunk[k] : k \in DOMAIN chunk})
        /\ UNCHANGED <<image, open>>
    BY <1>1, <1>5 DEF Feeds, ProgramWrite, PacketsOf
  <2>2. image = after[pos].image /\ open = after[pos].open
    BY <1>3, <2>1
  <2>3. rd_size \in Nat /\ pos + rd_size <= Len(file.data)
    BY <2>1, ReadSize, FileAssumption DEF FlowInv
  <2>4. PICK r \in Nat : r = rd_size /\ pos + r <= Len(file.data)
    BY <2>3
  <2>5. /\ chunk \in Seq({Garbled} \cup Packet) /\ Len(chunk) = rd_size
        /\ \A k \in 1 .. rd_size : chunk[k] = file.data[pos + k]
    <3>1. file.data \in Seq({Garbled} \cup Packet)
      BY <1>2, <2>1
    <3>2. /\ SubSeq(file.data, pos + 1, pos + r) \in Seq({Garbled} \cup Packet)
          /\ Len(SubSeq(file.data, pos + 1, pos + r)) = r
          /\ \A k \in 1 .. r : SubSeq(file.data, pos + 1, pos + r)[k] = file.data[pos + k]
      BY <1>1, <2>4, <3>1, PartOf
    <3> QED BY <2>4, <3>2
  <2> HIDE DEF chunk, after
  <2>6. PICK n \in 0 .. Len(chunk) :
            (n < Len(chunk) => chunk[n + 1] = Garbled) /\ Sound(chunk) = SubSeq(chunk, 1, n)
    BY <2>5, SoundPart
  <2>7. Len(todo') = n /\ \A i \in 1 .. n : todo'[i] = chunk[i]
    BY <2>1, <2>3, <2>5, <2>6
  <2>8. ~bad' => n = rd_size
    <3>1. n < Len(chunk) => n + 1 \in DOMAIN chunk
      BY <2>3, <2>5
    <3>2. n < Len(chunk) => bad'
      BY <2>1, <2>6, <3>1
    <3> QED BY <2>3, <2>5, <2>6, <3>2
  <2>9. /\ pos + Len(todo') <= pos' /\ (~bad' => pos + Len(todo') = pos')
        /\ \A i \in 1 .. Len(todo') : todo'[i] = file.data[pos + i]
    <3>1. pos + Len(todo') <= pos'
      BY <1>1, <2>1, <2>3, <2>5, <2>6, <2>7
    <3>2. ~bad' => pos + Len(todo') = pos'
      BY <2>1, <2>7, <2>8
    <3>3. \A i \in 1 .. Len(todo') : todo'[i] = file.data[pos + i]
      BY <2>3, <2>5, <2>6, <2>7
    <3> QED BY <3>1, <3>2, <3>3
  <2>10. pos \in 0 .. pos'
    BY <1>1, <2>1, <2>3
  <2> QED BY <2>1, <2>2, <2>9, <2>10 DEF after
<1>6. CASE Accepts
  <2>1. Fed /\ call = "write" /\ todo # << >> /\ UNCHANGED <<pc, pos, call, bad>>
    BY <1>6 DEF Accepts
  <2>2. PICK n \in 0 .. pos :
            /\ image = after[n].image /\ open = after[n].open
            /\ n + Len(todo) <= pos /\ (~bad => n + Len(todo) = pos)
            /\ \A i \in 1 .. Len(todo) : todo[i] = file.data[n + i]
    BY <1>3, <2>1
  <2>3. Len(todo) \in Nat \ {0} /\ 1 \in 1 .. Len(todo)
    BY <1>1, <2>1
  <2>4. n + 1 \in 1 .. Len(file.data) /\ n + 1 \in 0 .. pos /\ n + 1 - 1 = n
    BY <1>1, <1>2, <2>1, <2>2, <2>3
  <2>5. todo[1] = file.data[n + 1]
    BY <2>2, <2>3
  <2>6. after[n + 1] = AfterRecord(after[n], file.data[n + 1])
    BY <1>2, <2>1, <2>4, RecordsAccepted
  <2> HIDE DEF after
  <2>7. image' = after[n + 1].image /\ open' = after[n + 1].open
    BY <1>6, <2>2, <2>5, <2>6 DEF Accepts, AfterRecord
  <2>8. Len(todo') = Len(todo) - 1 /\ \A i \in 1 .. Len(todo) - 1 : todo'[i] = todo[i + 1]
    <3>1. todo' = Tail(todo)
      BY <1>6 DEF Accepts
    <3> DEFINE t == Tail(todo)
    <3>2. Len(t) = Len(todo) - 1 /\ \A i \in 1 .. Len(t) : t[i] = todo[i + 1]
      BY <1>1, <2>1, HeadTailProperties
    <3> HIDE DEF t
    <3>3. todo' = t
      BY <3>1 DEF t
    <3> QED BY <3>2, <3>3, Zenon
  <2>9. n + 1 + Len(todo') <= pos /\ (~bad => n + 1 + Len(todo') = pos)
    <3> DEFINE left == Len(todo)
               rest == Len(todo')
    <3>1. left \in Nat /\ n \in Nat /\ pos \in Nat /\ rest = left - 1
      BY <1>1, <2>2, <2>3, <2>8
    <3>2. n + left <= pos /\ (~bad => n + left = pos)
      BY <2>2
    <3> HIDE DEF left, rest
    <3>3. n + 1 + rest = n + left
      BY <3>1
    <3>4. n + 1 + rest <= pos /\ (~bad => n + 1 + rest = pos)
      BY <3>2, <3>3, Zenon
    <3> QED BY <3>4, Zenon DEF rest
  <2>10. \A i \in 1 .. Len(todo') : todo'[i] = file.data[n + 1 + i]
    <3>1. TAKE i \in 1 .. Len(todo')
    <3>2. i + 1 \in 1 .. Len(todo) /\ todo'[i] = todo[i + 1] /\ n + (i + 1) = n + 1 + i
      BY <2>2, <2>3, <2>8
    <3>3. todo[i + 1] = file.data[n + (i + 1)]
      BY <2>2, <3>2
    <3> QED BY <3>2, <3>3, Zenon
  <2> QED BY <2>1, <2>4, <2>7, <2>9, <2>10 DEF after
<1>7. CASE Ends
  <2>1. /\ Fed /\ call = "write" /\ todo = << >> /\ call' = "none" /\ answer' = ~bad
        /\ UNCHANGED <<pc, pos, image, open>>
    BY <1>7 DEF Ends
  <2>2. PICK n \in 0 .. pos :
            /\ image = after[n].image /\ open = after[n].open
            /\ ~bad => n + Len(todo) = pos
    BY <1>3, <2>1
  <2>3. pc = "write"
    BY <2>1, Running DEF FlowInv
  <2>4. ~bad => n = pos
    BY <1>1, <2>1, <2>2
  <2> QED BY <2>1, <2>2, <2>3, <2>4
<1>8. CASE Stays
  <2>1. call' = "none" /\ (pc' = "write" => answer') => (pc = "write" => answer)
    BY <1>8 DEF Stays
  <2> QED BY <1>3, <1>8, <2>1 DEF Stays
<1> QED
  BY <1>1, <1>4, <1>5, <1>6, <1>7, <1>8

\* When the loop is through, the session has the whole file.
LEMMA WholeBinary ==
    ASSUME FlowInv, InOrder, pc = "finish", file.kind = "bin"
    PROVE  image = FileImage(file, start)
<1>1. Binary /\ todo = << >>
  <2>1. OneSession /\ Quiet
    BY DEF FlowInv, BaseInv
  <2> QED BY <2>1 DEF OneSession, Quiet, Binary, Fed, Feeding
<1>2. HandedIn = pos /\ file.data \in Seq(Byte)
  BY <1>1, OnItsWay
<1>3. pos = Len(file.data)
  BY DEF FlowInv, BaseInv, Reading, Feeding
<1>4. SubSeq(file.data, 1, Len(file.data)) = file.data
  BY <1>2, SubSeqFull
<1> QED
  BY <1>1, <1>2, <1>3, <1>4 DEF InOrder, FileImage

\* When the loop is through, the image is that of all the records of a hex file.
LEMMA WholeHex ==
    ASSUME FlowInv, RecordsInOrder, pc = "finish", file.kind # "bin"
    PROVE  image = FileImage(file, start)
<1>1. Fed /\ call = "none" /\ file.kind = "hex"
  <2>1. OneSession /\ Arguments
    BY DEF FlowInv, BaseInv
  <2> QED BY <2>1 DEF OneSession, Arguments, Fed, Feeding, Progs
<1>2. pos = Len(file.data)
  BY DEF FlowInv, BaseInv, Reading, Feeding
<1> QED
  BY <1>1, <1>2 DEF RecordsInOrder, FileImage

\* Every step keeps the image of the file until it is in the flash.
LEMMA HeldStep ==
    ASSUME FlowInv, InOrder, RecordsInOrder, Held, [Next]_vars
    PROVE  Held'
<1>1. /\ BaseInv /\ OneSession /\ Quiet /\ Held /\ BaseInv' /\ OneSession'
  BY BaseStep, SessionStep DEF FlowInv, BaseInv
<1>2. /\ call = "write" => pc = "write"
      /\ call = "clean" => pc \in {"clean", "failed"} /\ prog = file.kind
      /\ busy => call = "write"
  BY <1>1, Running
<1>3. ASSUME UNCHANGED <<pc, file, start, result>>, UNCHANGED <<call, outcome, image, cells>>
      PROVE  Held'
  BY <1>1, <1>3 DEF Held, HoldsFile, FileImage
<1>4. ASSUME pc' \notin {"idle", "clean"}
      PROVE  Held'
  BY <1>4 DEF Held, HoldsFile
<1>5. ASSUME pc' = "idle", ~result'
      PROVE  Held'
  BY <1>5 DEF Held, HoldsFile
<1>6. CASE register_progress_changed_callback
  BY <1>3, <1>6 DEF register_progress_changed_callback, prog_vars, session, running
<1>7. ASSUME NEW f \in Files, NEW addr \in Starts, Program(f, addr)
      PROVE  Held'
  BY <1>4, <1>5, <1>7 DEF Program
<1>8. CASE StartProgram
  BY <1>4, <1>5, <1>8 DEF StartProgram
<1>9. CASE Read
  BY <1>4, <1>9 DEF Read
<1>10. CASE Written \/ Finish
  BY <1>4, <1>10 DEF Written, Finish
<1>11. CASE Clean
  <2>1. pc = "finish" /\ pc' = "clean" /\ UNCHANGED <<file, start>> /\ mode[file.kind] = "open"
    BY <1>1, <1>11 DEF Clean, OneSession
  <2>2. call' = "clean" /\ image' = image
    BY <1>11, <2>1 DEF Clean, ProgramClean, session
  <2>3. image' = FileImage(file, start)
    BY <2>1, <2>2, WholeBinary, WholeHex
  <2> QED BY <2>1, <2>2, <2>3 DEF Held, HoldsFile, FileImage
<1>12. CASE Done
  <2>1. /\ pc' = "idle" /\ call = "none" /\ result' = (pc = "clean")
        /\ UNCHANGED <<outcome, cells, file, start>>
    BY <1>12 DEF Done, Free, prog_vars, session
  <2>2. CASE pc = "clean"
    BY <1>1, <2>1, <2>2 DEF Held, HoldsFile, FileImage
  <2>3. CASE pc # "clean"
    BY <1>5, <2>1, <2>3
  <2> QED BY <2>2, <2>3
<1>13. CASE Work /\ UNCHANGED fp_vars
  <2>1. UNCHANGED <<pc, file, start, result, call, outcome, image>> /\ pc # "idle"
    BY <1>2, <1>13 DEF Work, fp_vars, running
  <2>2. call = "write" \/ call = "clean"
    BY <1>2, <1>13 DEF Work
  <2>3. pc = "clean" => call = "clean"
    BY <1>2, <2>2
  <2> QED BY <1>1, <2>1, <2>3 DEF Held, HoldsFile, FileImage
<1>14. CASE Progress /\ UNCHANGED fp_vars
  <2>1. UNCHANGED <<pc, file, start, result>>
    BY <1>14 DEF fp_vars
  <2>2. CASE pc \notin {"idle", "clean"}
    BY <1>4, <2>1, <2>2
  <2>3. CASE pc \in {"idle", "clean"}
    <3>1. CleanEnd /\ call = "clean" /\ pc = "clean"
      BY <1>2, <1>14, <2>3 DEF Progress, PacketBegin, PacketAccepted, PacketFails, WriteEnd, CleanEnd
    <3>2. ~torn
      BY <1>1 DEF OneSession
    <3>3. call' = "none" /\ cells' = cells /\ (outcome' = "ok" => Matches(image, cells))
      BY <3>1, <3>2 DEF CleanEnd
    <3>4. image = FileImage(file, start)
      BY <1>1, <3>1 DEF Held
    <3> QED BY <2>1, <3>1, <3>3, <3>4 DEF Held, HoldsFile, FileImage
  <2> QED BY <2>2, <2>3
<1>15. CASE Die
  BY <1>5, <1>15 DEF Die
<1>16. CASE UNCHANGED vars
  BY <1>3, <1>16 DEF vars, fp_vars, prog_vars, session, running
<1> QED
  BY <1>6, <1>7, <1>8, <1>9, <1>10, <1>11, <1>12, <1>13, <1>14, <1>15, <1>16 DEF Next, Step, User

-----------------------------------------------------------------------------
\* The invariant holds at the start, and every step keeps it.
LEMMA InitInvariant == Init => IInv
<1> SUFFICES ASSUME Init PROVE IInv
  OBVIOUS
<1>1. cells \in [Addr -> Byte]
  BY ProgramAssumption DEF Init, ProgInit
<1>2. Blank \in [Addr -> Byte \cup {Unset}]
  BY DEF Blank
<1>3. 0 \in Nat /\ << >> \in Seq(Packet) /\ << >> \in Seq(Packets) /\ 0 \in 0 .. 100
  OBVIOUS
<1>4. FileTypeOK /\ Pending /\ Quiet
  BY <1>1, <1>2, <1>3 DEF Init, ProgInit, FileTypeOK, ProgTypeOK, Pending, Quiet, Progs
<1>5. Arguments /\ Reading /\ ProgressHonest
  BY <1>3 DEF Init, Arguments, Reading, ProgressHonest, Feeding
<1>6. OneSession
  BY DEF Init, ProgInit, OneSession
<1>7. Handing /\ Addressed /\ InOrder /\ RecordsInOrder
  BY <1>3 DEF Init, ProgInit, Handing, Addressed, InOrder, RecordsInOrder, Binary, Fed, Feeding
<1>8. Held
  BY DEF Init, Held, HoldsFile
<1> QED
  BY <1>4, <1>5, <1>6, <1>7, <1>8 DEF IInv, FlowInv, BaseInv

LEMMA FlowStep == FlowInv /\ [Next]_vars => FlowInv'
BY BaseStep, SessionStep, HandingStep, AddressStep DEF FlowInv

LEMMA InvariantStep == SectorsAligned /\ IInv /\ [Next]_vars => IInv'
BY FlowStep, OrderStep, RecordStep, HeldStep DEF IInv

LEMMA FlowInvariant == Spec => []FlowInv
<1>1. Init => FlowInv
  BY InitInvariant DEF IInv
<1> QED
  BY <1>1, FlowStep, PTL DEF Spec

LEMMA FileInvariant == ASSUME SectorsAligned PROVE Spec => []IInv
<1>1. IInv /\ [Next]_vars => IInv'
  BY InvariantStep
<1> QED
  BY <1>1, InitInvariant, PTL DEF Spec

\* The invariant gives what is to be shown of the ways out.
LEMMA WaysOut ==
    ASSUME FlowInv
    PROVE  FileTypeOK /\ ProgressHonest /\ NoneLeftOpen
BY DEF FlowInv, BaseInv, FileTypeOK, ProgTypeOK, OneSession, NoneLeftOpen, Sessions

\* Every variable has its type, the callback does not hear 100 before the whole
\* file has been handed over, and no session is left open when program() has
\* returned: whatever the sector table, the file, the buffer and the failures.
THEOREM FileWaysOut == Spec => [](FileTypeOK /\ ProgressHonest /\ NoneLeftOpen)
<1>1. FlowInv => FileTypeOK /\ ProgressHonest /\ NoneLeftOpen
  BY WaysOut
<1> QED
  BY <1>1, FlowInvariant, PTL

\* However the buffers cut a file, and wherever its records lie, the session has
\* got the image of the whole of it when the read loop of program() is through;
\* the types, the progress and the ways out are as they should be.
THEOREM FileOrder == ASSUME SectorsAligned PROVE Spec => []FileInv
<1>1. IInv => FileInv
  BY WaysOut, WholeBinary, WholeHex DEF IInv, FileInv, HandedOver
<1> QED
  BY <1>1, FileInvariant, PTL

\* When program() has returned true and the session was closed well, the flash
\* holds the file.
THEOREM FileHeld == ASSUME SectorsAligned PROVE Spec => []HoldsFile
<1>1. IInv => HoldsFile
  BY DEF IInv, Held
<1> QED
  BY <1>1, FileInvariant, PTL

-----------------------------------------------------------------------------
(***************************************************************************)
(* The refinement.  The definitions that FlashSession has through          *)
(* FlashImage are those that Programs has through it.                      *)
(***************************************************************************)
LEMMA SessionSize == \A a : Session!flash_erase_sector_size(a) = flash_erase_sector_size(a)
BY Zenon DEF Session!flash_erase_sector_size, flash_erase_sector_size, Session!IsLastRun, IsLastRun

\* Bases, sectors and images are the same in both.
LEMMA SessionBase == \A a : Session!Base(a) = Base(a)
BY SessionSize, Zenon DEF Session!Base, Base, Session!ROUND_DOWN, ROUND_DOWN

LEMMA SessionSectors == \A p, d : Session!SectorsOf(p, d) = SectorsOf(p, d)
BY SessionBase DEF Session!SectorsOf, SectorsOf, Session!Covered, Covered

LEMMA SessionImage ==
    ASSUME NEW p, NEW d
    PROVE  /\ Session!ImageAfter(image, open, p, d) = ImageAfter(image, open, p, d)
           /\ Session!OpenAfter(open, p, d) = OpenAfter(open, p, d)
           /\ Session!PastEnd(p, d) <=> PastEnd(p, d)
<1>1. Session!Fresh(open, p, d) = Fresh(open, p, d)
  BY SessionBase, SessionSectors DEF Session!Fresh, Fresh
<1>2. Session!ImageAfter(image, open, p, d) = ImageAfter(image, open, p, d)
  BY <1>1, SessionBase, Zenon
     DEF Session!ImageAfter, ImageAfter, Session!Covered, Covered, Session!Addr, Addr
<1>3. Session!OpenAfter(open, p, d) = OpenAfter(open, p, d)
  BY SessionBase, Zenon DEF Session!OpenAfter, OpenAfter, Session!NoSector, NoSector
<1> QED
  BY <1>2, <1>3 DEF Session!PastEnd, PastEnd

\* What a session that is opened or given up forgets is the same in both.
LEMMA SessionForget == Forget => Session!Forget
BY DEF Forget, Session!Forget, Session!Blank, Blank, Session!NoSector, NoSector, Session!Addr, Addr

\* The mode of the one session there is.
ModeIn(m) == CASE {i \in Progs : m[i] = "open"} # {} -> "open"
               [] {i \in Progs : m[i] = "error"} # {} -> "error"
               [] OTHER -> "closed"

\* The mode of the abstract session is that of the one program with a session.
LEMMA OneMode ==
    ASSUME NEW m \in [Progs -> {"closed", "open", "error"}], NEW i \in Progs,
           \A j \in Progs : j # i => m[j] = "closed"
    PROVE  ModeIn(m) = m[i]
<1>1. CASE m[i] = "open"
  <2>1. {j \in Progs : m[j] = "open"} # {}
    BY <1>1
  <2> QED BY <1>1, <2>1, Zenon DEF ModeIn
<1>2. CASE m[i] = "error"
  <2>1. {j \in Progs : m[j] = "open"} = {} /\ {j \in Progs : m[j] = "error"} # {}
    BY <1>2
  <2> QED BY <1>2, <2>1 DEF ModeIn
<1>3. CASE m[i] = "closed"
  <2>1. {j \in Progs : m[j] = "open"} = {} /\ {j \in Progs : m[j] = "error"} = {}
    BY <1>3
  <2> QED BY <1>3, <2>1 DEF ModeIn
<1> QED
  BY <1>1, <1>2, <1>3

\* With no session open, the abstract session is closed.
LEMMA NoMode ==
    ASSUME NEW m, \A i \in Progs : m[i] = "closed"
    PROVE  ModeIn(m) = "closed"
BY DEF ModeIn

\* A step that leaves all of it alone is a stutter.
LEMMA SessionStays ==
    ASSUME UNCHANGED session
    PROVE  UNCHANGED Session!vars
BY DEF session, Session!vars, SessionMode, Sessions

\* An init that succeeds opens the abstract session.
LEMMA SessionOpens ==
    ASSUME NEW i \in Progs, mode \in [Progs -> {"closed", "open", "error"}],
           \A j \in Progs : mode[j] = "closed", FlashOpens(i)
    PROVE  Session!Open
<1>1. SessionMode = "closed"
  BY NoMode DEF SessionMode, Sessions, ModeIn
<1>2. mode' = [mode EXCEPT ![i] = "open"] /\ outcome' = "none" /\ cells' = cells /\ Forget
  BY DEF FlashOpens, OthersOpen
<1>3. SessionMode' = "open"
  <2>1. ModeIn(mode') = mode'[i]
    BY <1>2, OneMode
  <2> QED BY <1>2, <2>1 DEF SessionMode, Sessions, ModeIn
<1> QED
  BY <1>1, <1>2, <1>3, SessionForget DEF Session!Open

\* While only one program may have a session, its mode is the mode.
LEMMA ModeOfProg ==
    ASSUME mode \in [Progs -> {"closed", "open", "error"}], NEW i \in Progs,
           \A j \in Progs : j # i => mode[j] = "closed"
    PROVE  /\ SessionMode = mode[i]
           /\ \A v \in {"closed", "open", "error"} :
                 mode' = [mode EXCEPT ![i] = v] => SessionMode' = v
           /\ mode' = mode => SessionMode' = SessionMode
<1>1. SessionMode = ModeIn(mode) /\ SessionMode' = ModeIn(mode')
  BY DEF SessionMode, Sessions, ModeIn
<1>2. ModeIn(mode) = mode[i]
  BY OneMode
<1>3. ASSUME NEW v \in {"closed", "open", "error"}, mode' = [mode EXCEPT ![i] = v]
      PROVE  ModeIn(mode') = v
  <2>1. /\ mode' \in [Progs -> {"closed", "open", "error"}] /\ mode'[i] = v
        /\ \A j \in Progs : j # i => mode'[j] = "closed"
    BY <1>3
  <2> QED BY <2>1, OneMode
<1> QED
  BY <1>1, <1>2, <1>3

\* A clean that is not the accessor's to end gives up a session in error, or
\* leaves it alone.
LEMMA SessionCleans ==
    ASSUME mode \in [Progs -> {"closed", "open", "error"}], NEW i \in Progs,
           \A j \in Progs : j # i => mode[j] = "closed", ~torn, ProgramClean(i)
    PROVE  Session!CloseFailed \/ UNCHANGED Session!vars
<1>1. CASE UNCHANGED session
  BY <1>1, SessionStays
<1>2. CASE mode[i] = "error" /\ Closed(i) /\ outcome' = "failed" /\ Forgotten /\ UNCHANGED cells
  <2>1. SessionMode = "error" /\ SessionMode' = "closed"
    BY <1>2, ModeOfProg DEF Closed
  <2> QED BY <1>2, <2>1, SessionForget DEF Forgotten, Session!CloseFailed
<1> QED
  BY <1>1, <1>2 DEF ProgramClean

\* What the accessor does in a call is a step of the session.
LEMMA SessionWorks ==
    ASSUME FlowInv, Progress \/ Work
    PROVE  Session!Next \/ UNCHANGED Session!vars
<1>1. /\ BaseInv /\ OneSession /\ Handing /\ ~torn /\ Pending
      /\ mode \in [Progs -> {"closed", "open", "error"}] /\ cells \in [Addr -> Byte]
  BY DEF FlowInv, BaseInv, OneSession, FileTypeOK, ProgTypeOK
<1>2. /\ call = "write" => pc = "write" /\ prog = file.kind /\ mode[file.kind] = "open"
      /\ call = "clean" => pc # "idle" /\ prog = file.kind /\ mode[file.kind] = "open"
      /\ pc # "idle" => file.kind \in Progs
      /\ busy => call = "write" /\ todo # << >>
  BY <1>1, Running
<1>3. \A j \in Progs : j # file.kind => mode[j] = "closed"
  BY <1>1 DEF OneSession
<1>4. ASSUME call # "none"
      PROVE  /\ prog = file.kind /\ prog \in Progs /\ SessionMode = "open"
             /\ \A v \in {"closed", "open", "error"} :
                   mode' = [mode EXCEPT ![prog] = v] => SessionMode' = v
             /\ mode' = mode => SessionMode' = "open"
  <2>1. prog = file.kind /\ prog \in Progs /\ mode[prog] = "open"
    BY <1>1, <1>2, <1>4, Running
  <2> QED BY <1>1, <1>3, <2>1, ModeOfProg
<1>5. ASSUME todo # << >>
      PROVE  Head(todo) \in Packets
  BY <1>1, <1>5 DEF Handing
<1>6. CASE PacketBegin
  <2>1. call # "none" /\ todo # << >> /\ CanWrite(prog)
    BY <1>2, <1>6 DEF PacketBegin, CanWrite
  <2>2. /\ scope' = scope \cup SectorsOf(Head(todo).addr, Head(todo).data)
        /\ UNCHANGED <<mode, outcome, cells, image, open, beyond>>
    BY <1>6, <2>1 DEF PacketBegin
  <2>3. Session!Begin(Head(todo).addr, Head(todo).data)
    BY <1>4, <2>1, <2>2, SessionSectors DEF Session!Begin
  <2> QED BY <1>5, <2>1, <2>3 DEF Session!Next
<1>7. CASE PacketAccepted
  <2>1. call # "none" /\ todo # << >>
    BY <1>2, <1>7 DEF PacketAccepted
  <2>2. /\ image' = ImageAfter(image, open, Head(todo).addr, Head(todo).data)
        /\ open' = OpenAfter(open, Head(todo).addr, Head(todo).data)
        /\ beyond' = (beyond \/ PastEnd(Head(todo).addr, Head(todo).data))
        /\ UNCHANGED <<mode, outcome, cells, scope>>
    BY <1>1, <1>7 DEF PacketAccepted
  <2>3. Session!SectorsOf(Head(todo).addr, Head(todo).data) \subseteq scope
    BY <1>1, <1>7, SessionSectors DEF Handing, PacketAccepted
  <2>4. Session!Accept(Head(todo).addr, Head(todo).data)
    BY <1>4, <2>1, <2>2, <2>3, SessionImage DEF Session!Accept
  <2> QED BY <1>5, <2>1, <2>4 DEF Session!Next
<1>8. CASE PacketFails
  <2>1. call # "none" /\ mode' = [mode EXCEPT ![prog] = "error"] /\ Forget /\ UNCHANGED <<outcome, cells>>
    BY <1>1, <1>2, <1>8 DEF PacketFails, Forgotten
  <2>2. Session!Fail
    BY <1>4, <2>1, SessionForget DEF Session!Fail
  <2> QED BY <2>2 DEF Session!Next
<1>9. CASE WriteEnd
  BY <1>9, SessionStays DEF WriteEnd
<1>10. CASE CleanEnd
  <2>1. call # "none" /\ mode' = [mode EXCEPT ![prog] = "closed"] /\ cells' = cells
    BY <1>10 DEF CleanEnd, Closed
  <2>2. SessionMode = "open" /\ SessionMode' = "closed"
    BY <1>4, <2>1
  <2>3. CASE /\ Matches(image, cells) /\ ~beyond /\ outcome' = "ok"
             /\ UNCHANGED <<image, open, beyond, scope>>
    <3>1. Session!Matches(image, cells)
      BY <2>3 DEF Matches, Session!Matches, Addr, Session!Addr
    <3>2. Session!CloseOk
      BY <2>1, <2>2, <2>3, <3>1 DEF Session!CloseOk
    <3> QED BY <3>2 DEF Session!Next
  <2>4. CASE outcome' = "failed" /\ Forget
    <3>1. Session!CloseFailed
      BY <2>1, <2>2, <2>4, SessionForget DEF Session!CloseFailed
    <3> QED BY <3>1 DEF Session!Next
  <2> QED BY <1>1, <1>10, <2>3, <2>4 DEF CleanEnd, Forgotten
<1>11. CASE Work
  <2>1. call # "none" /\ UNCHANGED <<mode, outcome, image, open, beyond, scope>>
    BY <1>2, <1>11 DEF Work
  <2>2. PICK new \in [{a \in Addr : Base(a) \in scope} -> Byte] :
            cells' = [a \in Addr |-> IF a \in DOMAIN new THEN new[a] ELSE cells[a]]
    BY <1>11 DEF Work
  <2>3. \A a \in Session!Addr : cells'[a] = cells[a] \/ Session!Base(a) \in scope
    BY <2>2, SessionBase DEF Session!Addr, Addr
  <2>4. DOMAIN cells' = Session!Addr
    BY <2>2 DEF Session!Addr, Addr
  <2>5. Session!Work
    BY <1>4, <2>1, <2>3, <2>4 DEF Session!Work
  <2> QED BY <2>5 DEF Session!Next
<1> QED
  BY <1>6, <1>7, <1>8, <1>9, <1>10, <1>11 DEF Progress

\* Every step of program() is a step of the session or a stutter.
LEMMA SessionKeeps ==
    ASSUME FlowInv, [Next]_vars
    PROVE  [Session!Next]_(Session!vars)
<1>1. /\ OneSession /\ ~torn /\ Arguments
      /\ mode \in [Progs -> {"closed", "open", "error"}]
      /\ \A j \in Progs : j # file.kind => mode[j] = "closed"
  BY DEF FlowInv, BaseInv, FileTypeOK, ProgTypeOK, OneSession
<1>2. ASSUME UNCHANGED session
      PROVE  UNCHANGED Session!vars
  BY <1>2, SessionStays
<1>3. ASSUME UNCHANGED prog_vars
      PROVE  UNCHANGED Session!vars
  BY <1>2, <1>3 DEF prog_vars
<1>4. CASE register_progress_changed_callback \/ Finish \/ Done
  BY <1>3, <1>4 DEF register_progress_changed_callback, Finish, Done
<1>5. CASE UNCHANGED vars
  BY <1>3, <1>5 DEF vars
<1>6. ASSUME NEW f, NEW addr, Program(f, addr)
      PROVE  UNCHANGED Session!vars
  BY <1>3, <1>6 DEF Program
<1>7. CASE StartProgram
  <2>1. file.kind \in Progs /\ \A j \in Progs : mode[j] = "closed"
    BY <1>1, <1>7 DEF StartProgram, OneSession, Arguments
  <2>2. FlashOpens(file.kind) \/ UNCHANGED session
    BY <1>7 DEF StartProgram, ProgramInit, FlashRefuses
  <2> QED BY <1>1, <1>2, <2>1, <2>2, SessionOpens DEF Session!Next
<1>8. CASE Read
  BY <1>2, <1>3, <1>8 DEF Read, ProgramWrite
<1>9. ASSUME ProgramClean(file.kind), pc # "idle"
      PROVE  Session!Next \/ UNCHANGED Session!vars
  <2>1. file.kind \in Progs
    BY <1>1, <1>9 DEF Arguments
  <2> QED BY <1>1, <1>9, <2>1, SessionCleans DEF Session!Next
<1>10. CASE Written \/ Clean
  BY <1>3, <1>9, <1>10 DEF Written, Clean
<1>11. CASE Progress \/ Work
  BY <1>11, SessionWorks
<1>12. CASE Die
  <2>1. /\ \A i \in Progs : mode'[i] = "closed"
        /\ outcome' = "none" /\ Forget /\ cells' = cells
    BY <1>12 DEF Die, ProgDie
  <2>2. SessionMode' = "closed"
    BY <2>1, NoMode DEF SessionMode, Sessions, ModeIn
  <2>3. Session!Die
    BY <2>1, <2>2, SessionForget DEF Session!Die
  <2> QED BY <2>3 DEF Session!Next
<1> QED
  BY <1>4, <1>5, <1>6, <1>7, <1>8, <1>10, <1>11, <1>12 DEF Next, Step, User

\* The programs, each with its own accessor, use the flash as one session at a
\* time: FileProgrammer implements FlashSession.
THEOREM FileImplements == Spec => SessionKept
<1>1. Init => Session!Init
  <2> SUFFICES ASSUME Init PROVE Session!Init
    OBVIOUS
  <2>1. \A i \in Progs : mode[i] = "closed"
    BY DEF Init, ProgInit
  <2>2. SessionMode = "closed"
    BY <2>1, NoMode DEF SessionMode, Sessions, ModeIn
  <2> QED BY <2>2 DEF Init, ProgInit, Session!Init, Session!Blank, Blank, Session!NoSector,
                      NoSector, Session!Addr, Addr
<1>2. FlowInv /\ [Next]_vars => [Session!Next]_(Session!vars)
  BY SessionKeeps
<1> QED
  BY <1>1, <1>2, FlowInvariant, PTL DEF Spec, SessionKept, Session!Spec
=============================================================================

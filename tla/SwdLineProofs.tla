--------------------------- MODULE SwdLineProofs ---------------------------
(***************************************************************************)
(* What holds of the SW-DP line for every word length, every length of the *)
(* line reset and every request: the two ends agree.                       *)
(*                                                                         *)
(* LineIInv says, for every number of cycles still to go, where the target *)
(* is and what it holds.  In a sequence that is a race: the first reset    *)
(* lasts longer than anything the target may be busy with, the switch      *)
(* sequence may still be read as the beginning of a packet, and the second *)
(* reset makes good what came of it.  In a transfer the target follows the *)
(* host bit by bit; with one bit wrong it may follow one bit late, be      *)
(* lost, or answer a host that has stopped listening.                      *)
(***************************************************************************)
EXTENDS SwdLine, FiniteSetTheorems, SequenceTheorems, TLAPS

-----------------------------------------------------------------------------
(***************************************************************************)
(* The inductive invariant.                                                *)
(***************************************************************************)
ToGo == Len(todo)
Req == call.request
Ack == SubSeq(heard, 1, 3)

Cycle == [drives : BOOLEAN, bit : Bit, samples : BOOLEAN]
Phases == {"jtag", "switch", "lost", "reset", "idle", "packet", "turn", "speak", "back", "data"}

\* The cycle with m cycles to go, itself among them.
SequenceLeft(m) ==
  IF m <= 8 THEN Out(0)
  ELSE IF m <= 8 + ResetSent THEN Out(1)
  ELSE IF m <= 24 + ResetSent THEN Out(SwitchBits[25 + ResetSent - m])
  ELSE Out(1)

\* The same of a request, a read, a write.
RequestLeft(r, m) ==
  IF m = 12 THEN Out(1)
  ELSE IF m >= 8 THEN Out(r[12 - m])
  ELSE IF m = 7 THEN Out(Parity(r))
  ELSE IF m = 6 THEN Out(0)
  ELSE IF m = 5 THEN Out(1)
  ELSE IF m = 4 THEN Turn
  ELSE In

ReadLeft(m) == IF m = 1 THEN Turn ELSE In
WriteLeft(w, m) ==
  IF m = DataBits + 2 THEN Turn
  ELSE IF m = 1 THEN Out(Parity(w))
  ELSE Out(w[DataBits + 2 - m])

\* Bits as they arrive: all right, or one of them wrong.
Arrived(s, full) == \A i \in 1 .. Len(s) : s[i] = full[i]
Spoilt(s, full) ==
  \E j \in 1 .. Len(s) :
    s[j] = 1 - full[j] /\ \A i \in 1 .. Len(s) : i # j => s[i] = full[i]
Got(s, full) == Arrived(s, full) \/ (flips = 1 /\ Spoilt(s, full))

\* What the host sends of a request and of a word, and what the target says.
PacketBits(r) == r \o <<Parity(r), 0, 1>>
WordBits(w) == Append(w, Parity(w))
Spoken ==
  IF target.said = "OK" /\ IsRead(target.request)
    THEN AckOf.OK \o WordBits(target.sent) ELSE AckOf[target.said]

\* The target's record, and the bits it holds in each phase.
TargetType ==
  [phase : Phases, bits : Seq(Bit), ones : 0 .. ResetSeen, request : Requests,
   said : {"OK", "WAIT", "FAULT"}, sent : [1 .. DataBits -> Bit], fresh : BOOLEAN]

TargetOK ==
  /\ target \in TargetType
  /\ target.phase = "packet" => Len(target.bits) <= 6
  /\ target.phase = "speak" => Len(target.bits) \in 1 .. Len(Spoken)
  /\ target.phase = "data" => Len(target.bits) <= DataBits
  /\ target.phase = "switch" => Len(target.bits) <= 15

\* The host: its call, what it has still to send and what it has heard.
HostOK ==
  /\ call \in Transfers \union {Nothing, Connect}
  /\ status \in {"new", "running", "OK", "WAIT", "FAULT", "ERROR", "NONE"}
  /\ stage \in {"sequence", "request", "body"}
  /\ flips \in 0 .. MaxFlips /\ bad \in BOOLEAN /\ synced \in BOOLEAN
  /\ synced => status # "new"
  /\ synced => call # Nothing
  /\ status = "running" => (stage = "sequence" <=> ~synced)
  /\ status # "running" => todo = <<>>
  /\ heard \in Seq(Bit) /\ Len(heard) <= DataBits + 4
  /\ todo \in Seq(Cycle)
  /\ done \in Seq([request : Requests, word : Words \union {<<>>} \union [1 .. DataBits -> Bit]])

\* The first reset lasts longer than anything the target may be busy with.
FirstReset(left) ==
  /\ target.phase = "jtag" => ResetSeen - target.ones <= left
  /\ target.phase = "switch" => /\ ResetSeen - target.ones <= left
                                /\ 16 - Len(target.bits) <= left
  /\ target.phase = "idle" => 8 <= left
  /\ target.phase = "packet" =>
       IF Len(target.bits) < 6 THEN 7 - Len(target.bits) <= left
       ELSE DataBits + 15 <= left \/ (target.bits[6] = 1 /\ 1 <= left)
  /\ target.phase = "turn" => DataBits + 14 <= left
  /\ target.phase = "speak" =>
       IF target.said = "OK" /\ ~IsRead(target.request)
         THEN Len(target.bits) + DataBits + 10 <= left
         ELSE Len(target.bits) + 9 <= left
  /\ target.phase = "back" =>
       IF target.said = "OK" /\ ~IsRead(target.request) THEN DataBits + 10 <= left ELSE 9 <= left
  /\ target.phase = "data" => DataBits + 9 - Len(target.bits) <= left

\* s bits of the switch sequence are sent.
Switching(s) ==
  \/ s = 0 /\ target.phase = "jtag" /\ target.ones = ResetSeen
  \/ s = 0 /\ target.phase \in {"lost", "reset"}
  \/ s \in 1 .. 15 /\ target.phase = "switch" /\ Len(target.bits) = s
       /\ target.ones <= s /\ \A i \in 1 .. s : target.bits[i] = SwitchBits[i]
  \/ s \in 1 .. 16 /\ target.phase = "lost" /\ target.ones <= s
  \/ s = 1 /\ target.phase = "idle" /\ target.ones = 0
  \/ s \in 2 .. 8 /\ target.phase = "packet" /\ Len(target.bits) = s - 2 /\ target.ones <= s
       /\ (s = 8 => target.bits[6] = 1)

\* sent ones of the second reset are out: the target is in reset or counts them.
SecondReset(sent) ==
  \/ target.phase = "reset" /\ target.fresh
  \/ target.phase = "lost" /\ sent <= target.ones /\ target.ones < ResetSeen

\* connect(), until the line is idle and the target fresh from reset.
InSequence ==
  /\ ToGo <= 25 + 2 * ResetSent
  /\ flips = 0 /\ call = Connect /\ heard = <<>>
  /\ \A i \in 1 .. ToGo : todo[i] = SequenceLeft(ToGo + 1 - i)
  /\ ToGo >= 24 + ResetSent => FirstReset(ToGo - (24 + ResetSent))
  /\ ToGo <= 24 + ResetSent /\ ToGo >= 8 + ResetSent => Switching(24 + ResetSent - ToGo)
  /\ ToGo < 8 + ResetSent /\ ToGo >= 8 => SecondReset(8 + ResetSent - ToGo)
  /\ ToGo <= 8 => target.fresh
  /\ ToGo < 8 => target.phase = "idle" /\ target.ones = 0

-----------------------------------------------------------------------------
\* The request, k of its twelve cycles done.
\* The target takes nothing in: too few ones come to reset it.
Deaf(k) ==
  /\ target.phase = "lost" /\ flips = 1 /\ done = <<>>
  /\ \A i \in 1 .. Len(heard) : heard[i] = 1
  /\ k <= 5 => \/ target.ones <= k - 2
               \/ /\ target.ones <= DataBits + 12 + k
                  /\ \A i \in 1 .. k - 1 : Req[i] = 1
  /\ k >= 6 => target.ones <= k - 2

\* It waits for a start bit, takes in the packet, and takes the line over.
Waiting ==
  /\ target.phase = "idle" /\ done = <<>> /\ target.ones = 0
  /\ target.fresh => Req = IdCode

Collecting(k) ==
  /\ target.phase = "packet" /\ Len(target.bits) = k - 1 /\ done = <<>>
  /\ Got(target.bits, PacketBits(Req))
  /\ target.fresh => Req = IdCode
  /\ target.ones <= k - 2 \/ (target.ones = k /\ \A i \in 1 .. k - 1 : target.bits[i] = 1)
  /\ k = 6 => target.ones <= 4 \/ flips = 1
  /\ k = 7 => target.ones <= 5

Turning ==
  /\ target.phase = "turn" /\ target.request = Req /\ done = <<>>
  /\ target.fresh => Req = IdCode

\* It has the request; what the host has heard is what it said.
Answered ==
  /\ target.request = Req /\ ~target.fresh /\ target.ones = 0
  /\ Req = IdCode => target.said = "OK"
  /\ target.said = "OK" => target.sent \in Words \/ ~IsRead(Req)
  /\ done = IF target.said = "OK" /\ IsRead(Req) THEN <<[request |-> Req, word |-> <<>>]>> ELSE <<>>
  /\ Got(heard, Spoken)

\* left: bits the target still has to say.
Saying(left) ==
  IF left = 0 THEN target.phase = "back"
  ELSE /\ target.phase = "speak" /\ Len(target.bits) = left
       /\ \A i \in 1 .. left : target.bits[i] = Spoken[Len(Spoken) - left + i]

\* The start bit came wrong.
Missed(k) ==
  /\ flips = 1 /\ done = <<>>
  /\ \A i \in 1 .. Len(heard) : heard[i] = 1
  /\ \/ target.phase = "idle" /\ k <= 7
     \/ /\ target.phase = "packet" /\ Len(target.bits) \in (k - 8) .. (k - 2)
        /\ Len(target.bits) >= 6 => target.bits[6] = 1
  /\ target.ones < k
  /\ k >= 7 => target.ones <= k - 7

RequestAt(k) ==
  /\ \A i \in 1 .. ToGo : todo[i] = RequestLeft(Req, ToGo + 1 - i)
  /\ Len(heard) = IF k <= 9 THEN 0 ELSE k - 9
  /\ ~bad
  /\ \/ Deaf(k)
     \/ k = 0 /\ Waiting
     \/ k \in 1 .. 7 /\ Collecting(k)
     \/ k = 8 /\ Turning
     \/ k >= 9 /\ Answered /\ Saying(Len(Spoken) - (k - 9))
     \/ k >= 1 /\ Missed(k)

InRequest == \E k \in 0 .. 12 : ToGo = 12 - k /\ RequestAt(k)

-----------------------------------------------------------------------------
\* The data phase when no ACK was recognised: swj_back_off.
BackingOff ==
  /\ ToGo <= DataBits + 2 /\ flips = 1
  /\ Len(heard) = 3 /\ \A a \in {"OK", "WAIT", "FAULT"} : heard # AckOf[a]
  /\ \A i \in 1 .. ToGo : todo[i] = Turn

\* After an answer, or a request, that was not understood.
Astray ==
  /\ BackingOff /\ done = <<>> /\ ~bad
  /\ target.ones <= DataBits + 12 - ToGo
  /\ \/ target.phase = "back" /\ ToGo = DataBits + 2 /\ target.said # "OK" /\ ~target.fresh
     \/ target.phase = "idle" /\ ToGo = DataBits + 1 /\ ~target.fresh
     \/ /\ target.phase = "packet" /\ Len(target.bits) >= DataBits - ToGo
        /\ Len(target.bits) >= 6 => target.bits[6] = 1
     \/ target.phase = "lost"

\* The target said OK, in vain: it sends its word, or takes the ones on the line.
SentInVain ==
  /\ BackingOff /\ ~bad /\ done = <<[request |-> Req, word |-> <<>>]>>
  /\ target.said = "OK" /\ IsRead(Req) /\ target.request = Req
  /\ IF ToGo = 0 THEN target.phase = "idle" ELSE Saying(ToGo - 1)

TakenInVain ==
  /\ BackingOff /\ done = <<>>
  /\ target.said = "OK" /\ ~IsRead(Req) /\ target.request = Req
  /\ CASE ToGo = DataBits + 2 -> target.phase = "back" /\ ~bad
       [] ToGo = 0            -> target.phase = "idle" /\ bad
       [] OTHER            -> /\ target.phase = "data" /\ Len(target.bits) = DataBits + 1 - ToGo /\ ~bad
                              /\ \A i \in 1 .. Len(target.bits) : target.bits[i] = 1

\* WAIT or FAULT: the line turns and nothing is done.
Refused ==
  /\ ToGo <= 1 /\ done = <<>> /\ ~bad
  /\ target.said # "OK" /\ heard = AckOf[target.said]
  /\ \A i \in 1 .. ToGo : todo[i] = Turn
  /\ target.phase = IF ToGo = 1 THEN "back" ELSE "idle"

\* OK to a read: it is done, and its word is on the way.
Reading ==
  /\ ToGo <= DataBits + 2 /\ Ack = AckOf.OK
  /\ IsRead(Req) /\ target.request = Req /\ target.said = "OK" /\ ~bad
  /\ done = <<[request |-> Req, word |-> <<>>]>>
  /\ \A i \in 1 .. ToGo : todo[i] = ReadLeft(ToGo + 1 - i)
  /\ Len(heard) = IF ToGo = 0 THEN DataBits + 4 ELSE DataBits + 5 - ToGo
  /\ Got(heard, Spoken)
  /\ IF ToGo = 0 THEN target.phase = "idle" ELSE Saying(ToGo - 1)

\* OK to a write: it is done when the word came with its parity.
Writing ==
  /\ ToGo <= DataBits + 2 /\ heard = AckOf.OK /\ call.op = "write"
  /\ ~IsRead(Req) /\ target.request = Req /\ target.said = "OK"
  /\ \A i \in 1 .. ToGo : todo[i] = WriteLeft(call.word, ToGo + 1 - i)
  /\ CASE ToGo = DataBits + 2 -> target.phase = "back" /\ ~bad /\ done = <<>>
       [] ToGo = 0 -> /\ target.phase = "idle"
                   /\ \/ bad /\ flips = 1 /\ done = <<>>
                      \/ ~bad /\ done = <<[request |-> Req, word |-> call.word]>>
       [] OTHER -> /\ target.phase = "data" /\ Len(target.bits) = DataBits + 1 - ToGo
                   /\ Got(target.bits, WordBits(call.word)) /\ ~bad /\ done = <<>>

InBody ==
  \/ Astray
  \/ target.ones = 0 /\ ~target.fresh /\ (Req = IdCode => target.said = "OK")
     /\ (SentInVain \/ TakenInVain \/ Refused \/ Reading \/ Writing)

\* Between two calls the target is idle, or lost after a wrong bit.
Over ==
  \/ target.phase = "idle" /\ ~target.fresh /\ target.ones = 0
  \/ target.phase = "lost" /\ flips = 1 /\ target.ones <= DataBits + 12

\* The inductive invariant.
LineIInv ==
  /\ HostOK /\ TargetOK
  /\ status = "running" /\ stage = "sequence" => InSequence
  /\ status = "running" /\ stage = "request" => InRequest
  /\ status = "running" /\ stage = "body" => InBody
  /\ Finished => Over /\ OnlyAsked /\ AnswerIsTrue /\ Connects

-----------------------------------------------------------------------------
(***************************************************************************)
(* Bits: sequences of them, their parity, and what one wrong bit does.     *)
(***************************************************************************)
OnesOf(s) == {i \in DOMAIN s : s[i] = 1}

\* The set of the ones of a sequence is finite, and the parity counts them.
LEMMA OnesFinite ==
    ASSUME NEW s \in Seq(Bit)
    PROVE  /\ IsFiniteSet(OnesOf(s)) /\ Cardinality(OnesOf(s)) \in Nat
           /\ Parity(s) = Cardinality(OnesOf(s)) % 2 /\ Parity(s) \in Bit
<1>1. OnesOf(s) \in SUBSET (1 .. Len(s)) /\ Len(s) \in Nat
  BY DEF OnesOf
<1>2. IsFiniteSet(1 .. Len(s))
  BY <1>1, FS_Interval
<1>3. IsFiniteSet(OnesOf(s))
  BY <1>1, <1>2, FS_Subset
<1>4. Cardinality(OnesOf(s)) \in Nat
  BY <1>3, FS_CardinalityType
<1>5. Parity(s) = Cardinality(OnesOf(s)) % 2
  BY DEF Parity, OnesOf
<1> QED
  BY <1>3, <1>4, <1>5 DEF Bit

\* A bit more.
LEMMA ParityAppend ==
    ASSUME NEW s \in Seq(Bit), NEW b \in Bit
    PROVE  Parity(Append(s, b)) = IF b = 0 THEN Parity(s) ELSE 1 - Parity(s)
<1> DEFINE t == Append(s, b)
           m == Len(s) + 1
<1>1. /\ t \in Seq(Bit) /\ Len(t) = m /\ Len(s) \in Nat /\ t[m] = b
      /\ \A i \in 1 .. Len(s) : t[i] = s[i]
  BY AppendProperties
<1>2. m \notin OnesOf(s) /\ DOMAIN s = 1 .. Len(s) /\ DOMAIN t = 1 .. m
  BY <1>1 DEF OnesOf
<1> HIDE DEF t
<1>3. OnesOf(t) = IF b = 1 THEN OnesOf(s) \cup {m} ELSE OnesOf(s)
  <2>1. \A i \in 1 .. m : i = m \/ i \in 1 .. Len(s)
    BY <1>1
  <2>2. \A i \in 1 .. Len(s) : i \in 1 .. m
    BY <1>1
  <2> QED
    BY <1>1, <1>2, <2>1, <2>2 DEF OnesOf, Bit
<1> HIDE DEF m
<1>4. CASE b = 1
  <2>1. Cardinality(OnesOf(t)) = Cardinality(OnesOf(s)) + 1
    BY <1>2, <1>3, <1>4, OnesFinite, FS_AddElement
  <2> DEFINE c == Cardinality(OnesOf(s))
  <2>2. c \in Nat /\ Parity(s) = c % 2 /\ Parity(t) = (c + 1) % 2
    BY <2>1, <1>1, OnesFinite
  <2> HIDE DEF c
  <2>3. Parity(t) = 1 - Parity(s)
    BY <2>2
  <2> QED
    BY <2>3, <1>4 DEF t
<1>5. CASE b = 0
  <2>1. OnesOf(t) = OnesOf(s)
    BY <1>3, <1>5
  <2>2. Parity(t) = Parity(s)
    BY <1>1, <2>1, OnesFinite
  <2> QED
    BY <2>2, <1>5 DEF t
<1> QED
  BY <1>4, <1>5 DEF Bit

\* Nothing has even parity.
LEMMA ParityEmpty == Parity(<<>>) = 0
<1>1. <<>> \in Seq(Bit) /\ OnesOf(<<>>) = {}
  BY DEF OnesOf
<1>2. Parity(<<>>) = Cardinality({}) % 2
  BY <1>1, OnesFinite
<1> QED
  BY <1>2, FS_EmptySet

\* One bit the other way round.
LEMMA ParityMore ==
    ASSUME NEW s \in Seq(Bit), NEW t \in Seq(Bit), Len(s) = Len(t), NEW j \in 1 .. Len(s),
           s[j] = 1, t[j] = 0, \A i \in 1 .. Len(s) : i # j => s[i] = t[i]
    PROVE  Parity(s) = 1 - Parity(t)
<1>1. DOMAIN s = 1 .. Len(s) /\ DOMAIN t = 1 .. Len(s)
  OBVIOUS
<1>2. j \notin OnesOf(t) /\ OnesOf(s) = OnesOf(t) \cup {j}
  <2>1. OnesOf(s) \subseteq 1 .. Len(s) /\ OnesOf(t) \subseteq 1 .. Len(s)
    BY <1>1 DEF OnesOf
  <2>2. j \in OnesOf(s) /\ j \notin OnesOf(t)
    BY <1>1 DEF OnesOf
  <2>3. \A i \in 1 .. Len(s) : i # j => (i \in OnesOf(s) <=> i \in OnesOf(t))
    BY <1>1 DEF OnesOf
  <2> QED
    BY <2>1, <2>2, <2>3
<1>3. Cardinality(OnesOf(s)) = Cardinality(OnesOf(t)) + 1
  <2>1. IsFiniteSet(OnesOf(t))
    BY OnesFinite
  <2> DEFINE T == OnesOf(t)
  <2>2. IsFiniteSet(T) /\ j \notin T /\ OnesOf(s) = T \cup {j}
    BY <1>2, <2>1
  <2> HIDE DEF T
  <2>3. Cardinality(T \cup {j}) = Cardinality(T) + 1
    BY <2>2, FS_AddElement
  <2> QED
    BY <2>2, <2>3 DEF T
<1> DEFINE c == Cardinality(OnesOf(t))
<1>4. c \in Nat /\ Parity(t) = c % 2 /\ Parity(s) = (c + 1) % 2
  BY <1>3, OnesFinite
<1> HIDE DEF c
<1> QED
  BY <1>4

\* A sequence with one bit wrong has the other parity.
LEMMA ParityFlip ==
    ASSUME NEW s \in Seq(Bit), NEW t \in Seq(Bit), Len(s) = Len(t), Spoilt(s, t)
    PROVE  Parity(s) = 1 - Parity(t)
<1>1. PICK j \in 1 .. Len(s) :
        s[j] = 1 - t[j] /\ \A i \in 1 .. Len(s) : i # j => s[i] = t[i]
  BY DEF Spoilt
<1>2. s[j] \in Bit /\ t[j] \in Bit
  BY <1>1, ElementOfSeq
<1>3. CASE s[j] = 1
  BY <1>1, <1>2, <1>3, ParityMore DEF Bit
<1>4. CASE s[j] = 0
  <2>1. Parity(t) = 1 - Parity(s)
    BY <1>1, <1>2, <1>4, ParityMore DEF Bit
  <2> QED
    BY <2>1, OnesFinite DEF Bit
<1> QED
  BY <1>2, <1>3, <1>4 DEF Bit

\* Nothing but ones.
LEMMA ParityOnes ==
    ASSUME NEW s \in Seq(Bit), \A i \in 1 .. Len(s) : s[i] = 1
    PROVE  Parity(s) = Len(s) % 2
<1>1. OnesOf(s) = 1 .. Len(s) /\ Len(s) \in Nat
  BY DEF OnesOf
<1> DEFINE l == Len(s)
<1>a. l \in Nat /\ 1 \in Int
  OBVIOUS
<1> HIDE DEF l
<1>b. Cardinality(1 .. l) = l
  BY <1>a, FS_Interval
<1>2. Cardinality(1 .. Len(s)) = Len(s)
  BY <1>b DEF l
<1>3. Parity(s) = Cardinality(OnesOf(s)) % 2
  BY OnesFinite
<1>4. Cardinality(OnesOf(s)) = Len(s)
  BY <1>1, <1>2
<1> QED
  BY <1>3, <1>4

\* A function on 1 .. k is a sequence of length k.
LEMMA FunctionIsSeq ==
    ASSUME NEW S, NEW k \in Nat, NEW f \in [1 .. k -> S]
    PROVE  f \in Seq(S) /\ Len(f) = k
<1>1. f \in UNION {[1 .. m -> S] : m \in Nat}
  OBVIOUS
<1>2. f \in Seq(S)
  BY <1>1, SeqDef
<1>3. DOMAIN f = 1 .. Len(f) /\ DOMAIN f = 1 .. k /\ Len(f) \in Nat
  BY <1>2, LenProperties
<1> DEFINE l == Len(f)
<1>4. l \in Nat /\ 1 .. l = 1 .. k
  BY <1>3
<1> HIDE DEF l
<1>5. (k \in 1 .. k => k \in 1 .. l) /\ (l \in 1 .. l => l \in 1 .. k)
  BY <1>4
<1>6. l = k
  BY <1>4, <1>5
<1> QED
  BY <1>2, <1>6 DEF l

\* A request is four bits.
LEMMA Request4 ==
    ASSUME NEW r \in Requests
    PROVE  /\ r \in Seq(Bit) /\ Len(r) = 4 /\ Parity(r) \in Bit
           /\ r[1] \in Bit /\ r[2] \in Bit /\ r[3] \in Bit /\ r[4] \in Bit
<1>1. r \in [1 .. 4 -> Bit]
  BY DEF Requests
<1>2. r \in Seq(Bit) /\ Len(r) = 4
  BY <1>1, FunctionIsSeq
<1> QED
  BY <1>1, <1>2, OnesFinite

\* One sequence after another, k elements and l.
Joined(S, r, s, k, t, l) ==
    /\ r \in Seq(S) /\ Len(r) = k + l
    /\ \A i \in 1 .. k : r[i] = s[i]
    /\ \A i \in 1 .. l : r[k + i] = t[i]

\* What comes where when two sequences are joined.
LEMMA Catenated ==
    ASSUME NEW S, NEW s \in Seq(S), NEW t \in Seq(S), NEW k \in Nat, NEW l \in Nat,
           Len(s) = k, Len(t) = l
    PROVE  Joined(S, s \o t, s, k, t, l)
<1> DEFINE r == s \o t
<1>1. /\ r \in Seq(S) /\ Len(r) = Len(s) + Len(t)
      /\ \A i \in 1 .. Len(s) + Len(t) : r[i] = IF i <= Len(s) THEN s[i] ELSE t[i - Len(s)]
  BY ConcatProperties
<1> HIDE DEF r
<1>2. \A i \in 1 .. k : r[i] = s[i]
  BY <1>1
<1>3. ASSUME NEW i \in 1 .. l PROVE r[k + i] = t[i]
  <2>1. k + i \in 1 .. k + l /\ ~(k + i <= k) /\ (k + i) - k = i
    OBVIOUS
  <2> QED
    BY <1>1, <2>1
<1>4. Joined(S, r, s, k, t, l)
  BY <1>1, <1>2, <1>3 DEF Joined
<1> QED
  BY <1>4 DEF r

\* A word is DataBits bits.
LEMMA Word8 ==
    ASSUME NEW w \in [1 .. DataBits -> Bit]
    PROVE  w \in Seq(Bit) /\ Len(w) = DataBits /\ Parity(w) \in Bit
<1>1. w \in Seq(Bit) /\ Len(w) = DataBits
  BY LineAssumption, FunctionIsSeq
<1> QED
  BY <1>1, OnesFinite

\* What is sent of a word: its parity bit makes the parity even.
LEMMA WordSent ==
    ASSUME NEW w \in [1 .. DataBits -> Bit]
    PROVE  /\ WordBits(w) \in Seq(Bit) /\ Len(WordBits(w)) = DataBits + 1
           /\ Parity(WordBits(w)) = 0
           /\ \A i \in 1 .. DataBits : WordBits(w)[i] = w[i]
           /\ WordBits(w)[DataBits + 1] = Parity(w)
<1>1. w \in Seq(Bit) /\ Len(w) = DataBits /\ Parity(w) \in Bit
  BY Word8
<1>2. /\ WordBits(w) \in Seq(Bit) /\ Len(WordBits(w)) = DataBits + 1
      /\ \A i \in 1 .. DataBits : WordBits(w)[i] = w[i]
      /\ WordBits(w)[DataBits + 1] = Parity(w)
  BY <1>1, AppendProperties DEF WordBits
<1>3. Parity(WordBits(w)) = IF Parity(w) = 0 THEN Parity(w) ELSE 1 - Parity(w)
  BY <1>1, ParityAppend DEF WordBits
<1> QED
  BY <1>1, <1>2, <1>3 DEF Bit

\* What follows the start bit of a request: its bits, its parity, stop and park.
LEMMA PacketSent ==
    ASSUME NEW r \in Requests
    PROVE  /\ PacketBits(r) \in Seq(Bit) /\ Len(PacketBits(r)) = 7
           /\ \A i \in 1 .. 4 : PacketBits(r)[i] = r[i]
           /\ PacketBits(r)[5] = Parity(r) /\ PacketBits(r)[6] = 0 /\ PacketBits(r)[7] = 1
<1> DEFINE e == <<Parity(r), 0, 1>>
<1>1. r \in Seq(Bit) /\ Len(r) = 4 /\ Parity(r) \in Bit
  BY Request4
<1>2. e \in Seq(Bit) /\ Len(e) = 3 /\ e[1] = Parity(r) /\ e[2] = 0 /\ e[3] = 1
  BY <1>1 DEF Bit
<1> HIDE DEF e
<1> DEFINE p == r \o e
<1>3. 3 \in Nat /\ 4 \in Nat
  OBVIOUS
<1>3a. Joined(Bit, p, r, 4, e, 3)
  BY <1>1, <1>2, <1>3, Catenated
<1>5. /\ p \in Seq(Bit) /\ Len(p) = 4 + 3 /\ \A i \in 1 .. 4 : p[i] = r[i]
      /\ \A i \in 1 .. 3 : p[4 + i] = e[i]
  BY <1>3a DEF Joined
<1>4. p = PacketBits(r)
  BY DEF PacketBits, e
<1> HIDE DEF p
<1>6. Len(p) = 7 /\ p[5] = e[1] /\ p[6] = e[2] /\ p[7] = e[3]
  BY <1>5
<1> QED
  BY <1>2, <1>4, <1>5, <1>6

\* The acknowledges: one wrong bit makes none of them out of another.
LEMMA Acks ==
    /\ AckOf["OK"] = <<1, 0, 0>> /\ AckOf["WAIT"] = <<0, 1, 0>> /\ AckOf["FAULT"] = <<0, 0, 1>>
    /\ \A a \in {"OK", "WAIT", "FAULT"} :
         /\ AckOf[a] \in Seq(Bit) /\ Len(AckOf[a]) = 3
         /\ AckOf[a][1] = (IF a = "OK" THEN 1 ELSE 0)
         /\ AckOf[a][2] = (IF a = "WAIT" THEN 1 ELSE 0)
         /\ AckOf[a][3] = (IF a = "FAULT" THEN 1 ELSE 0)
  BY DEF AckOf, Bit

\* Nothing is a sequence of bits.
LEMMA NoBits == <<>> \in Seq(Bit) /\ Len(<<>>) = 0
  BY EmptySeq

\* The assumption on the constants, one conjunct each.
LEMMA Limits ==
    /\ DataBits \in Nat /\ DataBits >= 8 /\ ResetSeen \in Nat /\ ResetSent \in Nat
    /\ ResetSeen > DataBits + 17 /\ ResetSent >= ResetSeen /\ MaxFlips \in {0, 1}
  BY LineAssumption

\* The fields of the target and their types.
LEMMA Fields ==
    ASSUME TargetOK
    PROVE  /\ target \in TargetType /\ target.phase \in Phases /\ target.bits \in Seq(Bit)
           /\ Len(target.bits) \in Nat /\ target.ones \in 0 .. ResetSeen /\ target.ones \in Nat
           /\ target.request \in Requests /\ target.said \in {"OK", "WAIT", "FAULT"}
           /\ target.sent \in [1 .. DataBits -> Bit] /\ target.fresh \in BOOLEAN
<1>1. target \in TargetType
  BY DEF TargetOK
<1>2. /\ target.phase \in Phases /\ target.bits \in Seq(Bit)
      /\ target.ones \in 0 .. ResetSeen
      /\ target.request \in Requests /\ target.said \in {"OK", "WAIT", "FAULT"}
      /\ target.sent \in [1 .. DataBits -> Bit] /\ target.fresh \in BOOLEAN
  BY <1>1 DEF TargetType
<1> QED
  BY <1>1, <1>2, Limits

\* What the target says after a request.
LEMMA SpokenIs ==
    ASSUME TargetOK
    PROVE  /\ Spoken \in Seq(Bit)
           /\ Len(Spoken) = IF target.said = "OK" /\ IsRead(target.request) THEN DataBits + 4 ELSE 3
           /\ \A i \in 1 .. 3 : Spoken[i] = AckOf[target.said][i]
           /\ target.said = "OK" /\ IsRead(target.request) =>
                \A i \in 1 .. DataBits + 1 : Spoken[i + 3] = WordBits(target.sent)[i]
<1>1. target.said \in {"OK", "WAIT", "FAULT"} /\ target.sent \in [1 .. DataBits -> Bit]
  BY Fields
<1> DEFINE a == AckOf[target.said]
           w == WordBits(target.sent)
<1>2. a \in Seq(Bit) /\ Len(a) = 3
  BY <1>1, Acks
<1>3. w \in Seq(Bit) /\ Len(w) = DataBits + 1
  BY <1>1, WordSent
<1> HIDE DEF a, w
<1>4. CASE ~(target.said = "OK" /\ IsRead(target.request))
  <2>1. Spoken = a
    BY <1>4 DEF Spoken, a
  <2> QED
    BY <1>2, <1>4, <2>1 DEF a
<1>5. CASE target.said = "OK" /\ IsRead(target.request)
  <2>1. Spoken = a \o w
    BY <1>5 DEF Spoken, a, w
  <2>2. 3 \in Nat /\ DataBits + 1 \in Nat /\ DataBits \in Nat
    BY LineAssumption
  <2>3. Joined(Bit, a \o w, a, 3, w, DataBits + 1)
    BY <1>2, <1>3, <2>2, Catenated
  <2> DEFINE s == Spoken
  <2>4. /\ s \in Seq(Bit) /\ Len(s) = 3 + (DataBits + 1)
        /\ \A i \in 1 .. 3 : s[i] = a[i]
        /\ \A i \in 1 .. DataBits + 1 : s[3 + i] = w[i]
    BY <2>1, <2>3 DEF Joined
  <2> HIDE DEF s
  <2>5. Len(s) = DataBits + 4 /\ \A i \in 1 .. DataBits + 1 : s[i + 3] = w[i]
    BY <2>2, <2>4
  <2> QED
    BY <1>5, <2>4, <2>5 DEF s, a, w
<1> QED
  BY <1>4, <1>5

\* A prefix agrees with the whole, place by place.
LEMMA PrefixElements ==
    ASSUME NEW S, NEW s \in Seq(S), NEW t \in Seq(S)
    PROVE  IsPrefix(s, t) <=> Len(s) <= Len(t) /\ \A i \in 1 .. Len(s) : s[i] = t[i]
<1> DEFINE l == Len(s)
           m == Len(t)
<1>1. l \in Nat /\ m \in Nat /\ 1 \in Int /\ l \in Int
  OBVIOUS
<1> HIDE DEF l, m
<1>2. SUFFICES ASSUME l <= m
               PROVE  SubSeq(s, 1, l) = SubSeq(t, 1, l) <=> \A i \in 1 .. l : s[i] = t[i]
  BY DEF IsPrefix, l, m
<1>3. \A i \in 1 .. l : i \in 1 .. Len(s) /\ i \in 1 .. Len(t)
  BY <1>1, <1>2 DEF l, m
<1>4. \A i \in 1 .. l : s[i] \in S /\ t[i] \in S
  BY <1>3, ElementOfSeq
<1> DEFINE p == SubSeq(s, 1, l)
           q == SubSeq(t, 1, l)
<1>5. p \in Seq(S) /\ Len(p) = (IF 1 <= l THEN l - 1 + 1 ELSE 0) /\ \A i \in 1 .. l - 1 + 1 : p[i] = s[1 + i - 1]
  BY <1>1, <1>4, SubSeqProperties
<1>6. q \in Seq(S) /\ Len(q) = (IF 1 <= l THEN l - 1 + 1 ELSE 0) /\ \A i \in 1 .. l - 1 + 1 : q[i] = t[1 + i - 1]
  BY <1>1, <1>4, SubSeqProperties
<1> HIDE DEF p, q
<1>7. Len(p) = l /\ \A i \in 1 .. l : p[i] = s[i]
  BY <1>1, <1>5
<1>8. Len(q) = l /\ \A i \in 1 .. l : q[i] = t[i]
  BY <1>1, <1>6
<1>9. ASSUME \A i \in 1 .. l : s[i] = t[i] PROVE p = q
  BY <1>5, <1>6, <1>7, <1>8, <1>9, SeqEqual
<1>10. ASSUME p = q PROVE \A i \in 1 .. l : s[i] = t[i]
  BY <1>7, <1>8, <1>10
<1> QED
  BY <1>9, <1>10 DEF p, q

-----------------------------------------------------------------------------
(***************************************************************************)
(* The cycles of the host, place by place.                                 *)
(***************************************************************************)
LEMMA Cycles ==
    /\ \A b \in Bit : /\ Out(b) \in Cycle /\ Out(b).drives = TRUE /\ Out(b).bit = b
                      /\ Out(b).samples = FALSE
    /\ Turn \in Cycle /\ Turn.drives = FALSE /\ Turn.samples = FALSE
    /\ In \in Cycle /\ In.drives = FALSE /\ In.samples = TRUE
  BY DEF Out, Turn, In, Cycle, Bit

\* The cycles that send bits.
LEMMA SendsAre ==
    ASSUME NEW s \in Seq(Bit)
    PROVE  /\ Sends(s) \in Seq(Cycle) /\ Len(Sends(s)) = Len(s)
           /\ \A i \in 1 .. Len(s) : Sends(s)[i] = Out(s[i])
<1>1. Len(s) \in Nat /\ DOMAIN s = 1 .. Len(s) /\ \A i \in 1 .. Len(s) : s[i] \in Bit
  BY LenProperties
<1>2. \A i \in 1 .. Len(s) : Out(s[i]) \in Cycle
  BY <1>1, Cycles
<1>3. Sends(s) \in [1 .. Len(s) -> Cycle] /\ \A i \in 1 .. Len(s) : Sends(s)[i] = Out(s[i])
  BY <1>1, <1>2 DEF Sends
<1> QED
  BY <1>1, <1>3, FunctionIsSeq

\* A cycle repeated.
LEMMA TimesAre ==
    ASSUME NEW k \in Nat, NEW c \in Cycle
    PROVE  /\ Times(k, c) \in Seq(Cycle) /\ Len(Times(k, c)) = k
           /\ \A i \in 1 .. k : Times(k, c)[i] = c
<1>1. Times(k, c) \in [1 .. k -> Cycle] /\ \A i \in 1 .. k : Times(k, c)[i] = c
  BY DEF Times
<1> QED
  BY <1>1, FunctionIsSeq

\* The request: start, four bits, parity, stop, park, turnaround, acknowledge.
LEMMA RequestPlan ==
    ASSUME NEW r \in Requests
    PROVE  /\ RequestCycles(r) \in Seq(Cycle) /\ Len(RequestCycles(r)) = 12
           /\ \A i \in 1 .. 12 : RequestCycles(r)[i] = RequestLeft(r, 13 - i)
<1> DEFINE s == <<Out(1)>>
           t == Sends(r)
           u == <<Out(Parity(r)), Out(0), Out(1), Turn, In, In, In>>
           st == s \o t
           all == st \o u
<1>1. r \in Seq(Bit) /\ Len(r) = 4 /\ Parity(r) \in Bit
  BY Request4
<1>2. t \in Seq(Cycle) /\ Len(t) = 4 /\ \A i \in 1 .. 4 : t[i] = Out(r[i])
  BY <1>1, SendsAre
<1>3. s \in Seq(Cycle) /\ Len(s) = 1 /\ s[1] = Out(1)
  BY Cycles DEF Bit
<1>4. Out(Parity(r)) \in Cycle /\ Out(0) \in Cycle /\ Out(1) \in Cycle /\ Turn \in Cycle /\ In \in Cycle
  BY <1>1, Cycles DEF Bit
<1>5. u \in Seq(Cycle) /\ Len(u) = 7
      /\ u[1] = Out(Parity(r)) /\ u[2] = Out(0) /\ u[3] = Out(1) /\ u[4] = Turn
      /\ u[5] = In /\ u[6] = In /\ u[7] = In
  BY <1>4
<1>6. RequestCycles(r) = all
  BY DEF RequestCycles
<1> HIDE DEF s, t, u
<1>0. 1 \in Nat /\ 4 \in Nat /\ 5 \in Nat /\ 7 \in Nat
  OBVIOUS
<1>a. Joined(Cycle, st, s, 1, t, 4)
  BY <1>0, <1>2, <1>3, Catenated
<1> HIDE DEF st
<1>7. Len(st) = 5 /\ st[1] = s[1] /\ st[2] = t[1] /\ st[3] = t[2] /\ st[4] = t[3] /\ st[5] = t[4]
      /\ st \in Seq(Cycle)
  BY <1>a DEF Joined
<1>b. Joined(Cycle, all, st, 5, u, 7)
  BY <1>0, <1>5, <1>7, Catenated
<1> HIDE DEF all
<1>8. /\ Len(all) = 12 /\ all[1] = st[1] /\ all[2] = st[2] /\ all[3] = st[3] /\ all[4] = st[4]
      /\ all[5] = st[5] /\ all[6] = u[1] /\ all[7] = u[2] /\ all[8] = u[3] /\ all[9] = u[4]
      /\ all[10] = u[5] /\ all[11] = u[6] /\ all[12] = u[7]
      /\ all \in Seq(Cycle)
  BY <1>b DEF Joined
<1> HIDE DEF all
<1>9. /\ all[1] = Out(1) /\ all[2] = Out(r[1]) /\ all[3] = Out(r[2]) /\ all[4] = Out(r[3])
      /\ all[5] = Out(r[4]) /\ all[6] = Out(Parity(r)) /\ all[7] = Out(0) /\ all[8] = Out(1)
      /\ all[9] = Turn /\ all[10] = In /\ all[11] = In /\ all[12] = In
  BY <1>2, <1>3, <1>5, <1>7, <1>8
<1>10. /\ RequestLeft(r, 12) = Out(1) /\ RequestLeft(r, 11) = Out(r[1]) /\ RequestLeft(r, 10) = Out(r[2])
       /\ RequestLeft(r, 9) = Out(r[3]) /\ RequestLeft(r, 8) = Out(r[4])
       /\ RequestLeft(r, 7) = Out(Parity(r)) /\ RequestLeft(r, 6) = Out(0) /\ RequestLeft(r, 5) = Out(1)
       /\ RequestLeft(r, 4) = Turn /\ RequestLeft(r, 3) = In /\ RequestLeft(r, 2) = In
       /\ RequestLeft(r, 1) = In
  BY DEF RequestLeft
<1>11. ASSUME NEW i \in 1 .. 12 PROVE all[i] = RequestLeft(r, 13 - i)
  <2>1. i \in {1, 2, 3, 4, 5, 6, 7, 8, 9, 10, 11, 12}
    OBVIOUS
  <2> HIDE DEF RequestLeft
  <2> QED
    BY <1>9, <1>10, <2>1
<1> QED
  BY <1>6, <1>8, <1>11

\* The data of a read and of a write, and of a back-off.
LEMMA ReadPlan ==
    /\ ReadCycles \in Seq(Cycle) /\ Len(ReadCycles) = DataBits + 2
    /\ \A i \in 1 .. DataBits + 2 : ReadCycles[i] = ReadLeft(DataBits + 3 - i)
<1> DEFINE s == Times(DataBits + 1, In)
           u == <<Turn>>
           all == s \o u
<1>0. 1 \in Nat
  OBVIOUS
<1>1. DataBits + 1 \in Nat /\ DataBits \in Nat
  BY LineAssumption
<1>2. s \in Seq(Cycle) /\ Len(s) = DataBits + 1 /\ \A i \in 1 .. DataBits + 1 : s[i] = In
  BY <1>1, TimesAre, Cycles
<1>3. u \in Seq(Cycle) /\ Len(u) = 1 /\ u[1] = Turn
  BY Cycles
<1>4. ReadCycles = all
  BY DEF ReadCycles
<1> HIDE DEF s, u
<1>5a. Joined(Cycle, all, s, DataBits + 1, u, 1)
  BY <1>0, <1>1, <1>2, <1>3, Catenated
<1> HIDE DEF all
<1>5. /\ all \in Seq(Cycle) /\ Len(all) = (DataBits + 1) + 1
      /\ \A i \in 1 .. DataBits + 1 : all[i] = s[i]
      /\ \A i \in 1 .. 1 : all[(DataBits + 1) + i] = u[i]
  BY <1>5a DEF Joined
<1>6. ASSUME NEW i \in 1 .. DataBits + 2 PROVE all[i] = ReadLeft(DataBits + 3 - i)
  <2>1. CASE i <= DataBits + 1
    <3>1. all[i] = In /\ DataBits + 3 - i # 1
      BY <1>1, <1>2, <1>5, <2>1
    <3> QED
      BY <3>1 DEF ReadLeft
  <2>2. CASE i = DataBits + 2
    <3>1. i = (DataBits + 1) + 1 /\ DataBits + 3 - i = 1
      BY <1>1, <2>2
    <3>2. all[i] = Turn
      BY <1>1, <1>3, <1>5, <2>2, <3>1
    <3> QED
      BY <3>1, <3>2 DEF ReadLeft
  <2> QED
    BY <1>1, <2>1, <2>2
<1> QED
  BY <1>1, <1>4, <1>5, <1>6

\* The cycles of the data phase of a write: the line turns, the word and its parity.
LEMMA WritePlan ==
    ASSUME NEW w \in [1 .. DataBits -> Bit]
    PROVE  /\ WriteCycles(w) \in Seq(Cycle) /\ Len(WriteCycles(w)) = DataBits + 2
           /\ \A i \in 1 .. DataBits + 2 : WriteCycles(w)[i] = WriteLeft(w, DataBits + 3 - i)
<1> DEFINE s == <<Turn>>
           t == Sends(w)
           u == <<Out(Parity(w))>>
           st == s \o t
           all == st \o u
<1>1. DataBits \in Nat /\ w \in Seq(Bit) /\ Len(w) = DataBits /\ Parity(w) \in Bit
  BY LineAssumption, Word8
<1>2. t \in Seq(Cycle) /\ Len(t) = DataBits /\ \A i \in 1 .. DataBits : t[i] = Out(w[i])
  BY <1>1, SendsAre
<1>3. s \in Seq(Cycle) /\ Len(s) = 1 /\ s[1] = Turn
  BY Cycles
<1>4. u \in Seq(Cycle) /\ Len(u) = 1 /\ u[1] = Out(Parity(w))
  BY <1>1, Cycles
<1>5. WriteCycles(w) = all
  BY DEF WriteCycles
<1> HIDE DEF s, t, u
<1>0. 1 \in Nat /\ 1 + DataBits \in Nat
  BY LineAssumption
<1>6a. Joined(Cycle, st, s, 1, t, DataBits)
  BY <1>0, <1>1, <1>2, <1>3, Catenated
<1> HIDE DEF st
<1>6. /\ st \in Seq(Cycle) /\ Len(st) = 1 + DataBits
      /\ \A i \in 1 .. 1 : st[i] = s[i]
      /\ \A i \in 1 .. DataBits : st[1 + i] = t[i]
  BY <1>6a DEF Joined
<1>7a. Joined(Cycle, all, st, 1 + DataBits, u, 1)
  BY <1>0, <1>4, <1>6, Catenated
<1> HIDE DEF all
<1>7. /\ all \in Seq(Cycle) /\ Len(all) = (1 + DataBits) + 1
      /\ \A i \in 1 .. 1 + DataBits : all[i] = st[i]
      /\ \A i \in 1 .. 1 : all[(1 + DataBits) + i] = u[i]
  BY <1>7a DEF Joined
<1>8. ASSUME NEW i \in 1 .. DataBits + 2 PROVE all[i] = WriteLeft(w, DataBits + 3 - i)
  <2>1. CASE i = 1
    <3>1. all[i] = Turn /\ DataBits + 3 - i = DataBits + 2
      BY <1>1, <1>3, <1>6, <1>7, <2>1
    <3> QED
      BY <3>1 DEF WriteLeft
  <2>2. CASE i \in 2 .. DataBits + 1
    <3> DEFINE j == i - 1
    <3>1. j \in 1 .. DataBits /\ DataBits + 2 - (DataBits + 3 - i) = j
      BY <1>1, <2>2
    <3>2. i \in 1 .. 1 + DataBits /\ i = 1 + j
      BY <1>1, <2>2
    <3>3. all[i] = Out(w[j])
      BY <1>2, <1>6, <1>7, <3>1, <3>2
    <3>4. DataBits + 3 - i # DataBits + 2 /\ DataBits + 3 - i # 1
      BY <1>1, <2>2
    <3> HIDE DEF j
    <3> QED
      BY <3>1, <3>3, <3>4 DEF WriteLeft
  <2>3. CASE i = DataBits + 2
    <3>1. i = (1 + DataBits) + 1 /\ DataBits + 3 - i = 1 /\ 1 # DataBits + 2
      BY <1>1, <2>3, LineAssumption
    <3>2. all[i] = Out(Parity(w))
      BY <1>1, <1>4, <1>7, <2>3, <3>1
    <3> QED
      BY <3>1, <3>2 DEF WriteLeft
  <2> QED
    BY <1>1, <2>1, <2>2, <2>3
<1> QED
  BY <1>1, <1>5, <1>7, <1>8

\* The cycles of swj_back_off: nobody drives.
LEMMA BackOffPlan ==
    /\ BackOff \in Seq(Cycle) /\ Len(BackOff) = DataBits + 2
    /\ \A i \in 1 .. DataBits + 2 : BackOff[i] = Turn
<1>1. DataBits + 2 \in Nat
  BY LineAssumption
<1> QED
  BY <1>1, TimesAre, Cycles DEF BackOff

\* The first bits of the switch sequence, where a confused target may read a start.
LEMMA SwitchIs ==
    /\ SwitchBits \in Seq(Bit) /\ Len(SwitchBits) = 16
    /\ SwitchBits[1] = 0 /\ SwitchBits[2] = 1 /\ SwitchBits[7] = 0 /\ SwitchBits[8] = 1
    /\ \A i \in 1 .. 16 : SwitchBits[i] \in Bit
<1>1. SwitchBits \in Seq(Bit) /\ Len(SwitchBits) = 16
  BY DEF SwitchBits, Bit
<1>2. \A i \in 1 .. 16 : SwitchBits[i] \in Bit
  BY <1>1, ElementOfSeq
<1> QED
  BY <1>1, <1>2 DEF SwitchBits

\* The sequences: a reset, the switch from JTAG, a reset, eight idle cycles.
LEMMA SequencePlan ==
    ASSUME NEW edge \in 0 .. 1
    PROVE  LET all == Times(edge, Out(1)) \o JtagToSwd IN
           /\ all \in Seq(Cycle) /\ Len(all) = edge + 2 * ResetSent + 24
           /\ \A i \in 1 .. Len(all) : all[i] = SequenceLeft(Len(all) + 1 - i)
<1> DEFINE e == Times(edge, Out(1))
           s == Reset
           t == Sends(SwitchBits)
           u == Times(8, Out(0))
           R == ResetSent
           st == s \o t
           sts == st \o s
           j == sts \o u
           all == e \o j
<1>1. /\ R \in Nat /\ edge \in Nat /\ 16 \in Nat /\ 8 \in Nat /\ R + 16 \in Nat
      /\ (R + 16) + R \in Nat /\ ((R + 16) + R) + 8 \in Nat
  BY LineAssumption
<1>2. Out(0) \in Cycle /\ Out(1) \in Cycle
  BY Cycles DEF Bit
<1>3. e \in Seq(Cycle) /\ Len(e) = edge /\ \A i \in 1 .. edge : e[i] = Out(1)
  BY <1>1, <1>2, TimesAre
<1>4. s \in Seq(Cycle) /\ Len(s) = R /\ \A i \in 1 .. R : s[i] = Out(1)
  BY <1>1, <1>2, TimesAre DEF Reset
<1>5. t \in Seq(Cycle) /\ Len(t) = 16 /\ \A i \in 1 .. 16 : t[i] = Out(SwitchBits[i])
  BY SwitchIs, SendsAre
<1>6. u \in Seq(Cycle) /\ Len(u) = 8 /\ \A i \in 1 .. 8 : u[i] = Out(0)
  BY <1>1, <1>2, TimesAre
<1>7. JtagToSwd = j
  BY DEF JtagToSwd
<1> HIDE DEF e, s, t, u, R
<1>8. Joined(Cycle, st, s, R, t, 16)
  BY <1>1, <1>4, <1>5, Catenated
<1> HIDE DEF st
<1>8a. st \in Seq(Cycle) /\ Len(st) = R + 16
  BY <1>8 DEF Joined
<1>9. Joined(Cycle, sts, st, R + 16, s, R)
  BY <1>1, <1>4, <1>8a, Catenated
<1> HIDE DEF sts
<1>9a. sts \in Seq(Cycle) /\ Len(sts) = (R + 16) + R
  BY <1>9 DEF Joined
<1>10. Joined(Cycle, j, sts, (R + 16) + R, u, 8)
  BY <1>1, <1>6, <1>9a, Catenated
<1> HIDE DEF j
<1>10a. j \in Seq(Cycle) /\ Len(j) = ((R + 16) + R) + 8
  BY <1>10 DEF Joined
<1>11. Joined(Cycle, all, e, edge, j, ((R + 16) + R) + 8)
  BY <1>1, <1>3, <1>10a, Catenated
<1> HIDE DEF all
<1> DEFINE L == Len(all)
<1>12. all \in Seq(Cycle) /\ L = edge + 2 * R + 24
  BY <1>1, <1>11 DEF Joined
<1> HIDE DEF L
<1>13. ASSUME NEW i \in 1 .. L PROVE all[i] = SequenceLeft(L + 1 - i)
  <2>1. i \in Int /\ L \in Nat
    BY <1>1, <1>12
  <2>2. CASE i <= edge
    <3>1. i \in 1 .. edge
      BY <2>1, <2>2
    <3>2. all[i] = Out(1)
      BY <3>1, <1>3, <1>11 DEF Joined
    <3>3. L + 1 - i > 24 + R
      BY <1>1, <1>12, <2>1, <2>2
    <3> QED
      BY <1>1, <3>2, <3>3, <2>1 DEF SequenceLeft, R
  <2>3. CASE i > edge /\ i <= edge + R
    <3> DEFINE q == i - edge
    <3>1. q \in 1 .. R /\ i = edge + q /\ q \in 1 .. R + 16 /\ q \in 1 .. (R + 16) + R
          /\ q \in 1 .. ((R + 16) + R) + 8
      BY <1>1, <2>1, <2>3
    <3> HIDE DEF q
    <3>2. all[i] = j[q] /\ j[q] = sts[q] /\ sts[q] = st[q] /\ st[q] = s[q]
      BY <3>1, <1>8, <1>9, <1>10, <1>11 DEF Joined
    <3>3. all[i] = Out(1)
      BY <3>1, <3>2, <1>4
    <3>4. L + 1 - i > 24 + R
      BY <1>1, <1>12, <2>1, <2>3
    <3> QED
      BY <1>1, <3>3, <3>4, <2>1 DEF SequenceLeft, R
  <2>4. CASE i > edge + R /\ i <= edge + R + 16
    <3> DEFINE q == i - edge
               p == i - (edge + R)
    <3>1. /\ p \in 1 .. 16 /\ i = edge + q /\ q = R + p /\ q \in 1 .. R + 16 /\ q \in 1 .. (R + 16) + R
          /\ q \in 1 .. ((R + 16) + R) + 8
      BY <1>1, <2>1, <2>4
    <3>2. 25 + R - (L + 1 - i) = p /\ ~(L + 1 - i <= 8 + R) /\ ~(L + 1 - i <= 8) /\ L + 1 - i <= 24 + R
      BY <1>1, <1>12, <2>1, <2>4
    <3> HIDE DEF q, p
    <3>3. all[i] = j[q] /\ j[q] = sts[q] /\ sts[q] = st[q] /\ st[q] = t[p]
      BY <3>1, <1>8, <1>9, <1>10, <1>11 DEF Joined
    <3>4. all[i] = Out(SwitchBits[p])
      BY <3>1, <3>3, <1>5
    <3> QED
      BY <3>2, <3>4 DEF SequenceLeft, R
  <2>5. CASE i > edge + R + 16 /\ i <= edge + R + 16 + R
    <3> DEFINE q == i - edge
               p == i - (edge + R + 16)
    <3>1. /\ p \in 1 .. R /\ i = edge + q /\ q = (R + 16) + p /\ q \in 1 .. (R + 16) + R
          /\ q \in 1 .. ((R + 16) + R) + 8
      BY <1>1, <2>1, <2>5
    <3>2. ~(L + 1 - i <= 8) /\ L + 1 - i <= 8 + R
      BY <1>1, <1>12, <2>1, <2>5
    <3> HIDE DEF q, p
    <3>3. all[i] = j[q] /\ j[q] = sts[q] /\ sts[q] = s[p]
      BY <3>1, <1>9, <1>10, <1>11 DEF Joined
    <3>4. all[i] = Out(1)
      BY <3>1, <3>3, <1>4
    <3> QED
      BY <3>2, <3>4 DEF SequenceLeft, R
  <2>6. CASE i > edge + R + 16 + R
    <3> DEFINE q == i - edge
               p == i - (edge + R + 16 + R)
    <3>1. /\ p \in 1 .. 8 /\ i = edge + q /\ q = ((R + 16) + R) + p
          /\ q \in 1 .. ((R + 16) + R) + 8
      BY <1>1, <1>12, <2>1, <2>6
    <3>2. L + 1 - i <= 8
      BY <1>1, <1>12, <2>1, <2>6
    <3> HIDE DEF q, p
    <3>3. all[i] = j[q] /\ j[q] = u[p]
      BY <3>1, <1>10, <1>11 DEF Joined
    <3>4. all[i] = Out(0)
      BY <3>1, <3>3, <1>6
    <3> QED
      BY <3>2, <3>4 DEF SequenceLeft
  <2> QED
    BY <1>1, <2>1, <2>2, <2>3, <2>4, <2>5, <2>6
<1>14. all = Times(edge, Out(1)) \o JtagToSwd
  BY <1>7 DEF all, e
<1> QED
  BY <1>12, <1>13, <1>14 DEF L, R

-----------------------------------------------------------------------------
(***************************************************************************)
(* One cycle: what is on the line, and what the edge does in each phase.   *)
(***************************************************************************)
LEMMA Tick ==
    ASSUME HostOK, Clock
    PROVE  /\ ToGo \in Nat /\ ToGo >= 1 /\ ToGo' = ToGo - 1 /\ todo' \in Seq(Cycle)
           /\ \A i \in 1 .. ToGo' : todo'[i] = todo[i + 1]
           /\ todo[1] = Head(todo) /\ todo[1] \in Cycle
           /\ status = "running" /\ UNCHANGED <<stage, call, status, synced>>
<1>1. todo \in Seq(Cycle) /\ todo # <<>> /\ todo' = Tail(todo)
  BY DEF HostOK, Clock
<1>2. /\ Head(todo) = todo[1] /\ Head(todo) \in Cycle /\ Tail(todo) \in Seq(Cycle)
      /\ Len(Tail(todo)) = Len(todo) - 1 /\ Len(todo) \in Nat /\ Len(todo) >= 1
      /\ \A i \in 1 .. Len(Tail(todo)) : Tail(todo)[i] = todo[i + 1]
  BY <1>1, HeadTailProperties
<1> QED
  BY <1>1, <1>2 DEF ToGo, Clock

\* What is on the line if one side drives it at most, and how it comes.
Wire == IF todo[1].drives THEN todo[1].bit ELSE IF target.phase = "speak" THEN target.bits[1] ELSE 1
Comes(v, b) == (b = v /\ flips' = flips) \/ (b = 1 - v /\ flips = 0 /\ flips' = 1)

\* A cycle brings the target one bit, and the host, when it samples, the same one; before
\* the end of the sequence no bit is wrong.
LEMMA ClockBit ==
    ASSUME HostOK, TargetOK, Clock
    PROVE  /\ flips' \in 0 .. MaxFlips
           /\ \E b \in Bit :
                /\ Edge(b)
                /\ heard' = IF todo[1].samples THEN Append(heard, b) ELSE heard
                /\ ~(todo[1].drives /\ Drives) => Comes(Wire, b)
                /\ ~synced => flips' = flips
<1> DEFINE c == Head(todo)
<1>1. c = todo[1] /\ todo[1] \in Cycle
  BY Tick
<1>2. PICK line \in OnLine(c), flip \in Bit :
        /\ flips + flip <= MaxFlips /\ (flip = 1 => synced)
        /\ flips' = flips + flip
        /\ LET b == IF flip = 1 THEN 1 - line ELSE line IN
             /\ heard' = IF c.samples THEN Append(heard, b) ELSE heard
             /\ Edge(b)
  BY DEF Clock
<1> DEFINE b == IF flip = 1 THEN 1 - line ELSE line
<1> HIDE DEF c
<1>3. target.phase = "speak" => Head(target.bits) = target.bits[1] /\ target.bits[1] \in Bit
  <2> SUFFICES ASSUME target.phase = "speak"
               PROVE  Head(target.bits) = target.bits[1] /\ target.bits[1] \in Bit
    OBVIOUS
  <2>1. target.bits \in Seq(Bit) /\ Len(target.bits) >= 1 /\ Len(target.bits) \in Nat
    BY Fields, SpokenIs DEF TargetOK
  <2>2. target.bits # <<>> /\ 1 \in 1 .. Len(target.bits)
    BY <2>1, NoBits
  <2> QED
    BY <2>1, <2>2, ElementOfSeq
<1>4. c.drives \in BOOLEAN /\ c.bit \in Bit
  BY <1>1 DEF Cycle
<1>5. line \in Bit /\ (~(c.drives /\ Drives) => line = Wire)
  BY <1>1, <1>3, <1>4 DEF OnLine, Drives, Wire, Bit
<1>6. flips \in 0 .. MaxFlips /\ MaxFlips \in {0, 1}
  BY LineAssumption DEF HostOK
<1>7. b \in Bit /\ flips' \in 0 .. MaxFlips
  BY <1>2, <1>5, <1>6 DEF Bit
<1>8. CASE flip = 0
  <2>1. flips' = flips /\ b = line
    BY <1>2, <1>6, <1>8
  <2> QED
    BY <1>1, <1>2, <1>5, <1>7, <2>1 DEF Comes
<1>9. CASE flip = 1
  <2>1. flips' = 1 /\ flips = 0 /\ synced /\ b = 1 - line
    BY <1>2, <1>6, <1>9
  <2> QED
    BY <1>1, <1>2, <1>5, <1>7, <2>1 DEF Comes
<1> QED
  BY <1>8, <1>9 DEF Bit

\* What stays as it is.
Remembers == target'.request = target.request /\ target'.said = target.said /\ target'.sent = target.sent

\* The record of the target with other bits, in another phase.
LEMMA Moves ==
    ASSUME TargetOK, NEW p \in Phases, NEW s \in Seq(Bit),
           target' = [target EXCEPT !.phase = p, !.bits = s]
    PROVE  /\ target' \in TargetType /\ target'.phase = p /\ target'.bits = s /\ Remembers
           /\ target'.ones = target.ones /\ target'.fresh = target.fresh
<1>1. target \in TargetType
  BY Fields
<1> QED
  BY <1>1 DEF TargetType, Remembers

\* The target keeps a bit and is otherwise as it was.
LEMMA Collects ==
    ASSUME TargetOK, NEW s \in Seq(Bit), target' = [target EXCEPT !.bits = s]
    PROVE  /\ target' \in TargetType /\ target'.phase = target.phase /\ target'.bits = s /\ Remembers
           /\ target'.ones = target.ones /\ target'.fresh = target.fresh
<1>1. target \in TargetType
  BY Fields
<1> QED
  BY <1>1 DEF TargetType, Remembers

\* The target has the line: it picks its answer, and a read that it grants is done.
LEMMA EdgeTurn ==
    ASSUME TargetOK, target.phase = "turn", NEW b \in Bit, Edge(b)
    PROVE  /\ TargetOK' /\ target'.phase = "speak" /\ target'.ones = 0 /\ bad' = bad
           /\ target'.request = target.request /\ target'.bits = Spoken'
           /\ Len(Spoken') = IF target'.said = "OK" /\ IsRead(target.request) THEN DataBits + 4 ELSE 3
           /\ target.request = IdCode => target'.said = "OK"
           /\ IF target'.said = "OK" /\ IsRead(target.request)
                THEN /\ target'.sent \in Words /\ ~target'.fresh
                     /\ done' = Append(done, [request |-> target.request, word |-> <<>>])
                ELSE target'.fresh = target.fresh /\ done' = done
<1>1. Answer /\ bad' = bad
  BY DEF Edge
<1>2. 0 \in 0 .. ResetSeen /\ DataBits \in Nat /\ "speak" \in Phases /\ FALSE \in BOOLEAN
      /\ target.request \in Requests /\ target.sent \in [1 .. DataBits -> Bit] /\ target.fresh \in BOOLEAN
      /\ target \in TargetType
  BY Limits, Fields DEF Phases
<1>3. CASE IsRead(target.request) /\ \E w \in Words :
          target' = [target EXCEPT !.phase = "speak", !.said = "OK", !.sent = w, !.fresh = FALSE,
                                   !.ones = 0, !.bits = AckOf.OK \o Append(w, Parity(w))]
          /\ done' = Append(done, [request |-> target.request, word |-> <<>>])
  <2>1. PICK w \in Words :
          target' = [target EXCEPT !.phase = "speak", !.said = "OK", !.sent = w, !.fresh = FALSE,
                                   !.ones = 0, !.bits = AckOf.OK \o WordBits(w)]
    BY <1>3 DEF WordBits
  <2>2. w \in [1 .. DataBits -> Bit]
    BY LineAssumption DEF Bit
  <2>3. WordBits(w) \in Seq(Bit) /\ Len(WordBits(w)) = DataBits + 1
    BY <2>2, WordSent
  <2>4. AckOf.OK \in Seq(Bit) /\ Len(AckOf.OK) = 3
    BY Acks
  <2> DEFINE s == AckOf.OK \o WordBits(w)
  <2>a. 3 \in Nat /\ DataBits + 1 \in Nat
    BY <1>2
  <2>b. Joined(Bit, s, AckOf.OK, 3, WordBits(w), DataBits + 1)
    BY <2>3, <2>4, <2>a, Catenated
  <2> HIDE DEF s
  <2>5. s \in Seq(Bit) /\ Len(s) = 3 + (DataBits + 1)
    BY <2>b DEF Joined
  <2>6. target' = [target EXCEPT !.phase = "speak", !.said = "OK", !.sent = w, !.fresh = FALSE,
                                 !.ones = 0, !.bits = s]
    BY <2>1 DEF s
  <2>c. target' = [target EXCEPT !.phase = "speak", !.bits = s, !.ones = 0, !.request = target.request,
                                 !.said = "OK", !.sent = w, !.fresh = FALSE]
    BY <1>2, <2>6 DEF TargetType
  <2>7. /\ target' \in TargetType
        /\ target'.phase = "speak" /\ target'.said = "OK" /\ target'.sent = w /\ target'.fresh = FALSE
        /\ target'.ones = 0 /\ target'.bits = s /\ target'.request = target.request
    BY <1>2, <2>2, <2>5, <2>c DEF TargetType
  <2>8. Spoken' = s
    BY <2>7, <1>3 DEF Spoken, s
  <2>9. TargetOK'
    <3>2. Len(target'.bits) \in 1 .. Len(Spoken')
      BY <2>7, <2>8, <2>5, <1>2
    <3> QED
      BY <3>2, <2>7 DEF TargetOK
  <2>d. Len(Spoken') = DataBits + 4
    BY <1>2, <2>5, <2>8
  <2> QED
    BY <1>1, <1>3, <2>7, <2>8, <2>9, <2>d
<1>4. ASSUME NEW a \in {"OK", "WAIT", "FAULT"},
             target' = [target EXCEPT !.phase = "speak", !.said = a, !.ones = 0, !.bits = AckOf[a]],
             done' = done, a = "OK" => ~IsRead(target.request), target.request = IdCode => a = "OK"
      PROVE  /\ TargetOK' /\ target'.phase = "speak" /\ target'.ones = 0 /\ target'.bits = Spoken'
             /\ target'.request = target.request /\ (target.request = IdCode => target'.said = "OK")
             /\ ~(target'.said = "OK" /\ IsRead(target.request))
             /\ target'.fresh = target.fresh /\ done' = done /\ Len(Spoken') = 3
  <2>1. AckOf[a] \in Seq(Bit) /\ Len(AckOf[a]) = 3
    BY Acks
  <2> DEFINE s == AckOf[a]
  <2>2. s \in Seq(Bit) /\ Len(s) = 3 /\ s = AckOf[a]
    BY <2>1
  <2> HIDE DEF s
  <2>3. target' = [target EXCEPT !.phase = "speak", !.said = a, !.ones = 0, !.bits = s]
    BY <1>4, <2>2
  <2>a. target' = [target EXCEPT !.phase = "speak", !.bits = s, !.ones = 0, !.request = target.request,
                                 !.said = a, !.sent = target.sent, !.fresh = target.fresh]
    BY <1>2, <2>3 DEF TargetType
  <2>4. /\ target' \in TargetType
        /\ target'.phase = "speak" /\ target'.said = a /\ target'.fresh = target.fresh
        /\ target'.ones = 0 /\ target'.bits = s /\ target'.request = target.request
    BY <1>2, <1>4, <2>2, <2>a DEF TargetType
  <2>b. ~(target'.said = "OK" /\ IsRead(target'.request))
    BY <1>4, <2>4
  <2>5. Spoken' = s
    BY <2>2, <2>4, <2>b DEF Spoken
  <2>c. Len(target'.bits) = 3 /\ Len(Spoken') = 3
    BY <2>2, <2>4, <2>5, Zenon
  <2>7. Len(target'.bits) \in 1 .. Len(Spoken')
    BY <2>c
  <2>8. TargetOK'
    BY <2>4, <2>7 DEF TargetOK
  <2> QED
    BY <1>4, <2>4, <2>5, <2>8, <2>c
<1>5. IsRead(IdCode)
  BY DEF IsRead, IdCode
<1>6. CASE ~IsRead(target.request) /\ done' = done
           /\ target' = [target EXCEPT !.phase = "speak", !.said = "OK", !.ones = 0, !.bits = AckOf.OK]
  <2>1. target.request # IdCode
    BY <1>5, <1>6
  <2>2. "OK" \in {"OK", "WAIT", "FAULT"} /\ AckOf.OK = AckOf["OK"]
    OBVIOUS
  <2>3. target' = [target EXCEPT !.phase = "speak", !.said = "OK", !.ones = 0, !.bits = AckOf["OK"]]
    BY <1>6
  <2>4. /\ TargetOK' /\ target'.phase = "speak" /\ target'.ones = 0 /\ target'.bits = Spoken'
        /\ target'.request = target.request /\ (target.request = IdCode => target'.said = "OK")
        /\ ~(target'.said = "OK" /\ IsRead(target.request))
        /\ target'.fresh = target.fresh /\ done' = done /\ Len(Spoken') = 3
    BY <1>4, <1>6, <2>1, <2>2, <2>3
  <2> QED
    BY <1>1, <2>4
<1>7. CASE target.request # IdCode /\ done' = done /\ \E a \in {"WAIT", "FAULT"} :
          target' = [target EXCEPT !.phase = "speak", !.said = a, !.ones = 0, !.bits = AckOf[a]]
  BY <1>1, <1>4, <1>7
<1> QED
  BY <1>1, <1>3, <1>6, <1>7 DEF Answer

\* The turnaround after the answer; the line tells the target nothing.
LEMMA EdgeSpeak ==
    ASSUME TargetOK, target.phase = "speak", NEW b \in Bit, Edge(b)
    PROVE  /\ TargetOK' /\ done' = done /\ bad' = bad /\ Remembers
           /\ target'.ones = target.ones /\ target'.fresh = target.fresh
           /\ IF Len(target.bits) = 1 THEN target'.phase = "back"
              ELSE /\ target'.phase = "speak" /\ Len(target'.bits) = Len(target.bits) - 1
                   /\ \A i \in 1 .. Len(target'.bits) : target'.bits[i] = target.bits[i + 1]
<1>1. /\ target.bits \in Seq(Bit) /\ Len(target.bits) \in Nat /\ Len(target.bits) >= 1
      /\ Len(target.bits) <= Len(Spoken) /\ Len(Spoken) \in Nat
  BY Fields, SpokenIs, Limits DEF TargetOK
<1>2. /\ done' = done /\ bad' = bad
      /\ target' = IF Len(target.bits) > 1 THEN [target EXCEPT !.bits = Tail(@)] ELSE In_("back")
  BY DEF Edge
<1>3. CASE Len(target.bits) = 1
  <2>1. target' = [target EXCEPT !.phase = "back", !.bits = <<>>]
    BY <1>2, <1>3 DEF In_
  <2>2. "back" \in Phases /\ target \in TargetType
    BY Fields DEF Phases
  <2>3. /\ target' \in TargetType /\ target'.phase = "back" /\ Remembers
        /\ target'.ones = target.ones /\ target'.fresh = target.fresh
    BY <2>1, <2>2, NoBits, Moves
  <2>4. TargetOK'
    BY <2>3 DEF TargetOK
  <2> QED
    BY <1>2, <1>3, <2>3, <2>4
<1>4. CASE Len(target.bits) > 1
  <2> DEFINE s == Tail(target.bits)
  <2>1. /\ s \in Seq(Bit) /\ Len(s) = Len(target.bits) - 1
        /\ \A i \in 1 .. Len(s) : s[i] = target.bits[i + 1]
    BY <1>1, <1>4, HeadTailProperties
  <2> HIDE DEF s
  <2>2. target' = [target EXCEPT !.bits = s]
    BY <1>2, <1>4 DEF s
  <2>3. /\ target' \in TargetType /\ target'.phase = "speak" /\ target'.bits = s /\ Remembers
        /\ target'.ones = target.ones /\ target'.fresh = target.fresh
    BY <2>1, <2>2, Collects
  <2>4. Spoken' = Spoken
    BY <2>3 DEF Spoken, Remembers
  <2> DEFINE l == Len(target.bits)
             m == Len(Spoken)
  <2>5. l \in Nat /\ m \in Nat /\ l > 1 /\ l <= m /\ Len(target'.bits) = l - 1
    BY <1>1, <1>4, <2>1, <2>3
  <2> HIDE DEF l, m
  <2>6. Len(target'.bits) \in 1 .. m
    BY <2>5
  <2>a. Len(Spoken') = m
    BY <2>4 DEF m
  <2>b. Len(target'.bits) \in 1 .. Len(Spoken')
    BY <2>6, <2>a
  <2>7. TargetOK'
    BY <2>3, <2>b DEF TargetOK
  <2>8. l # 1
    BY <2>5
  <2>9. target'.bits = s
    BY <2>3
  <2>10. /\ Len(target'.bits) = Len(target.bits) - 1
         /\ \A i \in 1 .. Len(target'.bits) : target'.bits[i] = target.bits[i + 1]
    <3>1. /\ Len(s) = Len(target.bits) - 1
          /\ \A i \in 1 .. Len(s) : s[i] = target.bits[i + 1]
      BY <2>1
    <3> QED
      BY <2>9, <3>1
  <2>11. Len(target.bits) # 1
    BY <2>8 DEF l
  <2> QED
    BY <1>2, <2>3, <2>7, <2>10, <2>11, Zenon
<1> DEFINE k == Len(target.bits)
<1>a. k \in Nat /\ k >= 1
  BY <1>1
<1> HIDE DEF k
<1>b. k = 1 \/ k > 1
  BY <1>a
<1>5. Len(target.bits) = 1 \/ Len(target.bits) > 1
  BY <1>b DEF k
<1> QED
  BY <1>3, <1>4, <1>5, Zenon

\* The line is back: after a write that was granted comes the word.
LEMMA EdgeBack ==
    ASSUME TargetOK, target.phase = "back", NEW b \in Bit, Edge(b)
    PROVE  /\ TargetOK' /\ done' = done /\ bad' = bad /\ Remembers
           /\ target'.ones = target.ones /\ target'.fresh = target.fresh /\ target'.bits = <<>>
           /\ target'.phase = IF target.said = "OK" /\ ~IsRead(target.request) THEN "data" ELSE "idle"
<1> DEFINE p == IF target.said = "OK" /\ ~IsRead(target.request) THEN "data" ELSE "idle"
<1>1. /\ done' = done /\ bad' = bad
      /\ target' = IF target.said = "OK" /\ ~IsRead(target.request) THEN In_("data") ELSE In_("idle")
  BY DEF Edge
<1>2. target' = [target EXCEPT !.phase = p, !.bits = <<>>] /\ p \in {"data", "idle"}
  BY <1>1 DEF In_
<1> HIDE DEF p
<1>3. p \in Phases /\ target \in TargetType
  BY <1>2, Fields DEF Phases
<1>4. /\ target' \in TargetType /\ target'.phase = p /\ target'.bits = <<>> /\ Remembers
      /\ target'.ones = target.ones /\ target'.fresh = target.fresh
  BY <1>2, <1>3, NoBits, Moves
<1>5. TargetOK'
  <2>1. Len(target'.bits) <= DataBits
    BY <1>4, NoBits, Limits
  <2> QED
    BY <1>2, <1>4, <2>1 DEF TargetOK
<1> QED
  BY <1>1, <1>4, <1>5 DEF p

\* A bit of the word: the last one is the parity, which decides whether the write is done.
LEMMA EdgeData ==
    ASSUME TargetOK, target.phase = "data", NEW b \in Bit, Edge(b)
    PROVE  LET bits == Append(target.bits, b) IN
           /\ TargetOK' /\ Remembers /\ target'.ones = target.ones /\ target'.fresh = target.fresh
           /\ bits \in Seq(Bit) /\ Len(bits) = Len(target.bits) + 1
           /\ IF Len(target.bits) < DataBits
                THEN target'.phase = "data" /\ target'.bits = bits /\ done' = done /\ bad' = bad
                ELSE /\ target'.phase = "idle"
                     /\ IF Parity(bits) = 0
                          THEN /\ done' = Append(done, [request |-> target.request, word |-> Front(bits)])
                               /\ bad' = bad
                          ELSE bad' = TRUE /\ done' = done
<1> DEFINE bits == Append(target.bits, b)
<1>1. /\ target.bits \in Seq(Bit) /\ Len(target.bits) \in Nat /\ Len(target.bits) <= DataBits
      /\ DataBits \in Nat
  BY Limits, Fields DEF TargetOK
<1>2. bits \in Seq(Bit) /\ Len(bits) = Len(target.bits) + 1
  BY <1>1, AppendProperties
<1>3. Takes(b)
  BY DEF Edge
<1>4. IF Len(bits) <= DataBits
        THEN target' = [target EXCEPT !.bits = bits] /\ done' = done /\ bad' = bad
        ELSE /\ target' = In_("idle")
             /\ IF Parity(bits) = 0
                  THEN /\ done' = Append(done, [request |-> target.request, word |-> Front(bits)])
                       /\ bad' = bad
                  ELSE bad' = TRUE /\ done' = done
  BY <1>3 DEF Takes
<1> HIDE DEF bits
<1>5. CASE Len(target.bits) < DataBits
  <2>1. target' = [target EXCEPT !.bits = bits] /\ done' = done /\ bad' = bad /\ Len(bits) <= DataBits
    BY <1>1, <1>2, <1>4, <1>5
  <2>2. /\ target' \in TargetType /\ target'.phase = "data" /\ target'.bits = bits /\ Remembers
        /\ target'.ones = target.ones /\ target'.fresh = target.fresh
    BY <1>2, <2>1, Collects
  <2>4. TargetOK'
    BY <2>1, <2>2 DEF TargetOK
  <2> QED
    BY <1>2, <1>5, <2>1, <2>2, <2>4 DEF bits
<1>6. CASE ~(Len(target.bits) < DataBits)
  <2>1. ~(Len(bits) <= DataBits)
    BY <1>1, <1>2, <1>6
  <2>2. target' = [target EXCEPT !.phase = "idle", !.bits = <<>>]
    BY <1>4, <2>1 DEF In_
  <2>a. "idle" \in Phases
    BY DEF Phases
  <2>3. /\ target' \in TargetType /\ target'.phase = "idle" /\ Remembers
        /\ target'.ones = target.ones /\ target'.fresh = target.fresh
    BY <2>2, <2>a, NoBits, Moves
  <2>5. TargetOK'
    BY <2>3 DEF TargetOK
  <2> QED
    BY <1>2, <1>4, <1>6, <2>1, <2>3, <2>5 DEF bits
<1> QED
  BY <1>5, <1>6

\* The phases in which the target counts ones.
Recorded == done' = done /\ bad' = bad /\ Remembers

\* How the count of ones moves: it never passes ResetSeen.
LEMMA OnesAre ==
    ASSUME TargetOK, NEW b \in Bit
    PROVE  /\ Ones(b) \in 0 .. ResetSeen /\ (b = 0 => Ones(b) = 0)
           /\ (b = 1 /\ target.ones < ResetSeen => Ones(b) = target.ones + 1)
           /\ (b = 1 /\ target.ones = ResetSeen => Ones(b) = ResetSeen)
           /\ Ones(b) <= target.ones + 1
  BY Fields, Limits DEF Ones, Bit

\* The records a target may be after such an edge.
LEMMA InIs ==
    ASSUME TargetOK, NEW p \in Phases
    PROVE  /\ In_(p) \in TargetType /\ In_(p).phase = p /\ In_(p).bits = <<>>
           /\ In_(p).request = target.request /\ In_(p).said = target.said
           /\ In_(p).sent = target.sent /\ In_(p).fresh = target.fresh
<1> DEFINE e == <<>>
<1>1. target \in TargetType /\ e \in Seq(Bit) /\ In_(p) = [target EXCEPT !.phase = p, !.bits = e]
  BY Fields, NoBits DEF In_
<1> HIDE DEF e
<1>2. \A t : t = [target EXCEPT !.phase = p, !.bits = e] =>
        /\ t \in TargetType /\ t.phase = p /\ t.bits = e /\ t.request = target.request
        /\ t.said = target.said /\ t.sent = target.sent /\ t.fresh = target.fresh
  BY <1>1 DEF TargetType
<1> QED
  BY <1>1, <1>2 DEF e

Asked(t, q) == [t EXCEPT !.request = q]
Freshened(t) == [t EXCEPT !.fresh = TRUE]
Holding(t, s) == [t EXCEPT !.bits = s]

\* A record of the target with one field replaced has the others as they were.
LEMMA Updated ==
    ASSUME NEW t \in TargetType
    PROVE  /\ \A q \in Requests :
                /\ Asked(t, q) \in TargetType /\ Asked(t, q).phase = t.phase
                /\ Asked(t, q).bits = t.bits /\ Asked(t, q).request = q /\ Asked(t, q).said = t.said
                /\ Asked(t, q).sent = t.sent /\ Asked(t, q).fresh = t.fresh
           /\ Freshened(t) \in TargetType /\ Freshened(t).phase = t.phase
           /\ Freshened(t).bits = t.bits /\ Freshened(t).request = t.request
           /\ Freshened(t).said = t.said /\ Freshened(t).sent = t.sent /\ Freshened(t).fresh = TRUE
           /\ \A s \in Seq(Bit) :
                /\ Holding(t, s) \in TargetType /\ Holding(t, s).phase = t.phase
                /\ Holding(t, s).bits = s /\ Holding(t, s).request = t.request
                /\ Holding(t, s).said = t.said /\ Holding(t, s).sent = t.sent
                /\ Holding(t, s).fresh = t.fresh
<1>1. ASSUME NEW q \in Requests
      PROVE  /\ Asked(t, q) \in TargetType /\ Asked(t, q).phase = t.phase
             /\ Asked(t, q).bits = t.bits /\ Asked(t, q).request = q /\ Asked(t, q).said = t.said
             /\ Asked(t, q).sent = t.sent /\ Asked(t, q).fresh = t.fresh
  BY DEF TargetType, Asked
<1>2. /\ Freshened(t) \in TargetType /\ Freshened(t).phase = t.phase
      /\ Freshened(t).bits = t.bits /\ Freshened(t).request = t.request
      /\ Freshened(t).said = t.said /\ Freshened(t).sent = t.sent /\ Freshened(t).fresh = TRUE
  BY DEF TargetType, Freshened
<1>3. ASSUME NEW s \in Seq(Bit)
      PROVE  /\ Holding(t, s) \in TargetType /\ Holding(t, s).phase = t.phase
             /\ Holding(t, s).bits = s /\ Holding(t, s).request = t.request
             /\ Holding(t, s).said = t.said /\ Holding(t, s).sent = t.sent
             /\ Holding(t, s).fresh = t.fresh
  BY DEF TargetType, Holding
<1> QED
  BY <1>1, <1>2, <1>3

\* The target after an edge at which it counts ones.
Becomes(t, b) ==
  /\ target' \in TargetType /\ target'.phase = t.phase /\ target'.bits = t.bits
  /\ target'.request = t.request /\ target'.said = t.said /\ target'.sent = t.sent
  /\ target'.fresh = t.fresh /\ target'.ones = Ones(b)

\* The bit is counted, and with enough ones the target is in reset.
LEMMA CountedIs ==
    ASSUME TargetOK, NEW b \in Bit, NEW t \in TargetType, target' = Counted(t, b)
    PROVE  Becomes(t, b)
<1> DEFINE o == Ones(b)
<1>1. o \in 0 .. ResetSeen /\ target' = [t EXCEPT !.ones = o]
  BY OnesAre DEF Counted
<1> HIDE DEF o
<1>2. /\ target' \in TargetType /\ target'.phase = t.phase /\ target'.bits = t.bits
      /\ target'.request = t.request /\ target'.said = t.said /\ target'.sent = t.sent
      /\ target'.fresh = t.fresh /\ target'.ones = o
  BY <1>1 DEF TargetType
<1> QED
  BY <1>2 DEF Becomes, o

\* What it may become: itself, itself in another phase, in reset.
LEMMA ToSelf ==
    ASSUME TargetOK, NEW b \in Bit, target' = Counted(target, b)
    PROVE  /\ target' \in TargetType /\ target'.phase = target.phase /\ target'.bits = target.bits
           /\ Remembers /\ target'.fresh = target.fresh /\ target'.ones = Ones(b)
  BY Fields, CountedIs DEF Becomes, Remembers

\* The target goes to a phase that keeps no bits.
LEMMA ToPhase ==
    ASSUME TargetOK, NEW b \in Bit, NEW p \in Phases, target' = Counted(In_(p), b)
    PROVE  /\ target' \in TargetType /\ target'.phase = p /\ target'.bits = <<>>
           /\ Remembers /\ target'.fresh = target.fresh /\ target'.ones = Ones(b)
<1>1. In_(p) \in TargetType
  BY InIs
<1>2. Becomes(In_(p), b)
  BY <1>1, CountedIs
<1> QED
  BY <1>2, InIs DEF Becomes, Remembers

\* The target goes into reset.
LEMMA ToReset ==
    ASSUME TargetOK, NEW b \in Bit, target' = Counted([In_("reset") EXCEPT !.fresh = TRUE], b)
    PROVE  /\ TargetOK' /\ target'.phase = "reset" /\ target'.bits = <<>>
           /\ Remembers /\ target'.fresh /\ target'.ones = Ones(b)
<1> DEFINE t == In_("reset")
<1>0. "reset" \in Phases
  BY DEF Phases
<1>1. /\ t \in TargetType /\ t.phase = "reset" /\ t.bits = <<>>
      /\ t.request = target.request /\ t.said = target.said /\ t.sent = target.sent
  BY <1>0, InIs
<1>2. target' = Counted(Freshened(t), b)
  BY DEF Freshened
<1> HIDE DEF t
<1>3. /\ Freshened(t) \in TargetType /\ Freshened(t).phase = "reset" /\ Freshened(t).bits = <<>>
      /\ Freshened(t).request = target.request /\ Freshened(t).said = target.said
      /\ Freshened(t).sent = target.sent /\ Freshened(t).fresh = TRUE
  BY <1>1, Updated, Zenon
<1>4. Becomes(Freshened(t), b)
  BY <1>2, <1>3, CountedIs
<1>5. /\ target' \in TargetType /\ target'.phase = "reset" /\ target'.bits = <<>>
      /\ Remembers /\ target'.fresh = TRUE /\ target'.ones = Ones(b)
  BY <1>3, <1>4, Zenon DEF Becomes, Remembers
<1>6. TargetOK'
  BY <1>5 DEF TargetOK
<1> QED
  BY <1>5, <1>6

\* The target takes a request as its own.
LEMMA ToTurn ==
    ASSUME TargetOK, NEW b \in Bit, NEW q \in Requests,
           target' = Counted([In_("turn") EXCEPT !.request = q], b)
    PROVE  /\ TargetOK' /\ target'.phase = "turn" /\ target'.request = q
           /\ target'.said = target.said /\ target'.sent = target.sent
           /\ target'.fresh = target.fresh /\ target'.ones = Ones(b)
<1> DEFINE t == In_("turn")
<1>0. "turn" \in Phases
  BY DEF Phases
<1>1. /\ t \in TargetType /\ t.phase = "turn"
      /\ t.said = target.said /\ t.sent = target.sent /\ t.fresh = target.fresh
  BY <1>0, InIs
<1>2. target' = Counted(Asked(t, q), b)
  BY DEF Asked
<1> HIDE DEF t
<1>3. /\ Asked(t, q) \in TargetType /\ Asked(t, q).phase = "turn" /\ Asked(t, q).request = q
      /\ Asked(t, q).said = target.said /\ Asked(t, q).sent = target.sent
      /\ Asked(t, q).fresh = target.fresh
  BY <1>1, Updated, Zenon
<1>4. Becomes(Asked(t, q), b)
  BY <1>2, <1>3, CountedIs
<1>5. /\ target' \in TargetType /\ target'.phase = "turn" /\ target'.request = q
      /\ target'.said = target.said /\ target'.sent = target.sent
      /\ target'.fresh = target.fresh /\ target'.ones = Ones(b)
  BY <1>3, <1>4, Zenon DEF Becomes
<1>6. TargetOK'
  BY <1>5 DEF TargetOK
<1> QED
  BY <1>5, <1>6

\* The target keeps one bit more of a packet.
LEMMA ToHolding ==
    ASSUME TargetOK, NEW b \in Bit, NEW s \in Seq(Bit), target' = Counted([target EXCEPT !.bits = s], b)
    PROVE  /\ target' \in TargetType /\ target'.phase = target.phase /\ target'.bits = s
           /\ Remembers /\ target'.fresh = target.fresh /\ target'.ones = Ones(b)
<1>1. target' = Counted(Holding(target, s), b) /\ target \in TargetType
  BY Fields DEF Holding
<1>2. /\ Holding(target, s) \in TargetType /\ Holding(target, s).phase = target.phase
      /\ Holding(target, s).bits = s /\ Holding(target, s).request = target.request
      /\ Holding(target, s).said = target.said /\ Holding(target, s).sent = target.sent
      /\ Holding(target, s).fresh = target.fresh
  BY <1>1, Updated, Zenon
<1>3. Becomes(Holding(target, s), b)
  BY <1>1, <1>2, CountedIs
<1> QED
  BY <1>2, <1>3, Zenon DEF Becomes, Remembers

\* Idle, a one is the start of a packet.
LEMMA EdgeIdle ==
    ASSUME TargetOK, target.phase = "idle", NEW b \in Bit, Edge(b)
    PROVE  /\ TargetOK' /\ Recorded /\ target'.ones = Ones(b)
           /\ IF Ones(b) = ResetSeen THEN target'.phase = "reset" /\ target'.fresh
              ELSE /\ target'.fresh = target.fresh
                   /\ IF b = 1 THEN target'.phase = "packet" /\ target'.bits = <<>>
                      ELSE target'.phase = "idle"
<1>1. /\ done' = done /\ bad' = bad
      /\ target' = Counted(IF Ones(b) = ResetSeen THEN [In_("reset") EXCEPT !.fresh = TRUE]
                           ELSE IF b = 1 THEN In_("packet") ELSE target, b)
  BY DEF Edge
<1>2. "packet" \in Phases
  BY DEF Phases
<1>3. CASE Ones(b) = ResetSeen
  <2>1. target' = Counted([In_("reset") EXCEPT !.fresh = TRUE], b)
    BY <1>1, <1>3
  <2> QED
    BY <1>1, <1>3, <2>1, ToReset DEF Recorded
<1>4. CASE Ones(b) # ResetSeen /\ b = 1
  <2>1. target' = Counted(In_("packet"), b)
    BY <1>1, <1>4
  <2>2. /\ target' \in TargetType /\ target'.phase = "packet" /\ target'.bits = <<>>
        /\ Remembers /\ target'.fresh = target.fresh /\ target'.ones = Ones(b)
    BY <1>2, <2>1, ToPhase
  <2>3. Len(target'.bits) <= 6
    BY <2>2, NoBits
  <2>4. TargetOK'
    BY <2>2, <2>3 DEF TargetOK
  <2> QED
    BY <1>1, <1>4, <2>2, <2>4 DEF Recorded
<1>5. CASE Ones(b) # ResetSeen /\ b # 1
  <2>1. target' = Counted(target, b)
    BY <1>1, <1>5
  <2>2. /\ target' \in TargetType /\ target'.phase = "idle"
        /\ Remembers /\ target'.fresh = target.fresh /\ target'.ones = Ones(b)
    BY <2>1, ToSelf
  <2> QED
    BY <1>1, <1>5, <2>2 DEF TargetOK, Recorded
<1> QED
  BY <1>3, <1>4, <1>5

\* In reset, a zero makes the target idle.
LEMMA EdgeReset ==
    ASSUME TargetOK, target.phase = "reset", NEW b \in Bit, Edge(b)
    PROVE  /\ TargetOK' /\ Recorded /\ target'.ones = Ones(b)
           /\ IF Ones(b) = ResetSeen THEN target'.phase = "reset" /\ target'.fresh
              ELSE /\ target'.fresh = target.fresh
                   /\ target'.phase = IF b = 0 THEN "idle" ELSE "reset"
<1>1. /\ done' = done /\ bad' = bad
      /\ target' = Counted(IF Ones(b) = ResetSeen THEN [In_("reset") EXCEPT !.fresh = TRUE]
                           ELSE IF b = 0 THEN In_("idle") ELSE target, b)
  BY DEF Edge
<1>2. "idle" \in Phases
  BY DEF Phases
<1>3. CASE Ones(b) = ResetSeen
  <2>1. target' = Counted([In_("reset") EXCEPT !.fresh = TRUE], b)
    BY <1>1, <1>3
  <2> QED
    BY <1>1, <1>3, <2>1, ToReset DEF Recorded
<1>4. CASE Ones(b) # ResetSeen /\ b = 0
  <2>1. target' = Counted(In_("idle"), b)
    BY <1>1, <1>4
  <2>2. /\ target' \in TargetType /\ target'.phase = "idle"
        /\ Remembers /\ target'.fresh = target.fresh /\ target'.ones = Ones(b)
    BY <1>2, <2>1, ToPhase
  <2> QED
    BY <1>1, <1>4, <2>2 DEF TargetOK, Recorded
<1>5. CASE Ones(b) # ResetSeen /\ b # 0
  <2>1. target' = Counted(target, b)
    BY <1>1, <1>5
  <2>2. /\ target' \in TargetType /\ target'.phase = "reset"
        /\ Remembers /\ target'.fresh = target.fresh /\ target'.ones = Ones(b)
    BY <2>1, ToSelf
  <2> QED
    BY <1>1, <1>5, <2>2 DEF TargetOK, Recorded
<1> QED
  BY <1>3, <1>4, <1>5

\* Lost, only a reset brings the target back.
LEMMA EdgeLost ==
    ASSUME TargetOK, target.phase = "lost", NEW b \in Bit, Edge(b)
    PROVE  /\ TargetOK' /\ Recorded /\ target'.ones = Ones(b)
           /\ IF Ones(b) = ResetSeen THEN target'.phase = "reset" /\ target'.fresh
              ELSE target'.phase = "lost" /\ target'.fresh = target.fresh
<1>1. /\ done' = done /\ bad' = bad
      /\ target' = Counted(IF Ones(b) = ResetSeen THEN [In_("reset") EXCEPT !.fresh = TRUE]
                           ELSE target, b)
  BY DEF Edge
<1>3. CASE Ones(b) = ResetSeen
  <2>1. target' = Counted([In_("reset") EXCEPT !.fresh = TRUE], b)
    BY <1>1, <1>3
  <2> QED
    BY <1>1, <1>3, <2>1, ToReset DEF Recorded
<1>4. CASE Ones(b) # ResetSeen
  <2>1. target' = Counted(target, b)
    BY <1>1, <1>4
  <2>2. /\ target' \in TargetType /\ target'.phase = "lost"
        /\ Remembers /\ target'.fresh = target.fresh /\ target'.ones = Ones(b)
    BY <2>1, ToSelf
  <2> QED
    BY <1>1, <1>4, <2>2 DEF TargetOK, Recorded
<1> QED
  BY <1>3, <1>4

\* The seventh bit of a packet is judged with the others.
LEMMA EdgePacket ==
    ASSUME TargetOK, target.phase = "packet", NEW b \in Bit, Edge(b)
    PROVE  LET bits == Append(target.bits, b) IN
           /\ TargetOK' /\ done' = done /\ bad' = bad /\ target'.ones = Ones(b)
           /\ target'.said = target.said /\ target'.sent = target.sent
           /\ bits \in Seq(Bit) /\ Len(bits) = Len(target.bits) + 1 /\ Len(target.bits) <= 6
           /\ IF Ones(b) = ResetSeen THEN target'.phase = "reset" /\ target'.fresh
              ELSE /\ target'.fresh = target.fresh
                   /\ IF Len(target.bits) < 6 THEN target'.phase = "packet" /\ target'.bits = bits
                      ELSE IF WellFormed(bits)
                        THEN target'.phase = "turn" /\ target'.request = SubSeq(bits, 1, 4)
                        ELSE target'.phase = "lost"
<1> DEFINE bits == Append(target.bits, b)
           l == Len(target.bits)
<1>1. /\ done' = done /\ bad' = bad
      /\ target' = Counted(IF Ones(b) = ResetSeen THEN [In_("reset") EXCEPT !.fresh = TRUE]
                           ELSE Packet(b), b)
  BY DEF Edge
<1>2. "lost" \in Phases /\ target.bits \in Seq(Bit) /\ l \in Nat /\ l <= 6
  BY Fields DEF Phases, TargetOK
<1>3. bits \in Seq(Bit) /\ Len(bits) = l + 1
  BY <1>2, AppendProperties
<1>p. Packet(b) = IF Len(bits) < 7 THEN [target EXCEPT !.bits = bits]
                  ELSE IF WellFormed(bits) THEN [In_("turn") EXCEPT !.request = SubSeq(bits, 1, 4)]
                  ELSE In_("lost")
  BY DEF Packet
<1> HIDE DEF bits, l
<1>4. CASE Ones(b) = ResetSeen
  <2>1. target' = Counted([In_("reset") EXCEPT !.fresh = TRUE], b)
    BY <1>1, <1>4
  <2>2. TargetOK' /\ target'.phase = "reset" /\ Remembers /\ target'.fresh /\ target'.ones = Ones(b)
    BY <2>1, ToReset
  <2> QED
    BY <1>1, <1>2, <1>3, <1>4, <2>2 DEF bits, l, Remembers
<1>5. CASE Ones(b) # ResetSeen /\ l < 6
  <2>0. Len(bits) < 7
    BY <1>2, <1>3, <1>5
  <2>1. target' = Counted([target EXCEPT !.bits = bits], b)
    BY <1>1, <1>5, <1>p, <2>0
  <2>2. /\ target' \in TargetType /\ target'.phase = "packet" /\ target'.bits = bits
        /\ Remembers /\ target'.fresh = target.fresh /\ target'.ones = Ones(b)
    BY <1>3, <2>1, ToHolding
  <2>4. Len(target'.bits) <= 6
    BY <1>2, <1>3, <1>5, <2>2
  <2>5. TargetOK'
    BY <2>2, <2>4 DEF TargetOK
  <2> QED
    BY <1>1, <1>2, <1>3, <1>5, <2>2, <2>5 DEF bits, l, Remembers
<1>6. CASE Ones(b) # ResetSeen /\ l = 6 /\ WellFormed(bits)
  <2> DEFINE r == SubSeq(bits, 1, 4)
  <2>2. r \in Requests
    <3>1. \A i \in 1 .. 4 : i \in 1 .. Len(bits)
      BY <1>3, <1>6
    <3>2. \A i \in 1 .. 4 : bits[i] \in Bit
      BY <1>3, <3>1, ElementOfSeq
    <3>3. r = [i \in 1 .. 4 |-> bits[i]]
      BY <1>3, <1>6
    <3> QED
      BY <3>2, <3>3 DEF Requests
  <2>0. ~(Len(bits) < 7)
    BY <1>3, <1>6
  <2>1. Packet(b) = [In_("turn") EXCEPT !.request = r]
    BY <1>p, <1>6, <2>0
  <2> HIDE DEF r
  <2>3. target' = Counted([In_("turn") EXCEPT !.request = r], b)
    BY <1>1, <1>6, <2>1
  <2>4. /\ TargetOK' /\ target'.phase = "turn" /\ target'.request = r
        /\ target'.ones = Ones(b) /\ target'.fresh = target.fresh
        /\ target'.said = target.said /\ target'.sent = target.sent
    BY <2>2, <2>3, ToTurn
  <2> QED
    BY <1>1, <1>2, <1>3, <1>6, <2>4 DEF r, bits, l
<1>7. CASE Ones(b) # ResetSeen /\ l = 6 /\ ~WellFormed(bits)
  <2>0. ~(Len(bits) < 7)
    BY <1>3, <1>7
  <2>1. target' = Counted(In_("lost"), b)
    BY <1>1, <1>p, <1>7, <2>0
  <2>2. /\ target' \in TargetType /\ target'.phase = "lost"
        /\ Remembers /\ target'.fresh = target.fresh /\ target'.ones = Ones(b)
    BY <1>2, <2>1, ToPhase
  <2>4. TargetOK'
    BY <2>2 DEF TargetOK
  <2> QED
    BY <1>1, <1>2, <1>3, <1>7, <2>2, <2>4 DEF bits, l, Remembers
<1>8. l < 6 \/ l = 6
  BY <1>2
<1> QED
  BY <1>4, <1>5, <1>6, <1>7, <1>8

\* While the target speaks JTAG: a reset of the line and a low bit begin the switch.
LEMMA EdgeJtag ==
    ASSUME TargetOK, target.phase = "jtag", NEW b \in Bit, Edge(b)
    PROVE  /\ TargetOK' /\ Recorded /\ target'.ones = Ones(b) /\ target'.fresh = target.fresh
           /\ IF b = 0 /\ target.ones = ResetSeen
                THEN target'.phase = "switch" /\ target'.bits = <<0>>
                ELSE target'.phase = "jtag"
<1>1. /\ done' = done /\ bad' = bad
      /\ target' = Counted(IF b = 0 /\ target.ones = ResetSeen
                             THEN [target EXCEPT !.phase = "switch", !.bits = <<0>>] ELSE target, b)
  BY DEF Edge
<1>2. CASE b = 0 /\ target.ones = ResetSeen
  <2> DEFINE z == <<0>>
             t == In_("switch")
  <2>1. z \in Seq(Bit) /\ Len(z) = 1 /\ "switch" \in Phases
    BY DEF Bit, Phases
  <2>2. /\ t \in TargetType /\ t.phase = "switch" /\ t.fresh = target.fresh
        /\ t.request = target.request /\ t.said = target.said /\ t.sent = target.sent
    BY <2>1, InIs
  <2>3. target \in TargetType
    BY Fields
  <2> HIDE DEF z
  <2>4. [target EXCEPT !.phase = "switch", !.bits = z] = Holding(t, z)
    BY <2>3 DEF Holding, In_, TargetType
  <2> HIDE DEF t
  <2>5. target' = Counted(Holding(t, z), b)
    BY <1>1, <1>2, <2>4 DEF z
  <2>6. /\ Holding(t, z) \in TargetType /\ Holding(t, z).phase = "switch" /\ Holding(t, z).bits = z
        /\ Holding(t, z).request = target.request /\ Holding(t, z).said = target.said
        /\ Holding(t, z).sent = target.sent /\ Holding(t, z).fresh = target.fresh
    BY <2>1, <2>2, Updated, Zenon
  <2>7. Becomes(Holding(t, z), b)
    BY <2>5, <2>6, CountedIs
  <2>8. /\ target' \in TargetType /\ target'.phase = "switch" /\ target'.bits = z
        /\ Remembers /\ target'.fresh = target.fresh /\ target'.ones = Ones(b)
    BY <2>6, <2>7, Zenon DEF Becomes, Remembers
  <2>a. Len(target'.bits) = 1
    BY <2>1, <2>8, Zenon
  <2>9. Len(target'.bits) <= 15
    BY <2>a
  <2>10. TargetOK'
    BY <2>8, <2>9 DEF TargetOK
  <2> QED
    BY <1>1, <1>2, <2>8, <2>10 DEF Recorded, z
<1>3. CASE ~(b = 0 /\ target.ones = ResetSeen)
  <2>1. target' = Counted(target, b)
    BY <1>1, <1>3
  <2>2. /\ target' \in TargetType /\ target'.phase = "jtag"
        /\ Remembers /\ target'.fresh = target.fresh /\ target'.ones = Ones(b)
    BY <2>1, ToSelf
  <2> QED
    BY <1>1, <1>3, <2>2 DEF TargetOK, Recorded
<1> QED
  BY <1>2, <1>3

\* The switch sequence, bit by bit.
LEMMA EdgeSwitch ==
    ASSUME TargetOK, target.phase = "switch", NEW b \in Bit, Edge(b)
    PROVE  LET bits == Append(target.bits, b) IN
           /\ TargetOK' /\ Recorded /\ target'.ones = Ones(b) /\ target'.fresh = target.fresh
           /\ IF ~IsPrefix(bits, SwitchBits) THEN target'.phase = "jtag"
              ELSE IF bits = SwitchBits THEN target'.phase = "lost"
              ELSE target'.phase = "switch" /\ target'.bits = bits
<1> DEFINE bits == Append(target.bits, b)
           l == Len(target.bits)
<1>1. /\ done' = done /\ bad' = bad /\ target' = Counted(Switches(b), b)
  BY DEF Edge
<1>2. target.bits \in Seq(Bit) /\ l \in Nat /\ l <= 15 /\ "jtag" \in Phases /\ "lost" \in Phases
  BY Fields DEF TargetOK, Phases
<1>3. bits \in Seq(Bit) /\ Len(bits) = l + 1
  BY <1>2, AppendProperties
<1>4. Switches(b) = IF ~IsPrefix(bits, SwitchBits) THEN In_("jtag")
                    ELSE IF bits = SwitchBits THEN In_("lost") ELSE [target EXCEPT !.bits = bits]
  BY DEF Switches
<1> HIDE DEF bits, l
<1>5. CASE ~IsPrefix(bits, SwitchBits)
  <2>1. target' = Counted(In_("jtag"), b)
    BY <1>1, <1>4, <1>5
  <2>2. /\ target' \in TargetType /\ target'.phase = "jtag"
        /\ Remembers /\ target'.fresh = target.fresh /\ target'.ones = Ones(b)
    BY <1>2, <2>1, ToPhase
  <2> QED
    BY <1>1, <1>5, <2>2 DEF TargetOK, Recorded, bits
<1>6. CASE IsPrefix(bits, SwitchBits) /\ bits = SwitchBits
  <2>1. target' = Counted(In_("lost"), b)
    BY <1>1, <1>4, <1>6
  <2>2. /\ target' \in TargetType /\ target'.phase = "lost"
        /\ Remembers /\ target'.fresh = target.fresh /\ target'.ones = Ones(b)
    BY <1>2, <2>1, ToPhase
  <2> QED
    BY <1>1, <1>6, <2>2 DEF TargetOK, Recorded, bits
<1>7. CASE IsPrefix(bits, SwitchBits) /\ bits # SwitchBits
  <2>1. target' = Counted([target EXCEPT !.bits = bits], b)
    BY <1>1, <1>4, <1>7
  <2>2. /\ target' \in TargetType /\ target'.phase = "switch" /\ target'.bits = bits
        /\ Remembers /\ target'.fresh = target.fresh /\ target'.ones = Ones(b)
    BY <1>3, <2>1, ToHolding
  <2>3. l # 15
    <3> SUFFICES ASSUME l = 15 PROVE FALSE
      OBVIOUS
    <3>1. Len(bits) = 16 /\ Len(SwitchBits) = 16 /\ SwitchBits \in Seq(Bit)
      BY <1>3, SwitchIs
    <3>2. \A i \in 1 .. 16 : bits[i] = SwitchBits[i]
      BY <1>3, <1>7, <3>1, PrefixElements
    <3>3. bits = SwitchBits
      BY <1>3, <3>1, <3>2, SeqEqual
    <3> QED
      BY <1>7, <3>3
  <2>4. Len(target'.bits) <= 15
    BY <1>2, <1>3, <2>2, <2>3
  <2>5. TargetOK'
    BY <2>2, <2>4 DEF TargetOK
  <2> QED
    BY <1>1, <1>7, <2>2, <2>5 DEF Recorded, bits
<1> QED
  BY <1>5, <1>6, <1>7

-----------------------------------------------------------------------------
(***************************************************************************)
(* A cycle of the host: the types, the plan of the rest, the bits so far.  *)
(***************************************************************************)
Accesses == [request : Requests, word : Words \union {<<>>} \union [1 .. DataBits -> Bit]]

\* The word of a full register without its parity bit.
LEMMA FrontIs ==
    ASSUME NEW s \in Seq(Bit), Len(s) = DataBits + 1
    PROVE  Front(s) \in [1 .. DataBits -> Bit] /\ \A i \in 1 .. DataBits : Front(s)[i] = s[i]
<1>1. DataBits \in Nat
  BY Limits
<1>2. Front(s) = SubSeq(s, 1, DataBits)
  <2>1. Len(s) - 1 = DataBits
    BY <1>1
  <2> QED
    BY <2>1 DEF Front
<1>3. \A i \in 1 .. DataBits : i \in 1 .. Len(s)
  BY <1>1
<1>4. \A i \in 1 .. DataBits : s[i] \in Bit
  BY <1>3, ElementOfSeq
<1>5. Front(s) = [i \in 1 .. DataBits |-> s[i]]
  BY <1>1, <1>2
<1> HIDE DEF Front
<1> QED
  BY <1>4, <1>5

\* The types are kept by every edge.
LEMMA EdgeOK ==
    ASSUME HostOK, TargetOK, NEW b \in Bit, Edge(b)
    PROVE  TargetOK' /\ bad' \in BOOLEAN /\ done' \in Seq(Accesses)
<1>1. target.phase \in Phases /\ target.request \in Requests
  BY Fields
<1>2. bad \in BOOLEAN /\ done \in Seq(Accesses)
  BY DEF HostOK, Accesses
<1>3. CASE target.phase = "turn"
  <2> DEFINE a == [request |-> target.request, word |-> <<>>]
  <2>1. a \in Accesses
    BY <1>1 DEF Accesses
  <2> HIDE DEF a
  <2>2. Append(done, a) \in Seq(Accesses)
    BY <1>2, <2>1, AppendProperties
  <2>3. TargetOK' /\ bad' = bad /\ (done' = done \/ done' = Append(done, a))
    BY <1>3, EdgeTurn DEF a
  <2> QED
    BY <1>2, <2>2, <2>3
<1>4. CASE target.phase = "speak"
  BY <1>2, <1>4, EdgeSpeak
<1>5. CASE target.phase = "back"
  BY <1>2, <1>5, EdgeBack
<1>6. CASE target.phase = "data"
  <2> DEFINE bits == Append(target.bits, b)
             a == [request |-> target.request, word |-> Front(bits)]
  <2>1. /\ TargetOK' /\ bits \in Seq(Bit) /\ Len(bits) = Len(target.bits) + 1
        /\ IF Len(target.bits) < DataBits
             THEN done' = done /\ bad' = bad
             ELSE IF Parity(bits) = 0 THEN done' = Append(done, a) /\ bad' = bad
                  ELSE bad' = TRUE /\ done' = done
    BY <1>6, EdgeData
  <2> HIDE DEF bits
  <2>2. CASE Len(target.bits) < DataBits
    BY <1>2, <2>1, <2>2
  <2>3. CASE ~(Len(target.bits) < DataBits)
    <3>1. Len(target.bits) \in Nat /\ Len(target.bits) <= DataBits /\ DataBits \in Nat
      BY <1>6, Fields, Limits DEF TargetOK
    <3>2. Len(bits) = DataBits + 1
      BY <2>1, <2>3, <3>1
    <3>3. Front(bits) \in [1 .. DataBits -> Bit]
      BY <2>1, <3>2, FrontIs
    <3>4. a \in Accesses
      BY <1>1, <3>3 DEF Accesses
    <3> HIDE DEF a
    <3>5. Append(done, a) \in Seq(Accesses)
      BY <1>2, <3>4, AppendProperties
    <3> QED
      BY <1>2, <2>1, <2>3, <3>5
  <2> QED
    BY <2>2, <2>3
<1>7. CASE target.phase = "idle"
  BY <1>2, <1>7, EdgeIdle DEF Recorded
<1>8. CASE target.phase = "packet"
  BY <1>2, <1>8, EdgePacket
<1>9. CASE target.phase = "reset"
  BY <1>2, <1>9, EdgeReset DEF Recorded
<1>10. CASE target.phase = "lost"
  BY <1>2, <1>10, EdgeLost DEF Recorded
<1>11. CASE target.phase = "jtag"
  BY <1>2, <1>11, EdgeJtag DEF Recorded
<1>12. CASE target.phase = "switch"
  BY <1>2, <1>12, EdgeSwitch DEF Recorded
<1> QED
  BY <1>1, <1>3, <1>4, <1>5, <1>6, <1>7, <1>8, <1>9, <1>10, <1>11, <1>12 DEF Phases

\* One cycle, from the side of the host.
Ticks(b) ==
  /\ b \in Bit /\ Edge(b) /\ TargetOK'
  /\ ToGo \in Nat /\ ToGo >= 1 /\ ToGo' = ToGo - 1 /\ ToGo' \in Nat
  /\ \A i \in 1 .. ToGo' : todo'[i] = todo[i + 1]
  /\ heard' = IF todo[1].samples THEN Append(heard, b) ELSE heard
  /\ flips \in {0, 1} /\ flips' \in {0, 1}
  /\ ~(todo[1].drives /\ Drives) => Comes(Wire, b)
  /\ ~synced => flips' = flips
  /\ UNCHANGED <<stage, call, status, synced>>

\* What a cycle does, in one predicate: to the host, the wire and the target.
LEMMA ClockTicks ==
    ASSUME HostOK, TargetOK, Clock
    PROVE  \E b \in Bit : Ticks(b)
<1>1. PICK b \in Bit :
        /\ Edge(b)
        /\ heard' = IF todo[1].samples THEN Append(heard, b) ELSE heard
        /\ ~(todo[1].drives /\ Drives) => Comes(Wire, b)
        /\ ~synced => flips' = flips
  BY ClockBit
<1>2. flips \in {0, 1} /\ flips' \in {0, 1}
  BY Limits, ClockBit DEF HostOK
<1>3. /\ ToGo \in Nat /\ ToGo >= 1 /\ ToGo' = ToGo - 1 /\ UNCHANGED <<stage, call, status, synced>>
      /\ \A i \in 1 .. ToGo' : todo'[i] = todo[i + 1]
  BY Tick
<1>4. ToGo' \in Nat
  BY <1>3
<1>5. TargetOK'
  BY <1>1, EdgeOK
<1> QED
  BY <1>1, <1>2, <1>3, <1>4, <1>5 DEF Ticks

\* A cycle keeps the types.
LEMMA ClockOK ==
    ASSUME HostOK, TargetOK, Clock, todo[1].samples => Len(heard) <= DataBits + 3
    PROVE  HostOK' /\ TargetOK'
<1>1. PICK b \in Bit : Ticks(b)
  BY ClockTicks
<1>2. TargetOK' /\ bad' \in BOOLEAN /\ done' \in Seq(Accesses)
  BY <1>1, EdgeOK DEF Ticks
<1>3. /\ status = "running" /\ status' = status /\ stage' = stage /\ call' = call /\ synced' = synced
      /\ todo' \in Seq(Cycle)
  BY Tick
<1>4. flips' \in 0 .. MaxFlips
  BY ClockBit
<1>5. heard \in Seq(Bit) /\ Len(heard) \in Nat /\ Len(heard) <= DataBits + 4 /\ DataBits \in Nat
  BY Limits DEF HostOK
<1>6. heard' \in Seq(Bit) /\ Len(heard') <= DataBits + 4
  <2>1. CASE todo[1].samples
    <3>1. heard' = Append(heard, b)
      BY <1>1, <2>1 DEF Ticks
    <3>2. heard' \in Seq(Bit) /\ Len(heard') = Len(heard) + 1
      BY <1>5, <3>1, AppendProperties
    <3> QED
      BY <1>5, <2>1, <3>2
  <2>2. CASE ~todo[1].samples
    BY <1>1, <1>5, <2>2 DEF Ticks
  <2> QED
    BY <2>1, <2>2
<1> QED
  BY <1>2, <1>3, <1>4, <1>6 DEF HostOK, Accesses

\* A request is one; only a write has a word.
LEMMA CallIs ==
    ASSUME call \in Transfers \union {Nothing, Connect}, call # Nothing
    PROVE  /\ Req \in Requests
           /\ ~IsRead(Req) <=> call.op = "write"
           /\ call.op = "write" => call.word \in Words /\ call.word \in [1 .. DataBits -> Bit]
           /\ call.op = "connect" => Req = IdCode
<1>1. IdCode \in Requests /\ IsRead(IdCode)
  <2>1. IdCode \in [1 .. 4 -> Bit]
    BY DEF IdCode, Bit
  <2> QED
    BY <2>1 DEF IsRead, IdCode, Requests
<1>2. CASE call = Connect
  BY <1>1, <1>2 DEF Connect, Req
<1>3. ASSUME NEW r \in Requests, IsRead(r), call = [op |-> "read", request |-> r]
      PROVE  Req = r /\ call.op = "read"
  BY <1>3 DEF Req
<1>4. ASSUME NEW r \in Requests, ~IsRead(r), NEW w \in Words,
             call = [op |-> "write", request |-> r, word |-> w]
      PROVE  Req = r /\ call.op = "write" /\ call.word = w /\ w \in [1 .. DataBits -> Bit]
  BY <1>4, LineAssumption DEF Req, Bit
<1> QED
  BY <1>2, <1>3, <1>4 DEF Transfers

\* What is sent after the sequence is the request of the call.
LEMMA Transferring ==
    ASSUME HostOK, status = "running", stage # "sequence"
    PROVE  /\ synced /\ Req \in Requests /\ (~IsRead(Req) <=> call.op = "write")
           /\ (call.op = "write" => call.word \in [1 .. DataBits -> Bit])
           /\ (call.op = "connect" => Req = IdCode)
  BY CallIs DEF HostOK

\* A bit that arrives after those that did.
LEMMA GotMore ==
    ASSUME NEW s \in Seq(Bit), NEW full \in Seq(Bit), NEW b \in Bit, flips \in {0, 1},
           Len(s) < Len(full), Got(s, full), Comes(full[Len(s) + 1], b)
    PROVE  \/ Arrived(Append(s, b), full)
           \/ flips' = 1 /\ Spoilt(Append(s, b), full)
<1> DEFINE t == Append(s, b)
           l == Len(s)
<1>1. /\ t \in Seq(Bit) /\ l \in Nat /\ Len(t) = l + 1 /\ t[l + 1] = b
      /\ \A i \in 1 .. l : t[i] = s[i]
  BY AppendProperties
<1>2. l + 1 \in 1 .. Len(t) /\ \A i \in 1 .. Len(t) : i = l + 1 \/ i \in 1 .. l
  BY <1>1
<1>3. \A i \in 1 .. l : i \in 1 .. Len(t) /\ i # l + 1
  BY <1>1
<1>4. flips = 1 => flips' = 1 /\ b = full[l + 1]
  BY DEF Comes
<1> HIDE DEF t
<1>5. CASE Arrived(s, full) /\ b = full[l + 1]
  <2>1. \A i \in 1 .. l : s[i] = full[i]
    BY <1>5 DEF Arrived
  <2>2. Arrived(t, full)
    BY <1>1, <1>2, <1>5, <2>1 DEF Arrived
  <2> QED
    BY <2>2 DEF t
<1>6. CASE Arrived(s, full) /\ b # full[l + 1]
  <2>1. \A i \in 1 .. l : s[i] = full[i]
    BY <1>6 DEF Arrived
  <2>2. b = 1 - full[l + 1] /\ flips' = 1
    BY <1>6 DEF Comes
  <2>3. t[l + 1] = 1 - full[l + 1] /\ \A i \in 1 .. Len(t) : i # l + 1 => t[i] = full[i]
    BY <1>1, <1>2, <2>1, <2>2
  <2>4. Spoilt(t, full)
    BY <1>2, <2>3 DEF Spoilt
  <2> QED
    BY <2>2, <2>4 DEF t
<1>7. CASE flips = 1 /\ Spoilt(s, full)
  <2>1. PICK j \in 1 .. l : s[j] = 1 - full[j] /\ \A i \in 1 .. l : i # j => s[i] = full[i]
    BY <1>7 DEF Spoilt
  <2>2. j \in 1 .. Len(t) /\ t[j] = 1 - full[j] /\ \A i \in 1 .. Len(t) : i # j => t[i] = full[i]
    BY <1>1, <1>2, <1>3, <1>4, <1>7, <2>1
  <2>3. Spoilt(t, full)
    BY <2>2 DEF Spoilt
  <2> QED
    BY <1>4, <1>7, <2>3 DEF t
<1> QED
  BY <1>5, <1>6, <1>7 DEF Got

\* The rest of a plan is the plan of the rest.
LEMMA SequenceShift ==
    ASSUME NEW b, Ticks(b), \A i \in 1 .. ToGo : todo[i] = SequenceLeft(ToGo + 1 - i)
    PROVE  todo[1] = SequenceLeft(ToGo) /\ \A i \in 1 .. ToGo' : todo'[i] = SequenceLeft(ToGo' + 1 - i)
<1>1. ToGo \in Nat /\ ToGo >= 1 /\ ToGo' = ToGo - 1 /\ \A i \in 1 .. ToGo' : todo'[i] = todo[i + 1]
  BY DEF Ticks
<1> DEFINE g == ToGo
           h == ToGo'
<1>2. g \in Nat /\ g >= 1 /\ h = g - 1
  BY <1>1
<1> HIDE DEF g, h
<1>3. 1 \in 1 .. g /\ g + 1 - 1 = g
  BY <1>2
<1>4. \A i \in 1 .. h : i + 1 \in 1 .. g /\ g + 1 - (i + 1) = h + 1 - i
  BY <1>2
<1> QED
  BY <1>1, <1>3, <1>4 DEF g, h

\* A cycle of the request done, the rest is what was planned.
LEMMA RequestShift ==
    ASSUME NEW b, Ticks(b), \A i \in 1 .. ToGo : todo[i] = RequestLeft(Req, ToGo + 1 - i)
    PROVE  todo[1] = RequestLeft(Req, ToGo) /\ Req' = Req
           /\ \A i \in 1 .. ToGo' : todo'[i] = RequestLeft(Req, ToGo' + 1 - i)
<1>1. /\ ToGo \in Nat /\ ToGo >= 1 /\ ToGo' = ToGo - 1 /\ call' = call
      /\ \A i \in 1 .. ToGo' : todo'[i] = todo[i + 1]
  BY DEF Ticks
<1> DEFINE g == ToGo
           h == ToGo'
<1>2. g \in Nat /\ g >= 1 /\ h = g - 1
  BY <1>1
<1> HIDE DEF g, h
<1>3. 1 \in 1 .. g /\ g + 1 - 1 = g
  BY <1>2
<1>4. \A i \in 1 .. h : i + 1 \in 1 .. g /\ g + 1 - (i + 1) = h + 1 - i
  BY <1>2
<1>5. Req' = Req
  <2>1. call' = call
    BY <1>1
  <2> QED
    BY <2>1 DEF Req
<1> QED
  BY <1>1, <1>3, <1>4, <1>5 DEF g, h

\* The same of the data phase of a read.
LEMMA ReadShift ==
    ASSUME NEW b, Ticks(b), \A i \in 1 .. ToGo : todo[i] = ReadLeft(ToGo + 1 - i)
    PROVE  todo[1] = ReadLeft(ToGo) /\ \A i \in 1 .. ToGo' : todo'[i] = ReadLeft(ToGo' + 1 - i)
<1>1. ToGo \in Nat /\ ToGo >= 1 /\ ToGo' = ToGo - 1 /\ \A i \in 1 .. ToGo' : todo'[i] = todo[i + 1]
  BY DEF Ticks
<1> DEFINE g == ToGo
           h == ToGo'
<1>2. g \in Nat /\ g >= 1 /\ h = g - 1
  BY <1>1
<1> HIDE DEF g, h
<1>3. 1 \in 1 .. g /\ g + 1 - 1 = g
  BY <1>2
<1>4. \A i \in 1 .. h : i + 1 \in 1 .. g /\ g + 1 - (i + 1) = h + 1 - i
  BY <1>2
<1> QED
  BY <1>1, <1>3, <1>4 DEF g, h

\* The same of the data phase of a write.
LEMMA WriteShift ==
    ASSUME NEW b, Ticks(b), NEW w, \A i \in 1 .. ToGo : todo[i] = WriteLeft(w, ToGo + 1 - i)
    PROVE  todo[1] = WriteLeft(w, ToGo) /\ \A i \in 1 .. ToGo' : todo'[i] = WriteLeft(w, ToGo' + 1 - i)
<1>1. ToGo \in Nat /\ ToGo >= 1 /\ ToGo' = ToGo - 1 /\ \A i \in 1 .. ToGo' : todo'[i] = todo[i + 1]
  BY DEF Ticks
<1> DEFINE g == ToGo
           h == ToGo'
<1>2. g \in Nat /\ g >= 1 /\ h = g - 1
  BY <1>1
<1> HIDE DEF g, h
<1>3. 1 \in 1 .. g /\ g + 1 - 1 = g
  BY <1>2
<1>4. \A i \in 1 .. h : i + 1 \in 1 .. g /\ g + 1 - (i + 1) = h + 1 - i
  BY <1>2
<1> QED
  BY <1>1, <1>3, <1>4 DEF g, h

\* The same of the cycles of swj_back_off.
LEMMA TurnShift ==
    ASSUME NEW b, Ticks(b), \A i \in 1 .. ToGo : todo[i] = Turn
    PROVE  todo[1] = Turn /\ \A i \in 1 .. ToGo' : todo'[i] = Turn
<1>1. ToGo \in Nat /\ ToGo >= 1 /\ ToGo' = ToGo - 1 /\ \A i \in 1 .. ToGo' : todo'[i] = todo[i + 1]
  BY DEF Ticks
<1> DEFINE g == ToGo
           h == ToGo'
<1>2. g \in Nat /\ g >= 1 /\ h = g - 1
  BY <1>1
<1> HIDE DEF g, h
<1>3. 1 \in 1 .. g
  BY <1>2
<1>4. \A i \in 1 .. h : i + 1 \in 1 .. g
  BY <1>2
<1> QED
  BY <1>1, <1>3, <1>4 DEF g, h

-----------------------------------------------------------------------------
(***************************************************************************)
(* The sequences of a connection, from wherever the target was.            *)
(***************************************************************************)

\* A cycle of the first reset; who speaks does not hear it.
LEMMA FirstResetStep ==
    ASSUME TargetOK, TargetOK', NEW b \in Bit, Edge(b), b = 1 \/ target.phase = "speak",
           NEW left \in Nat, left >= 1, FirstReset(left)
    PROVE  FirstReset(left - 1)'
<1>1. target.phase \in Phases /\ target.ones \in Nat /\ target.ones <= ResetSeen
  BY Fields, Limits
<1>2. DataBits \in Nat /\ ResetSeen \in Nat /\ DataBits >= 8 /\ ResetSeen > DataBits + 17
  BY Limits
<1>3. b = 1 => Ones(b) = IF target.ones < ResetSeen THEN target.ones + 1 ELSE ResetSeen
  BY <1>1, OnesAre DEF Ones
<1>4. CASE target.phase = "jtag"
  <2>1. target'.phase = "jtag" /\ target'.ones = Ones(1) /\ b = 1
    BY <1>4, EdgeJtag
  <2>2. ResetSeen - target.ones <= left
    BY <1>4 DEF FirstReset
  <2>3. ResetSeen - target'.ones <= left - 1
    BY <1>1, <1>2, <1>3, <2>1, <2>2
  <2> QED
    BY <2>1, <2>3 DEF FirstReset
<1>5. CASE target.phase = "switch"
  <2>1. b = 1
    BY <1>5
  <2>2. ResetSeen - target.ones <= left /\ 16 - Len(target.bits) <= left
    BY <1>5 DEF FirstReset
  <2> DEFINE bits == Append(target.bits, b)
  <2>3. target.bits \in Seq(Bit) /\ Len(target.bits) \in Nat
    BY Fields
  <2>4. Len(bits) = Len(target.bits) + 1
    BY <2>3, AppendProperties
  <2>5. /\ target'.ones = Ones(b)
        /\ target'.phase \in {"jtag", "lost"} \/ (target'.phase = "switch" /\ target'.bits = bits)
    BY <1>5, EdgeSwitch
  <2> HIDE DEF bits
  <2>6. ResetSeen - target'.ones <= left - 1
    BY <1>1, <1>2, <1>3, <2>1, <2>2, <2>5
  <2>7. target'.phase = "switch" => 16 - Len(target'.bits) <= left - 1
    BY <2>2, <2>3, <2>4, <2>5
  <2> QED
    BY <2>5, <2>6, <2>7 DEF FirstReset
<1>6. CASE target.phase = "idle"
  <2>1. target'.phase = "reset" \/ (target'.phase = "packet" /\ target'.bits = <<>>)
    BY <1>6, EdgeIdle
  <2>2. 8 <= left
    BY <1>6 DEF FirstReset
  <2>3. target'.phase = "packet" => Len(target'.bits) = 0
    BY <2>1, NoBits
  <2> QED
    BY <2>1, <2>2, <2>3 DEF FirstReset
<1>7. CASE target.phase = "packet"
  <2> DEFINE bits == Append(target.bits, b)
             l == Len(target.bits)
  <2>1. b = 1
    BY <1>7
  <2>2. IF l < 6 THEN 7 - l <= left ELSE DataBits + 15 <= left \/ (target.bits[6] = 1 /\ 1 <= left)
    BY <1>7 DEF FirstReset
  <2>3. target.bits \in Seq(Bit) /\ l \in Nat
    BY Fields
  <2>4. Len(bits) = l + 1 /\ bits[l + 1] = b /\ \A i \in 1 .. l : bits[i] = target.bits[i]
    BY <2>3, AppendProperties
  <2>5. /\ l <= 6
        /\ \/ target'.phase = "reset"
           \/ l < 6 /\ target'.phase = "packet" /\ target'.bits = bits
           \/ ~(l < 6) /\ WellFormed(bits) /\ target'.phase = "turn"
           \/ target'.phase = "lost"
    BY <1>7, EdgePacket
  <2> HIDE DEF bits, l
  <2>6. CASE target'.phase \in {"reset", "lost"}
    BY <2>6 DEF FirstReset
  <2>7. CASE l < 6 /\ target'.phase = "packet" /\ target'.bits = bits
    <3>1. Len(target'.bits) = l + 1 /\ target'.bits[l + 1] = 1 /\ 7 - l <= left
      BY <2>1, <2>2, <2>4, <2>7
    <3>2. l + 1 < 6 => 7 - (l + 1) <= left - 1
      BY <2>3, <3>1
    <3>3. ~(l + 1 < 6) => l + 1 = 6 /\ 1 <= left - 1
      BY <2>3, <2>7, <3>1
    <3>4. IF Len(target'.bits) < 6 THEN 7 - Len(target'.bits) <= left - 1
          ELSE target'.bits[6] = 1 /\ 1 <= left - 1
      BY <3>1, <3>2, <3>3
    <3> QED
      BY <2>7, <3>4 DEF FirstReset
  <2>8. CASE ~(l < 6) /\ WellFormed(bits) /\ target'.phase = "turn"
    <3>1. l = 6 /\ 6 \in 1 .. l
      BY <2>3, <2>5, <2>8
    <3>2. bits[6] = target.bits[6] /\ bits[6] = 0
      BY <2>4, <2>8, <3>1 DEF WellFormed
    <3>3. DataBits + 14 <= left - 1
      BY <1>2, <2>2, <2>8, <3>2
    <3> QED
      BY <2>8, <3>3 DEF FirstReset
  <2> QED
    BY <2>5, <2>6, <2>7, <2>8
<1>8. CASE target.phase = "turn"
  <2>1. /\ target'.phase = "speak" /\ target'.bits = Spoken' /\ target'.request = target.request
        /\ Len(Spoken') = IF target'.said = "OK" /\ IsRead(target.request) THEN DataBits + 4 ELSE 3
    BY <1>8, EdgeTurn
  <2>3. DataBits + 14 <= left
    BY <1>8 DEF FirstReset
  <2>4. Len(target'.bits) = IF target'.said = "OK" /\ IsRead(target'.request) THEN DataBits + 4 ELSE 3
    BY <2>1
  <2>5. IF target'.said = "OK" /\ ~IsRead(target'.request)
          THEN Len(target'.bits) + DataBits + 10 <= left - 1
          ELSE Len(target'.bits) + 9 <= left - 1
    BY <1>2, <2>3, <2>4
  <2> QED
    BY <2>1, <2>5 DEF FirstReset
<1>9. CASE target.phase = "speak"
  <2> DEFINE l == Len(target.bits)
  <2>1. l \in Nat /\ l >= 1
    BY <1>9, Fields, SpokenIs, Limits DEF TargetOK
  <2>2. IF target.said = "OK" /\ ~IsRead(target.request) THEN l + DataBits + 10 <= left ELSE l + 9 <= left
    BY <1>9 DEF FirstReset
  <2>3. /\ target'.said = target.said /\ target'.request = target.request
        /\ IF l = 1 THEN target'.phase = "back" ELSE target'.phase = "speak" /\ Len(target'.bits) = l - 1
    BY <1>9, EdgeSpeak DEF Remembers
  <2> HIDE DEF l
  <2>4. CASE l = 1
    BY <1>2, <2>2, <2>3, <2>4 DEF FirstReset
  <2>5. CASE l # 1
    BY <1>2, <2>1, <2>2, <2>3, <2>5 DEF FirstReset
  <2> QED
    BY <2>4, <2>5
<1>10. CASE target.phase = "back"
  <2>1. /\ target'.bits = <<>>
        /\ target'.phase = IF target.said = "OK" /\ ~IsRead(target.request) THEN "data" ELSE "idle"
    BY <1>10, EdgeBack
  <2>2. IF target.said = "OK" /\ ~IsRead(target.request) THEN DataBits + 10 <= left ELSE 9 <= left
    BY <1>10 DEF FirstReset
  <2>3. Len(target'.bits) = 0
    BY <2>1, NoBits
  <2> QED
    BY <1>2, <2>1, <2>2, <2>3 DEF FirstReset
<1>11. CASE target.phase = "data"
  <2> DEFINE bits == Append(target.bits, b)
             l == Len(target.bits)
  <2>1. /\ Len(bits) = l + 1
        /\ IF l < DataBits THEN target'.phase = "data" /\ target'.bits = bits ELSE target'.phase = "idle"
    BY <1>11, EdgeData
  <2>2. DataBits + 9 - l <= left /\ l \in Nat /\ l <= DataBits
    BY <1>11, Fields DEF FirstReset, TargetOK
  <2> HIDE DEF bits, l
  <2>3. target'.phase = "data" => DataBits + 9 - Len(target'.bits) <= left - 1
    BY <1>2, <2>1, <2>2
  <2>4. target'.phase = "idle" => 8 <= left - 1
    BY <1>2, <2>1, <2>2
  <2> QED
    BY <2>1, <2>3, <2>4 DEF FirstReset
<1>12. CASE target.phase = "reset"
  <2>1. target'.phase = "reset"
    BY <1>12, EdgeReset
  <2> QED
    BY <2>1 DEF FirstReset
<1>13. CASE target.phase = "lost"
  <2>1. target'.phase \in {"reset", "lost"}
    BY <1>13, EdgeLost
  <2> QED
    BY <2>1 DEF FirstReset
<1> QED
  BY <1>1, <1>4, <1>5, <1>6, <1>7, <1>8, <1>9, <1>10, <1>11, <1>12, <1>13 DEF Phases

\* After it the target is in reset, deaf, or speaks JTAG and has seen a reset.
LEMMA FirstResetEnds ==
    TargetOK /\ FirstReset(0) => Switching(0)
<1> SUFFICES ASSUME TargetOK, FirstReset(0)
             PROVE  Switching(0)
  OBVIOUS
<1>1. /\ target.phase \in Phases /\ target.ones \in Nat /\ target.ones <= ResetSeen
      /\ Len(target.bits) \in Nat
  BY Fields, Limits
<1>2. DataBits \in Nat /\ ResetSeen \in Nat
  BY Limits
<1>3. CASE target.phase = "jtag"
  BY <1>1, <1>2, <1>3 DEF FirstReset, Switching
<1>4. CASE target.phase \in {"lost", "reset"}
  BY <1>4 DEF Switching
<1>5. target.phase # "switch" /\ target.phase # "data"
  BY <1>1, <1>2 DEF FirstReset, TargetOK
<1>6. target.phase # "idle" /\ target.phase # "turn" /\ target.phase # "back"
  BY <1>1, <1>2 DEF FirstReset
<1>7. target.phase # "packet"
  BY <1>1, <1>2 DEF FirstReset, TargetOK
<1>8. target.phase # "speak"
  BY <1>1, <1>2 DEF FirstReset
<1> QED
  BY <1>1, <1>3, <1>4, <1>5, <1>6, <1>7, <1>8 DEF Phases

\* A cycle of the switch sequence.
LEMMA SwitchingStep ==
    ASSUME TargetOK, TargetOK', NEW b \in Bit, Edge(b), NEW s \in 0 .. 15,
           b = SwitchBits[s + 1], Switching(s)
    PROVE  Switching(s + 1)'
<1>1. /\ target.phase \in Phases /\ target.ones \in Nat /\ target.bits \in Seq(Bit)
      /\ Len(target.bits) \in Nat
  BY Fields
<1>2. ResetSeen \in Nat /\ ResetSeen > 25
  BY Limits
<1> DEFINE o == Ones(b)
<1>o. o \in 0 .. ResetSeen /\ o <= target.ones + 1 /\ (b = 0 => o = 0)
  BY OnesAre
<1> HIDE DEF o
<1>3. o \in Nat /\ o <= target.ones + 1 /\ (b = 0 => o = 0)
  BY <1>2, <1>o
<1>4. s \in Nat /\ s <= 15 /\ s + 1 \in 1 .. 16
  OBVIOUS
<1> DEFINE bits == Append(target.bits, b)
           l == Len(target.bits)
<1>5. bits \in Seq(Bit) /\ Len(bits) = l + 1 /\ bits[l + 1] = b /\ \A i \in 1 .. l : bits[i] = target.bits[i]
  BY <1>1, AppendProperties
<1>6. CASE s = 0 /\ target.phase = "jtag" /\ target.ones = ResetSeen
  <2> DEFINE z == <<0>>
  <2>1. b = 0 /\ target'.phase = "switch" /\ target'.bits = z /\ target'.ones = o
    BY <1>6, SwitchIs, EdgeJtag DEF o
  <2>2. Len(z) = 1 /\ z[1] = 0
    OBVIOUS
  <2> HIDE DEF z
  <2>3. /\ s + 1 = 1 /\ 1 \in 1 .. 15 /\ target'.ones <= 1
        /\ \A i \in 1 .. 1 : z[i] = SwitchBits[i]
    BY <1>6, <1>3, <2>1, <2>2, SwitchIs
  <2>4. Len(target'.bits) = 1 /\ \A i \in 1 .. 1 : target'.bits[i] = SwitchBits[i]
    BY <2>1, <2>2, <2>3
  <2> QED
    BY <2>1, <2>3, <2>4 DEF Switching
<1>7. CASE s = 0 /\ target.phase = "lost"
  <2>1. b = 0
    BY <1>7, SwitchIs
  <2>2. target'.phase = "lost" /\ target'.ones = 0
    BY <1>2, <1>3, <1>7, <2>1, EdgeLost DEF o
  <2> QED
    BY <1>7, <2>2 DEF Switching
<1>8. CASE s = 0 /\ target.phase = "reset"
  <2>1. b = 0
    BY <1>8, SwitchIs
  <2>2. target'.phase = "idle" /\ target'.ones = 0
    BY <1>2, <1>3, <1>8, <2>1, EdgeReset DEF o
  <2> QED
    BY <1>8, <2>2 DEF Switching
<1>9. CASE s \in 1 .. 15 /\ target.phase = "switch" /\ l = s
           /\ target.ones <= s /\ \A i \in 1 .. s : target.bits[i] = SwitchBits[i]
  <2>1. /\ target'.ones = o
        /\ IF ~IsPrefix(bits, SwitchBits) THEN target'.phase = "jtag"
           ELSE IF bits = SwitchBits THEN target'.phase = "lost"
           ELSE target'.phase = "switch" /\ target'.bits = bits
    BY <1>9, EdgeSwitch DEF o
  <2> HIDE DEF bits, l
  <2>2. \A i \in 1 .. s + 1 : i \in 1 .. s \/ i = s + 1
    BY <1>4
  <2>3. Len(bits) = s + 1 /\ \A i \in 1 .. s + 1 : bits[i] = SwitchBits[i]
    BY <1>5, <1>9, <2>2
  <2>4. Len(SwitchBits) = 16 /\ SwitchBits \in Seq(Bit) /\ s + 1 <= 16
    BY <1>4, SwitchIs
  <2>a. Len(bits) <= Len(SwitchBits) /\ \A i \in 1 .. Len(bits) : bits[i] = SwitchBits[i]
    BY <2>3, <2>4
  <2>5. IsPrefix(bits, SwitchBits)
    BY <1>5, <2>4, <2>a, PrefixElements
  <2>6. target'.ones <= s + 1
    BY <1>1, <1>3, <1>4, <1>9, <2>1
  <2>7. CASE bits = SwitchBits
    BY <1>4, <2>1, <2>5, <2>6, <2>7 DEF Switching
  <2>8. CASE bits # SwitchBits
    <3>1. target'.phase = "switch" /\ target'.bits = bits
      BY <2>1, <2>5, <2>8
    <3>2. Len(target'.bits) <= 15
      BY <3>1 DEF TargetOK
    <3>3. Len(target'.bits) = s + 1 /\ \A i \in 1 .. s + 1 : target'.bits[i] = SwitchBits[i]
      BY <2>3, <3>1
    <3>4. s + 1 \in 1 .. 15
      BY <1>4, <3>2, <3>3
    <3> QED
      BY <2>6, <3>1, <3>3, <3>4 DEF Switching
  <2> QED
    BY <2>7, <2>8
<1>10. CASE s \in 1 .. 16 /\ target.phase = "lost" /\ target.ones <= s
  <2>1. o <= s + 1 /\ o # ResetSeen
    BY <1>1, <1>2, <1>3, <1>4, <1>10
  <2>2. target'.phase = "lost" /\ target'.ones = o
    BY <1>10, <2>1, EdgeLost DEF o
  <2> QED
    BY <1>4, <2>1, <2>2 DEF Switching
<1>11. CASE s = 1 /\ target.phase = "idle" /\ target.ones = 0
  <2>1. b = 1 /\ o <= 1
    BY <1>3, <1>11, SwitchIs
  <2>2. o # ResetSeen
    BY <1>2, <2>1
  <2>3. target'.phase = "packet" /\ target'.bits = <<>> /\ target'.ones = o
    BY <1>11, <2>1, <2>2, EdgeIdle DEF o
  <2>4. Len(target'.bits) = 0
    BY <2>3, NoBits
  <2>5. s + 1 = 2 /\ 2 \in 2 .. 8 /\ target'.ones <= 2 /\ 2 - 2 = 0
    BY <1>2, <1>3, <1>11, <2>1, <2>3
  <2> QED
    BY <2>3, <2>4, <2>5 DEF Switching
<1>12. CASE s \in 2 .. 8 /\ target.phase = "packet" /\ l = s - 2 /\ target.ones <= s
            /\ (s = 8 => target.bits[6] = 1)
  <2>1. o <= s + 1 /\ o # ResetSeen
    BY <1>1, <1>2, <1>3, <1>4, <1>12
  <2>2. /\ target'.ones = o
        /\ IF l < 6 THEN target'.phase = "packet" /\ target'.bits = bits
           ELSE IF WellFormed(bits) THEN TRUE ELSE target'.phase = "lost"
    BY <1>12, <2>1, EdgePacket DEF o
  <2> HIDE DEF bits, l
  <2>3. CASE s < 8
    <3>1. l < 6 /\ l + 1 = (s + 1) - 2 /\ s + 1 \in 2 .. 8
      BY <1>4, <1>12, <2>3
    <3>2. target'.phase = "packet" /\ target'.bits = bits /\ Len(bits) = (s + 1) - 2
      BY <1>5, <2>2, <3>1
    <3>3. s + 1 = 8 => l + 1 = 6 /\ b = 1
      BY <3>1, SwitchIs
    <3>4. s + 1 = 8 => target'.bits[6] = 1
      BY <1>5, <3>2, <3>3
    <3>5. Len(target'.bits) = (s + 1) - 2 /\ target'.ones <= s + 1
      BY <2>1, <2>2, <3>2
    <3> QED
      BY <3>1, <3>2, <3>4, <3>5 DEF Switching
  <2>4. CASE s = 8
    <3>1. l = 6 /\ 6 \in 1 .. l /\ ~(l < 6)
      BY <1>12, <2>4
    <3>2. bits[6] = 1
      BY <1>5, <1>12, <2>4, <3>1
    <3>3. ~WellFormed(bits)
      BY <3>2 DEF WellFormed
    <3>4. target'.phase = "lost" /\ target'.ones <= s + 1 /\ s + 1 \in 1 .. 16
      BY <1>4, <2>1, <2>2, <3>1, <3>3
    <3> QED
      BY <3>4 DEF Switching
  <2>5. s < 8 \/ s = 8
    BY <1>4, <1>12
  <2> QED
    BY <2>3, <2>4, <2>5
<1>13. \/ s = 0 /\ target.phase = "jtag" /\ target.ones = ResetSeen
       \/ s = 0 /\ target.phase \in {"lost", "reset"}
       \/ s \in 1 .. 15 /\ target.phase = "switch" /\ Len(target.bits) = s
            /\ target.ones <= s /\ \A i \in 1 .. s : target.bits[i] = SwitchBits[i]
       \/ s \in 1 .. 16 /\ target.phase = "lost" /\ target.ones <= s
       \/ s = 1 /\ target.phase = "idle" /\ target.ones = 0
       \/ s \in 2 .. 8 /\ target.phase = "packet" /\ Len(target.bits) = s - 2 /\ target.ones <= s
            /\ (s = 8 => target.bits[6] = 1)
  BY DEF Switching
<1>14. CASE s = 0 /\ target.phase \in {"lost", "reset"}
  BY <1>7, <1>8, <1>14
<1> QED
  BY <1>6, <1>9, <1>10, <1>11, <1>12, <1>13, <1>14

\* A cycle of the second reset.
LEMMA SecondResetStep ==
    ASSUME TargetOK, TargetOK', NEW b \in Bit, Edge(b), b = 1,
           NEW s \in Nat, (Switching(16) /\ s = 0) \/ SecondReset(s)
    PROVE  SecondReset(s + 1)'
<1>1. target.ones \in Nat /\ target.ones <= ResetSeen /\ ResetSeen \in Nat /\ ResetSeen > 25
  BY Fields, Limits
<1> DEFINE o == Ones(b)
<1>2. o = IF target.ones < ResetSeen THEN target.ones + 1 ELSE ResetSeen
  BY DEF Ones
<1> HIDE DEF o
<1>3. \/ target.phase = "lost" /\ s <= target.ones /\ target.ones < ResetSeen
      \/ target.phase = "reset" /\ target.fresh
  <2>1. CASE Switching(16) /\ s = 0
    BY <1>1, <2>1 DEF Switching
  <2>2. CASE SecondReset(s)
    BY <2>2 DEF SecondReset
  <2> QED
    BY <2>1, <2>2
<1>4. CASE target.phase = "lost" /\ s <= target.ones /\ target.ones < ResetSeen
  <2>1. /\ target'.ones = o
        /\ IF o = ResetSeen THEN target'.phase = "reset" /\ target'.fresh ELSE target'.phase = "lost"
    BY <1>4, EdgeLost DEF o
  <2>2. s + 1 <= o /\ o <= ResetSeen
    BY <1>1, <1>2, <1>4
  <2> QED
    BY <1>1, <1>2, <1>4, <2>1, <2>2 DEF SecondReset
<1>5. CASE target.phase = "reset" /\ target.fresh
  <2>1. target'.phase = "reset" /\ target'.fresh
    <3>1. IF Ones(b) = ResetSeen THEN target'.phase = "reset" /\ target'.fresh
          ELSE target'.fresh = target.fresh /\ target'.phase = IF b = 0 THEN "idle" ELSE "reset"
      BY <1>5, EdgeReset
    <3>2. b # 0
      OBVIOUS
    <3>3. target'.phase = "reset"
      BY <3>1, <3>2
    <3>4. target'.fresh
      BY <1>5, <3>1, Zenon
    <3> QED
      BY <3>3, <3>4
  <2> QED
    BY <2>1 DEF SecondReset
<1> QED
  BY <1>3, <1>4, <1>5

\* A cycle of the sequences.
LEMMA SequenceClock ==
    ASSUME HostOK, TargetOK, ~synced, InSequence, NEW b, Ticks(b)
    PROVE  InSequence'
<1>1. /\ b \in Bit /\ Edge(b) /\ TargetOK' /\ ToGo \in Nat /\ ToGo >= 1 /\ ToGo' = ToGo - 1
      /\ heard' = (IF todo[1].samples THEN Append(heard, b) ELSE heard)
      /\ ~(todo[1].drives /\ Drives) => Comes(Wire, b)
      /\ flips' = flips /\ call' = call
  BY DEF Ticks
<1>2. /\ ToGo <= 25 + 2 * ResetSent
      /\ flips = 0 /\ call = Connect /\ heard = <<>>
      /\ \A i \in 1 .. ToGo : todo[i] = SequenceLeft(ToGo + 1 - i)
  BY DEF InSequence
<1>3. todo[1] = SequenceLeft(ToGo) /\ \A i \in 1 .. ToGo' : todo'[i] = SequenceLeft(ToGo' + 1 - i)
  BY <1>2, SequenceShift
<1> DEFINE g == ToGo
           h == ToGo'
           R == ResetSent
<1>4. g \in Nat /\ g >= 1 /\ h = g - 1 /\ R \in Nat /\ R >= 25 /\ ResetSeen \in Nat /\ R >= ResetSeen
      /\ g <= 25 + 2 * R
  BY <1>1, <1>2, Limits
<1> HIDE DEF g, h, R
<1>5. ASSUME NEW v \in Bit, SequenceLeft(g) = Out(v)
      PROVE  heard' = heard /\ (target.phase = "speak" \/ b = v)
  <2>1. todo[1] = Out(v)
    BY <1>3, <1>5 DEF g
  <2>2. todo[1].drives = TRUE /\ todo[1].bit = v /\ todo[1].samples = FALSE
    BY <2>1, Cycles
  <2>3. Drives \/ Comes(v, b)
    BY <1>1, <2>2 DEF Wire
  <2> QED
    BY <1>1, <1>2, <2>2, <2>3 DEF Comes, Drives
<1>6. CASE g > 24 + R
  <2>0. g - (24 + R) \in Nat /\ h - (24 + R) = (g - (24 + R)) - 1
    BY <1>4, <1>6
  <2>1. PICK left \in Nat : left = g - (24 + R)
    BY <2>0
  <2>2. /\ left >= 1 /\ h - (24 + R) = left - 1 /\ h >= 24 + R /\ ~(h < 8 + R) /\ ~(h <= 8) /\ ~(h < 8)
        /\ h <= 25 + 2 * R
    BY <1>4, <1>6, <2>0, <2>1
  <2>3. FirstReset(left)
    <3>1. g >= 24 + R
      BY <1>4, <1>6
    <3> QED
      BY <3>1, <2>1 DEF InSequence, g, R
  <2>4. SequenceLeft(g) = Out(1) /\ 1 \in Bit
    BY <1>4, <1>6 DEF SequenceLeft, R, Bit
  <2>5. heard' = heard /\ (target.phase = "speak" \/ b = 1)
    BY <1>5, <2>4
  <2>6. FirstReset(left - 1)'
    BY <1>1, <2>2, <2>3, <2>5, FirstResetStep
  <2>7. h <= 24 + R => left - 1 = 0 /\ 24 + R - h = 0
    BY <1>4, <2>2
  <2>8. FirstReset(ToGo - (24 + ResetSent))'
    <3>1. ToGo' - (24 + ResetSent) = left - 1
      BY <2>2 DEF h, R
    <3> QED
      BY <2>6, <3>1 DEF FirstReset
  <2>9. h <= 24 + R => Switching(24 + ResetSent - ToGo)'
    <3> SUFFICES ASSUME h <= 24 + R PROVE Switching(24 + ResetSent - ToGo)'
      OBVIOUS
    <3>1. FirstReset(0)'
      <4>1. left - 1 = 0
        BY <2>7
      <4> QED
        BY <2>6, <4>1 DEF FirstReset
    <3>2. Switching(0)'
      BY <1>1, <3>1, FirstResetEnds, PTL
    <3>3. 24 + ResetSent - ToGo' = 0
      BY <2>7 DEF h, R
    <3> QED
      BY <3>2, <3>3 DEF Switching
  <2> QED
    BY <1>1, <1>2, <1>3, <2>2, <2>5, <2>8, <2>9 DEF InSequence, h, R
<1>7. CASE g <= 24 + R /\ g > 8 + R
  <2>0. 24 + R - g \in 0 .. 15 /\ 24 + R - h = (24 + R - g) + 1
    BY <1>4, <1>7
  <2>1. PICK s \in 0 .. 15 : s = 24 + R - g
    BY <2>0
  <2>2. /\ 24 + R - h = s + 1 /\ 25 + R - g = s + 1 /\ s + 1 \in 1 .. 16
        /\ h >= 8 + R /\ ~(h < 8 + R) /\ ~(h <= 8) /\ ~(h < 8) /\ ~(h >= 24 + R) /\ h <= 25 + 2 * R
    BY <1>4, <1>7, <2>0, <2>1
  <2>3. Switching(s)
    <3>1. g <= 24 + R /\ g >= 8 + R
      BY <1>4, <1>7
    <3> QED
      BY <3>1, <2>1 DEF InSequence, g, R
  <2>4. SequenceLeft(g) = Out(SwitchBits[s + 1]) /\ SwitchBits[s + 1] \in Bit
    <3>1. ~(g <= 8) /\ ~(g <= 8 + R) /\ g <= 24 + R
      BY <1>4, <1>7
    <3> QED
      BY <2>2, <3>1, SwitchIs DEF SequenceLeft, R
  <2>5. heard' = heard /\ b = SwitchBits[s + 1]
    <3>1. target.phase # "speak"
      BY <2>3 DEF Switching
    <3> QED
      BY <1>5, <2>4, <3>1
  <2>6. Switching(s + 1)'
    BY <1>1, <2>3, <2>5, SwitchingStep
  <2>7. Switching(24 + ResetSent - ToGo)'
    <3>1. 24 + ResetSent - ToGo' = s + 1
      BY <2>2 DEF h, R
    <3> QED
      BY <2>6, <3>1 DEF Switching
  <2> QED
    BY <1>1, <1>2, <1>3, <2>2, <2>5, <2>7 DEF InSequence, h, R
<1>8. CASE g <= 8 + R /\ g > 8
  <2>0. 8 + R - g \in Nat /\ 8 + R - h = (8 + R - g) + 1
    BY <1>4, <1>8
  <2>1. PICK s \in Nat : s = 8 + R - g
    BY <2>0
  <2>2. /\ 8 + R - h = s + 1 /\ h >= 8 /\ h < 8 + R /\ ~(h < 8) /\ ~(h >= 24 + R)
        /\ ~(h >= 8 + R) /\ h <= 25 + 2 * R
    BY <1>4, <1>8, <2>0, <2>1
  <2>3. (Switching(16) /\ s = 0) \/ SecondReset(s)
    <3>1. CASE g = 8 + R
      <4>1. g <= 24 + R /\ g >= 8 + R /\ s = 0 /\ 24 + R - g = 16
        BY <1>4, <2>1, <3>1
      <4>2. Switching(24 + R - g)
        BY <4>1 DEF InSequence, g, R
      <4> QED
        BY <4>1, <4>2
    <3>2. CASE g # 8 + R
      <4>1. g < 8 + R /\ g >= 8
        BY <1>4, <1>8, <3>2
      <4> QED
        BY <4>1, <2>1 DEF InSequence, g, R
    <3> QED
      BY <3>1, <3>2
  <2>4. SequenceLeft(g) = Out(1) /\ 1 \in Bit
    <3>1. ~(g <= 8) /\ g <= 8 + R
      BY <1>4, <1>8
    <3> QED
      BY <3>1 DEF SequenceLeft, R, Bit
  <2>5. heard' = heard /\ b = 1
    <3>1. target.phase # "speak"
      BY <2>3 DEF Switching, SecondReset
    <3> QED
      BY <1>5, <2>4, <3>1
  <2>6. SecondReset(s + 1)'
    BY <1>1, <2>3, <2>5, SecondResetStep
  <2>7. SecondReset(8 + ResetSent - ToGo)'
    <3>1. 8 + ResetSent - ToGo' = s + 1
      BY <2>2 DEF h, R
    <3> QED
      BY <2>6, <3>1 DEF SecondReset
  <2>8. h <= 8 => target'.fresh
    <3>1. SUFFICES ASSUME h <= 8 PROVE target'.fresh
      OBVIOUS
    <3>2. s + 1 >= ResetSeen
      BY <1>4, <2>2, <3>1
    <3>3. (target'.phase = "reset" /\ target'.fresh) \/ s + 1 < ResetSeen
      <4>1. target'.ones \in Nat
        BY <1>1, Limits DEF TargetOK, TargetType
      <4> QED
        BY <1>4, <2>6, <4>1 DEF SecondReset
    <3> QED
      BY <1>4, <3>2, <3>3
  <2> QED
    BY <1>1, <1>2, <1>3, <2>2, <2>5, <2>7, <2>8 DEF InSequence, h, R
<1>9. CASE g <= 8
  <2>1. target.fresh /\ target.phase \in {"idle", "reset"}
    <3>1. g <= 8 /\ (g >= 8 => g = 8)
      BY <1>4, <1>9
    <3>2. CASE g = 8
      <4>1. g < 8 + R /\ g >= 8 /\ 8 + R - g = R
        BY <1>4, <3>2
      <4>2. SecondReset(8 + R - g)
        BY <4>1 DEF InSequence, g, R
      <4>3. SecondReset(R)
        BY <4>1, <4>2
      <4>4. target.ones \in Nat
        BY Fields
      <4> QED
        BY <1>4, <4>3, <4>4 DEF SecondReset
    <3>3. CASE g # 8
      <4>1. g < 8 /\ g <= 8
        BY <1>4, <1>9, <3>3
      <4> QED
        BY <4>1 DEF InSequence, g
    <3> QED
      BY <3>2, <3>3
  <2>2. SequenceLeft(g) = Out(0) /\ 0 \in Bit
    BY <1>9 DEF SequenceLeft, Bit
  <2>3. heard' = heard /\ b = 0
    BY <1>5, <2>1, <2>2
  <2>4. Ones(b) = 0 /\ 0 # ResetSeen
    BY <2>3, Limits DEF Ones
  <2>5. target'.phase = "idle" /\ target'.ones = 0 /\ target'.fresh = target.fresh
    <3>1. Ones(b) # ResetSeen /\ b # 1 /\ b = 0 /\ Edge(b) /\ b \in Bit
      BY <1>1, <2>3, <2>4
    <3>2. CASE target.phase = "idle"
      <4>1. /\ target'.ones = Ones(b)
            /\ IF Ones(b) = ResetSeen THEN target'.phase = "reset" /\ target'.fresh
               ELSE /\ target'.fresh = target.fresh
                    /\ IF b = 1 THEN target'.phase = "packet" /\ target'.bits = <<>>
                       ELSE target'.phase = "idle"
        BY <3>1, <3>2, EdgeIdle
      <4> QED
        BY <2>4, <3>1, <4>1, Zenon
    <3>3. CASE target.phase = "reset"
      <4>1. /\ target'.ones = Ones(b)
            /\ IF Ones(b) = ResetSeen THEN target'.phase = "reset" /\ target'.fresh
               ELSE /\ target'.fresh = target.fresh
                    /\ target'.phase = IF b = 0 THEN "idle" ELSE "reset"
        BY <3>1, <3>3, EdgeReset
      <4> QED
        BY <2>4, <3>1, <4>1, Zenon
    <3> QED
      BY <2>1, <3>2, <3>3
  <2>6. /\ h < 8 /\ h <= 8 /\ ~(h >= 8) /\ ~(h >= 8 + R) /\ ~(h >= 24 + R) /\ h <= 25 + 2 * R
    BY <1>4, <1>9
  <2>7. target'.fresh
    BY <2>1, <2>5, Zenon
  <2> QED
    BY <1>1, <1>2, <1>3, <2>3, <2>5, <2>6, <2>7 DEF InSequence, h, R
<1> QED
  BY <1>4, <1>6, <1>7, <1>8, <1>9

-----------------------------------------------------------------------------
(***************************************************************************)
(* The request, up to the acknowledge.                                     *)
(***************************************************************************)

\* The line in the cycle after k others, unless the target speaks.
RequestLine(k) == IF k \in 1 .. 7 THEN PacketBits(Req)[k] ELSE 1

Asks(k, b) ==
  /\ b \in Bit /\ Edge(b) /\ TargetOK' /\ Req \in Requests /\ Req' = Req
  /\ flips \in {0, 1} /\ flips' \in {0, 1}
  /\ target.phase # "speak" => Comes(RequestLine(k), b)
  /\ target.phase = "speak" /\ k >= 9 => Comes(target.bits[1], b)
  /\ heard \in Seq(Bit) /\ heard' = IF k >= 9 THEN Append(heard, b) ELSE heard

\* What the cycle after k of the request drives and samples.
LEMMA RequestAsks ==
    ASSUME HostOK, TargetOK, NEW b, Ticks(b), NEW k \in 0 .. 11, ToGo = 12 - k,
           Req \in Requests, \A i \in 1 .. ToGo : todo[i] = RequestLeft(Req, ToGo + 1 - i)
    PROVE  Asks(k, b)
<1>1. todo[1] = RequestLeft(Req, 12 - k) /\ Req' = Req
  BY RequestShift
<1>2. heard' = IF todo[1].samples THEN Append(heard, b) ELSE heard
  BY DEF Ticks
<1>3. ~(todo[1].drives /\ Drives) => Comes(Wire, b)
  BY DEF Ticks
<1>4. Parity(Req) \in Bit /\ \A i \in 1 .. 4 : Req[i] \in Bit
  BY Request4 DEF Requests
<1>5. /\ \A i \in 1 .. 4 : PacketBits(Req)[i] = Req[i]
      /\ PacketBits(Req)[5] = Parity(Req) /\ PacketBits(Req)[6] = 0 /\ PacketBits(Req)[7] = 1
  BY PacketSent
<1>6. heard \in Seq(Bit) /\ b \in Bit /\ Edge(b) /\ TargetOK' /\ flips \in {0, 1} /\ flips' \in {0, 1}
  BY DEF HostOK, Ticks
<1>7. ASSUME NEW v \in Bit, todo[1] = Out(v), v = RequestLine(k), k <= 8 PROVE Asks(k, b)
  <2>1. todo[1].drives = TRUE /\ todo[1].bit = v /\ todo[1].samples = FALSE
    BY <1>7, Cycles
  <2>2. heard' = heard /\ (target.phase # "speak" => Comes(v, b))
    BY <1>2, <1>3, <2>1 DEF Wire, Drives
  <2> QED
    BY <1>1, <1>6, <1>7, <2>2 DEF Asks
<1>8. ASSUME k = 8 PROVE Asks(k, b)
  <2>1. todo[1] = Turn
    BY <1>1, <1>8 DEF RequestLeft
  <2>2. todo[1].drives = FALSE /\ todo[1].samples = FALSE
    BY <2>1, Cycles
  <2>3. heard' = heard /\ (target.phase # "speak" => Comes(1, b))
    BY <1>2, <1>3, <2>2 DEF Wire
  <2>4. RequestLine(k) = 1
    BY <1>8 DEF RequestLine
  <2> QED
    BY <1>1, <1>6, <1>8, <2>3, <2>4 DEF Asks
<1>9. ASSUME k >= 9 PROVE Asks(k, b)
  <2>0. ~(12 - k = 12) /\ ~(12 - k >= 8) /\ 12 - k # 7 /\ 12 - k # 6 /\ 12 - k # 5 /\ 12 - k # 4
    BY <1>9
  <2>1. todo[1] = In
    BY <1>1, <2>0 DEF RequestLeft
  <2>2. todo[1].drives = FALSE /\ todo[1].samples = TRUE
    BY <2>1, Cycles
  <2>3. heard' = Append(heard, b) /\ Comes(IF target.phase = "speak" THEN target.bits[1] ELSE 1, b)
    BY <1>2, <1>3, <2>2 DEF Wire
  <2>4. RequestLine(k) = 1
    BY <1>9 DEF RequestLine
  <2> QED
    BY <1>1, <1>6, <1>9, <2>3, <2>4 DEF Asks
<1>10. CASE k = 0
  <2>1. todo[1] = Out(1) /\ 1 \in Bit /\ 1 = RequestLine(k)
    BY <1>1, <1>10 DEF RequestLeft, RequestLine, Bit
  <2> QED
    BY <1>7, <1>10, <2>1
<1>11. CASE k \in 1 .. 4
  <2>1. 12 - k # 12 /\ 12 - k >= 8 /\ 12 - (12 - k) = k /\ k \in 1 .. 7
    BY <1>11
  <2>2. todo[1] = Out(Req[k]) /\ Req[k] \in Bit
    BY <1>1, <1>4, <1>11, <2>1 DEF RequestLeft
  <2>3. Req[k] = RequestLine(k)
    BY <1>5, <1>11, <2>1 DEF RequestLine
  <2> QED
    BY <1>7, <1>11, <2>2, <2>3
<1>12. CASE k = 5
  <2>1. todo[1] = Out(Parity(Req)) /\ Parity(Req) = RequestLine(k)
    BY <1>1, <1>5, <1>12 DEF RequestLeft, RequestLine
  <2> QED
    BY <1>4, <1>7, <1>12, <2>1
<1>13. CASE k = 6
  <2>1. todo[1] = Out(0) /\ 0 = RequestLine(k) /\ 0 \in Bit
    BY <1>1, <1>5, <1>13 DEF RequestLeft, RequestLine, Bit
  <2> QED
    BY <1>7, <1>13, <2>1
<1>14. CASE k = 7
  <2>1. todo[1] = Out(1) /\ 1 = RequestLine(k) /\ 1 \in Bit
    BY <1>1, <1>5, <1>14 DEF RequestLeft, RequestLine, Bit
  <2> QED
    BY <1>7, <1>14, <2>1
<1>15. k = 0 \/ k \in 1 .. 4 \/ k = 5 \/ k = 6 \/ k = 7 \/ k = 8 \/ k >= 9
  OBVIOUS
<1> QED
  BY <1>8, <1>9, <1>10, <1>11, <1>12, <1>13, <1>14, <1>15

\* Once a bit has come wrong the others come right.
LEMMA Rest ==
    ASSUME NEW v \in Bit, NEW b \in Bit, Comes(v, b), flips = 1
    PROVE  b = v /\ flips' = 1
  BY DEF Comes

\* A request of which a bit is wrong is refused.
LEMMA Judged ==
    ASSUME NEW s \in Seq(Bit), Len(s) = 7, NEW r \in Requests, target.fresh => r = IdCode
    PROVE  /\ Arrived(s, PacketBits(r)) => WellFormed(s) /\ SubSeq(s, 1, 4) = r
           /\ Spoilt(s, PacketBits(r)) => ~WellFormed(s)
<1> DEFINE p == PacketBits(r)
           q == SubSeq(s, 1, 4)
<1>1. /\ p \in Seq(Bit) /\ Len(p) = 7 /\ (\A i \in 1 .. 4 : p[i] = r[i])
      /\ p[5] = Parity(r) /\ p[6] = 0 /\ p[7] = 1
  BY PacketSent
<1>2. q = [i \in 1 .. 4 |-> s[i]]
  OBVIOUS
<1>3. r \in Seq(Bit) /\ Len(r) = 4 /\ Parity(r) \in Bit /\ r \in [1 .. 4 -> Bit]
  BY Request4 DEF Requests
<1>a. \A i \in 1 .. 7 : i \in 1 .. Len(s)
  OBVIOUS
<1>4. \A i \in 1 .. 7 : s[i] \in Bit
  BY <1>a, ElementOfSeq
<1>b. WellFormed(s) <=> /\ s[5] = Parity(q) /\ s[6] = 0 /\ s[7] = 1
                        /\ target.fresh => q = IdCode
  BY DEF WellFormed
<1> HIDE DEF q
<1>c. \A i \in 1 .. 4 : s[i] \in Bit
  BY <1>4
<1>5. q \in [1 .. 4 -> Bit] /\ \A i \in 1 .. 4 : q[i] = s[i]
  <2> DEFINE g == [i \in 1 .. 4 |-> s[i]]
  <2>1. g \in [1 .. 4 -> Bit]
    BY <1>c
  <2>2. \A i \in 1 .. 4 : g[i] = s[i]
    OBVIOUS
  <2> HIDE DEF g
  <2>3. q = g
    BY <1>2 DEF g
  <2> QED
    BY <2>1, <2>2, <2>3, Zenon
<1>6. q \in Seq(Bit) /\ Len(q) = 4
  <2>1. q \in Requests
    BY <1>5 DEF Requests
  <2> QED
    BY <2>1, Request4
<1>7. WellFormed(s) <=> /\ s[5] = Parity(q) /\ s[6] = 0 /\ s[7] = 1
                        /\ target.fresh => q = IdCode
  BY <1>b
<1> HIDE DEF p
<1>8. ASSUME Arrived(s, p) PROVE WellFormed(s) /\ q = r
  <2>1. \A i \in 1 .. 7 : s[i] = p[i]
    BY <1>8 DEF Arrived
  <2>2. q = r
    BY <1>1, <1>3, <1>5, <2>1
  <2> QED
    BY <1>1, <1>7, <2>1, <2>2
<1>9. ASSUME Spoilt(s, p) PROVE ~WellFormed(s)
  <2>1. PICK j \in 1 .. 7 : s[j] = 1 - p[j] /\ \A i \in 1 .. 7 : i # j => s[i] = p[i]
    BY <1>9 DEF Spoilt
  <2>2. CASE j \in 1 .. 4
    <3>1. q[j] = 1 - r[j] /\ \A i \in 1 .. 4 : i # j => q[i] = r[i]
      BY <1>1, <1>5, <2>1, <2>2
    <3>2. Spoilt(q, r)
      BY <1>6, <2>2, <3>1 DEF Spoilt
    <3>3. Parity(q) = 1 - Parity(r)
      BY <1>3, <1>6, <3>2, ParityFlip
    <3>4. s[5] = Parity(r)
      BY <1>1, <2>1, <2>2
    <3> QED
      BY <1>3, <1>7, <3>3, <3>4 DEF Bit
  <2>3. CASE j = 5
    <3>1. q = r
      BY <1>1, <1>3, <1>5, <2>1, <2>3
    <3>2. s[5] = 1 - Parity(q)
      BY <1>1, <2>1, <2>3, <3>1
    <3> QED
      BY <1>3, <1>7, <3>1, <3>2 DEF Bit
  <2>4. CASE j = 6
    <3>1. s[6] = 1
      BY <1>1, <2>1, <2>4
    <3> QED
      BY <1>7, <3>1
  <2>5. CASE j = 7
    <3>1. s[7] = 0
      BY <1>1, <2>1, <2>5
    <3> QED
      BY <1>7, <3>1
  <2> QED
    BY <2>1, <2>2, <2>3, <2>4, <2>5
<1> QED
  BY <1>8, <1>9 DEF p, q

\* The start bit.
LEMMA WaitingStep ==
    ASSUME TargetOK, NEW b, Asks(0, b), Waiting, Len(heard) = 0
    PROVE  (Collecting(1)' \/ Missed(1)') /\ bad' = bad
<1>1. /\ b \in Bit /\ Edge(b) /\ TargetOK' /\ Req \in Requests /\ Req' = Req /\ heard' = heard
      /\ flips \in {0, 1} /\ flips' \in {0, 1} /\ (target.phase # "speak" => Comes(RequestLine(0), b))
  BY DEF Asks
<1>2. target.phase = "idle" /\ done = <<>> /\ target.ones = 0 /\ (target.fresh => Req = IdCode)
  BY DEF Waiting
<1>3. Comes(1, b)
  BY <1>1, <1>2 DEF RequestLine
<1> DEFINE o == Ones(b)
<1>4. o \in Nat /\ o <= 1 /\ (b = 0 => o = 0) /\ (b = 1 => o = 1) /\ o # ResetSeen
  BY <1>2, Limits DEF Ones, Bit
<1>5. /\ done' = done /\ bad' = bad /\ target'.ones = o
      /\ IF o = ResetSeen THEN target'.phase = "reset" /\ target'.fresh
         ELSE /\ target'.fresh = target.fresh
              /\ IF b = 1 THEN target'.phase = "packet" /\ target'.bits = <<>>
                 ELSE target'.phase = "idle"
  BY <1>1, <1>2, EdgeIdle DEF Recorded
<1> HIDE DEF o
<1>6. CASE b = 1
  <2>1. /\ target'.phase = "packet" /\ target'.bits = <<>> /\ target'.fresh = target.fresh
        /\ done' = <<>> /\ target'.ones = 1
    BY <1>2, <1>4, <1>5, <1>6
  <2>2. Len(target'.bits) = 0
    BY <2>1, NoBits
  <2>3. Got(target.bits, PacketBits(Req))'
    BY <2>2 DEF Got, Arrived
  <2>4. target'.fresh => Req' = IdCode
    BY <1>1, <1>2, <2>1
  <2> QED
    BY <1>5, <2>1, <2>2, <2>3, <2>4 DEF Collecting
<1>7. CASE b = 0
  <2>1. flips' = 1
    BY <1>3, <1>7 DEF Comes
  <2>2. target'.phase = "idle" /\ target'.ones = 0 /\ done' = <<>>
    BY <1>2, <1>4, <1>5, <1>7
  <2>3. \A i \in 1 .. Len(heard') : heard'[i] = 1
    BY <1>1
  <2> QED
    BY <1>5, <2>1, <2>2, <2>3 DEF Missed
<1> QED
  BY <1>1, <1>6, <1>7 DEF Bit

\* The bits of the packet.
LEMMA CollectingStep ==
    ASSUME TargetOK, NEW k \in 1 .. 7, NEW b, Asks(k, b), Collecting(k), Len(heard) = 0
    PROVE  (IF k <= 6 THEN Collecting(k + 1)' ELSE Turning' \/ Deaf(8)') /\ bad' = bad
<1>1. /\ b \in Bit /\ Edge(b) /\ TargetOK' /\ Req \in Requests /\ Req' = Req
      /\ flips \in {0, 1} /\ flips' \in {0, 1} /\ (target.phase # "speak" => Comes(RequestLine(k), b))
      /\ heard' = heard
  BY DEF Asks
<1>2. /\ target.phase = "packet" /\ Len(target.bits) = k - 1 /\ done = <<>>
      /\ Got(target.bits, PacketBits(Req))
      /\ target.fresh => Req = IdCode
      /\ target.ones <= k - 2 \/ (target.ones = k /\ \A i \in 1 .. k - 1 : target.bits[i] = 1)
      /\ k = 6 => target.ones <= 4 \/ flips = 1
      /\ k = 7 => target.ones <= 5
  BY DEF Collecting
<1> DEFINE p == PacketBits(Req)
           s == target.bits
           bits == Append(target.bits, b)
           o == Ones(b)
<1>3. /\ p \in Seq(Bit) /\ Len(p) = 7 /\ (\A i \in 1 .. 4 : p[i] = Req[i])
      /\ p[5] = Parity(Req) /\ p[6] = 0 /\ p[7] = 1
  BY <1>1, PacketSent
<1>4. Comes(p[k], b)
  BY <1>1, <1>2 DEF RequestLine
<1>5. s \in Seq(Bit) /\ target.ones \in Nat /\ Len(s) \in Nat /\ ResetSeen \in Nat /\ ResetSeen > 25
  BY Fields, Limits
<1>6. o \in Nat /\ o <= target.ones + 1 /\ (b = 0 => o = 0) /\ (b = 1 /\ target.ones < ResetSeen => o = target.ones + 1)
  BY <1>1, <1>5, OnesAre
<1>7. bits \in Seq(Bit) /\ Len(bits) = k /\ bits[k] = b /\ \A i \in 1 .. k - 1 : bits[i] = s[i]
  BY <1>1, <1>2, <1>5, AppendProperties
<1>8. /\ done' = done /\ bad' = bad /\ target'.ones = o
      /\ IF o = ResetSeen THEN target'.phase = "reset" /\ target'.fresh
         ELSE /\ target'.fresh = target.fresh
              /\ IF Len(s) < 6 THEN target'.phase = "packet" /\ target'.bits = bits
                 ELSE IF WellFormed(bits)
                   THEN target'.phase = "turn" /\ target'.request = SubSeq(bits, 1, 4)
                   ELSE target'.phase = "lost"
  BY <1>1, <1>2, EdgePacket
<1>9. Arrived(bits, p) \/ (flips' = 1 /\ Spoilt(bits, p))
  <2>1. Len(s) + 1 = k /\ Len(s) < Len(p)
    BY <1>2, <1>3, <1>5
  <2>2. Comes(p[Len(s) + 1], b)
    BY <1>4, <2>1
  <2>3. Got(s, p)
    BY <1>2
  <2> HIDE DEF p, s
  <2>4. Arrived(Append(s, b), p) \/ (flips' = 1 /\ Spoilt(Append(s, b), p))
    BY <1>1, <1>3, <1>5, <2>1, <2>2, <2>3, GotMore
  <2> QED
    BY <2>4 DEF s
<1>10. target'.fresh = target.fresh => (target'.fresh => Req' = IdCode)
  BY <1>1, <1>2, Zenon
<1>s. Len(s) = k - 1
  BY <1>2
<1>o. /\ target.ones <= k - 2 \/ (target.ones = k /\ \A i \in 1 .. k - 1 : s[i] = 1)
      /\ k = 6 => target.ones <= 4 \/ flips = 1
      /\ k = 7 => target.ones <= 5
  BY <1>2
<1>g. Got(s, p)
  BY <1>2
<1> HIDE DEF p, s, bits, o
<1>11. o <= k + 1 /\ o # ResetSeen
  BY <1>5, <1>6, <1>o
<1>12. CASE k <= 6
  <2>1. Len(s) < 6 /\ (k + 1) - 1 = k /\ (k + 1) - 2 = k - 1
    BY <1>s, <1>12
  <2>2. /\ target'.phase = "packet" /\ target'.bits = bits /\ target'.fresh = target.fresh
        /\ target'.ones = o /\ done' = <<>>
    BY <1>2, <1>8, <1>11, <2>1
  <2>3. Got(target.bits, PacketBits(Req))'
    <3>1. Arrived(target'.bits, PacketBits(Req')) \/ (flips' = 1 /\ Spoilt(target'.bits, PacketBits(Req')))
      BY <1>1, <1>9, <2>2 DEF p
    <3> QED
      BY <3>1 DEF Got, Arrived, Spoilt
  <2>4. o <= k - 1 \/ (o = k + 1 /\ \A i \in 1 .. k : bits[i] = 1)
    <3>1. CASE b = 0 \/ target.ones <= k - 2
      BY <1>5, <1>6, <3>1
    <3>2. CASE b = 1 /\ target.ones = k /\ \A i \in 1 .. k - 1 : s[i] = 1
      <4>1. \A i \in 1 .. k : i = k \/ i \in 1 .. k - 1
        OBVIOUS
      <4>2. \A i \in 1 .. k : bits[i] = 1
        BY <1>7, <3>2, <4>1
      <4>3. o = k + 1
        BY <1>5, <1>6, <3>2
      <4> QED
        BY <4>2, <4>3
    <3> QED
      BY <1>1, <1>o, <3>1, <3>2 DEF Bit
  <2>5. k = 5 => o <= 4 \/ flips' = 1
    <3> SUFFICES ASSUME k = 5, ~(o <= 4) PROVE flips' = 1
      OBVIOUS
    <3>1. b = 1 /\ \A i \in 1 .. 4 : s[i] = 1
      BY <1>1, <1>5, <1>6, <1>o DEF Bit
    <3>2. CASE flips = 1
      BY <1>4, <3>2 DEF Comes
    <3>3. CASE flips = 0
      <4>1. Arrived(s, p)
        BY <1>g, <3>3 DEF Got
      <4>2. \A i \in 1 .. 4 : Req[i] = 1
        BY <1>3, <1>s, <3>1, <4>1 DEF Arrived
      <4>3. Req \in Seq(Bit) /\ Len(Req) = 4
        BY <1>1, Request4 DEF Requests
      <4>a. \A i \in 1 .. Len(Req) : Req[i] = 1
        BY <4>2, <4>3
      <4>4. Parity(Req) = 0
        <5>1. Parity(Req) = Len(Req) % 2
          BY <4>3, <4>a, ParityOnes
        <5> QED
          BY <4>3, <5>1
      <4> QED
        BY <1>3, <1>4, <3>1, <4>4 DEF Comes
    <3> QED
      BY <1>1, <3>2, <3>3
  <2>6. k = 6 => o <= 5
    <3> SUFFICES ASSUME k = 6, ~(o <= 5) PROVE FALSE
      OBVIOUS
    <3>1. b = 1 /\ ~(target.ones <= 4)
      BY <1>1, <1>5, <1>6 DEF Bit
    <3>2. flips = 1
      BY <1>o, <3>1
    <3> QED
      BY <1>3, <1>4, <3>1, <3>2 DEF Comes
  <2>7. k + 1 = 6 <=> k = 5
    OBVIOUS
  <2>8. k + 1 = 7 <=> k = 6
    OBVIOUS
  <2>9. /\ target'.ones <= (k + 1) - 2
             \/ (target'.ones = k + 1 /\ \A i \in 1 .. (k + 1) - 1 : target'.bits[i] = 1)
        /\ k + 1 = 6 => target'.ones <= 4 \/ flips' = 1
        /\ k + 1 = 7 => target'.ones <= 5
        /\ Len(target'.bits) = (k + 1) - 1
    BY <1>7, <2>1, <2>2, <2>4, <2>5, <2>6, <2>7, <2>8
  <2>10. target'.fresh => Req' = IdCode
    BY <1>10, <2>2
  <2>11. Collecting(k + 1)'
    BY <2>2, <2>3, <2>9, <2>10 DEF Collecting
  <2> QED
    BY <1>8, <1>12, <2>11
<1>13. CASE k = 7
  <2>1. ~(Len(s) < 6) /\ Len(bits) = 7 /\ o <= 6
    BY <1>5, <1>6, <1>7, <1>s, <1>o, <1>13
  <2>2. /\ Arrived(bits, p) => WellFormed(bits) /\ SubSeq(bits, 1, 4) = Req
        /\ Spoilt(bits, p) => ~WellFormed(bits)
    BY <1>1, <1>2, <1>7, <2>1, Judged DEF p
  <2>3. CASE Arrived(bits, p)
    <3>1. /\ target'.phase = "turn" /\ target'.request = Req /\ target'.fresh = target.fresh
          /\ done' = <<>>
      BY <1>2, <1>8, <1>11, <2>1, <2>2, <2>3
    <3>2. target'.fresh => Req' = IdCode
      BY <1>10, <3>1
    <3>3. Turning'
      BY <1>1, <3>1, <3>2 DEF Turning
    <3> QED
      BY <1>8, <1>13, <3>3
  <2>4. CASE flips' = 1 /\ Spoilt(bits, p)
    <3>1. target'.phase = "lost" /\ done' = <<>> /\ target'.ones = o
      BY <1>2, <1>8, <1>11, <2>1, <2>2, <2>4
    <3>2. \A i \in 1 .. Len(heard') : heard'[i] = 1
      BY <1>1
    <3>3. Deaf(8)'
      BY <2>1, <2>4, <3>1, <3>2 DEF Deaf
    <3> QED
      BY <1>8, <1>13, <3>3
  <2> QED
    BY <1>9, <2>3, <2>4
<1> QED
  BY <1>12, <1>13

\* The turnaround: the target makes up its mind.
LEMMA TurningStep ==
    ASSUME TargetOK, NEW b, Asks(8, b), Turning, Len(heard) = 0
    PROVE  Answered' /\ Saying(Len(Spoken))' /\ bad' = bad
<1>1. b \in Bit /\ Edge(b) /\ TargetOK' /\ Req \in Requests /\ Req' = Req /\ heard' = heard
  BY DEF Asks
<1>2. /\ target.phase = "turn" /\ target.request = Req /\ done = <<>>
      /\ target.fresh => Req = IdCode
  BY DEF Turning
<1>3. /\ target'.phase = "speak" /\ target'.ones = 0 /\ bad' = bad
      /\ target'.request = Req /\ target'.bits = Spoken'
      /\ Len(Spoken') = IF target'.said = "OK" /\ IsRead(Req) THEN DataBits + 4 ELSE 3
      /\ Req = IdCode => target'.said = "OK"
      /\ IF target'.said = "OK" /\ IsRead(Req)
           THEN /\ target'.sent \in Words /\ ~target'.fresh
                /\ done' = Append(done, [request |-> Req, word |-> <<>>])
           ELSE target'.fresh = target.fresh /\ done' = done
  BY <1>1, <1>2, EdgeTurn
<1>4. ~target'.fresh
  <2>1. CASE target'.said = "OK" /\ IsRead(Req)
    BY <1>3, <2>1
  <2>2. CASE ~(target'.said = "OK" /\ IsRead(Req))
    <3>1. IsRead(IdCode)
      BY DEF IsRead, IdCode
    <3>2. Req # IdCode
      BY <1>3, <2>2, <3>1
    <3>3. ~target.fresh
      BY <1>2, <3>2, Zenon
    <3>4. target'.fresh = target.fresh
      BY <1>3, <2>2
    <3> QED
      BY <3>3, <3>4, Zenon
  <2> QED
    BY <2>1, <2>2
<1>5. done' = IF target'.said = "OK" /\ IsRead(Req) THEN <<[request |-> Req, word |-> <<>>]>> ELSE <<>>
  <2> DEFINE a == [request |-> Req, word |-> <<>>]
  <2>1. Append(<<>>, a) = <<a>>
    OBVIOUS
  <2>2. done' = IF target'.said = "OK" /\ IsRead(Req) THEN Append(done, a) ELSE done
    BY <1>3
  <2> HIDE DEF a
  <2>3. done' = IF target'.said = "OK" /\ IsRead(Req) THEN <<a>> ELSE <<>>
    BY <1>2, <2>1, <2>2, Zenon
  <2> QED
    BY <2>3 DEF a
<1>6. Got(heard, Spoken)'
  <2>1. Len(heard') = 0
    BY <1>1
  <2> QED
    BY <2>1 DEF Got, Arrived
<1>7. Answered'
  <2>1. target'.said = "OK" => target'.sent \in Words \/ ~IsRead(Req')
    BY <1>1, <1>3
  <2> QED
    BY <1>1, <1>3, <1>4, <1>5, <1>6, <2>1 DEF Answered
<1>8. Saying(Len(Spoken))'
  <2> DEFINE l == Len(Spoken')
             s == Spoken'
  <2>1. l \in Nat /\ l # 0
    BY <1>3, Limits
  <2>2. target'.phase = "speak" /\ target'.bits = s
    BY <1>3
  <2>3. l = Len(s)
    OBVIOUS
  <2> HIDE DEF l, s
  <2>4. Len(target'.bits) = l /\ \A i \in 1 .. l : target'.bits[i] = s[l - l + i]
    BY <2>1, <2>2, <2>3
  <2>5. /\ target'.phase = "speak" /\ Len(target'.bits) = l
        /\ \A i \in 1 .. l : target'.bits[i] = s[Len(s) - l + i]
    BY <2>2, <2>3, <2>4
  <2> QED
    BY <2>1, <2>5 DEF Saying, l, s
<1> QED
  BY <1>3, <1>7, <1>8

\* What the target says, a bit less.
LEMMA SayingStep ==
    ASSUME TargetOK, TargetOK', NEW b \in Bit, Edge(b), NEW left \in Nat, left >= 1, Saying(left)
    PROVE  /\ Saying(left - 1)' /\ Spoken' = Spoken /\ done' = done /\ bad' = bad
           /\ target'.request = target.request /\ target'.said = target.said /\ target'.sent = target.sent
           /\ target'.ones = target.ones /\ target'.fresh = target.fresh
           /\ target.phase = "speak" /\ left <= Len(Spoken)
           /\ target.bits[1] = Spoken[Len(Spoken) - left + 1]
<1>1. /\ target.phase = "speak" /\ Len(target.bits) = left
      /\ \A i \in 1 .. left : target.bits[i] = Spoken[Len(Spoken) - left + i]
  BY DEF Saying
<1>2. /\ done' = done /\ bad' = bad /\ Remembers
      /\ target'.ones = target.ones /\ target'.fresh = target.fresh
      /\ IF Len(target.bits) = 1 THEN target'.phase = "back"
         ELSE /\ target'.phase = "speak" /\ Len(target'.bits) = Len(target.bits) - 1
              /\ \A i \in 1 .. Len(target'.bits) : target'.bits[i] = target.bits[i + 1]
  BY <1>1, EdgeSpeak
<1>3. Spoken' = Spoken
  BY <1>2 DEF Spoken, Remembers
<1>4. Len(Spoken) \in Nat /\ left <= Len(Spoken)
  BY <1>1, SpokenIs, Limits DEF TargetOK
<1> DEFINE s == Spoken
           l == Len(Spoken)
<1>5. l \in Nat /\ left <= l /\ l = Len(s) /\ Spoken' = s
  BY <1>3, <1>4
<1>6. \A i \in 1 .. left : target.bits[i] = s[l - left + i]
  BY <1>1
<1> HIDE DEF s, l
<1>7. Saying(left - 1)'
  <2>1. CASE left = 1
    <3>1. target'.phase = "back" /\ left - 1 = 0
      BY <1>1, <1>2, <2>1
    <3> QED
      BY <3>1 DEF Saying
  <2>2. CASE left # 1
    <3>a. Len(target.bits) = left /\ left # 1
      BY <1>1, <2>2
    <3>b. /\ target'.phase = "speak" /\ Len(target'.bits) = Len(target.bits) - 1
          /\ \A i \in 1 .. Len(target'.bits) : target'.bits[i] = target.bits[i + 1]
      BY <1>2, <3>a
    <3>c. Len(target'.bits) = left - 1 /\ left - 1 # 0
      BY <3>a, <3>b
    <3>1. /\ target'.phase = "speak" /\ Len(target'.bits) = left - 1 /\ left - 1 # 0
          /\ \A i \in 1 .. left - 1 : target'.bits[i] = target.bits[i + 1]
      BY <3>b, <3>c
    <3>2. ASSUME NEW i \in 1 .. left - 1
          PROVE  target'.bits[i] = s[l - (left - 1) + i]
      <4>1. i + 1 \in 1 .. left /\ l - left + (i + 1) = l - (left - 1) + i
        BY <1>5
      <4>2. target.bits[i + 1] = s[l - left + (i + 1)]
        BY <1>6, <4>1
      <4> QED
        BY <3>1, <4>1, <4>2
    <3>3. \A i \in 1 .. left - 1 : target'.bits[i] = Spoken'[Len(Spoken') - (left - 1) + i]
      BY <1>5, <3>2
    <3> QED
      BY <3>1, <3>3 DEF Saying
  <2> QED
    BY <2>1, <2>2
<1>8. target.bits[1] = s[l - left + 1]
  BY <1>6
<1> QED
  BY <1>1, <1>2, <1>3, <1>4, <1>7, <1>8 DEF Remembers, s, l

\* The acknowledge.
LEMMA AnsweredStep ==
    ASSUME TargetOK, NEW k \in 9 .. 11, NEW b, Asks(k, b), Answered, Saying(Len(Spoken) - (k - 9)),
           Len(heard) = k - 9
    PROVE  Answered' /\ Saying(Len(Spoken) - (k + 1 - 9))' /\ bad' = bad
<1>1. /\ b \in Bit /\ Edge(b) /\ TargetOK' /\ Req \in Requests /\ Req' = Req
      /\ flips \in {0, 1} /\ flips' \in {0, 1} /\ heard \in Seq(Bit)
      /\ target.phase = "speak" => Comes(target.bits[1], b)
      /\ heard' = Append(heard, b)
  BY DEF Asks
<1> DEFINE l == Len(Spoken)
           s == Spoken
<1>2. s \in Seq(Bit) /\ l \in Nat /\ l >= 3 /\ l = Len(s)
  BY SpokenIs, Limits
<1>3. Saying(l - (k - 9))
  OBVIOUS
<1> HIDE DEF l, s
<1>a. l - (k - 9) \in Nat /\ l - (k - 9) >= 1
  BY <1>2
<1>4. PICK left \in Nat : left = l - (k - 9) /\ left >= 1
  BY <1>a
<1>5. /\ Saying(left - 1)' /\ Spoken' = Spoken /\ done' = done /\ bad' = bad
      /\ target'.request = target.request /\ target'.said = target.said /\ target'.sent = target.sent
      /\ target'.ones = target.ones /\ target'.fresh = target.fresh
      /\ target.phase = "speak" /\ target.bits[1] = s[l - left + 1]
  BY <1>1, <1>3, <1>4, SayingStep DEF l, s
<1>6. l - left + 1 = Len(heard) + 1 /\ Len(heard) < Len(s)
  BY <1>2, <1>4
<1>7. Comes(s[Len(heard) + 1], b)
  BY <1>1, <1>5, <1>6
<1>8. Got(heard, s)
  BY DEF Answered, s
<1>9. Arrived(Append(heard, b), s) \/ (flips' = 1 /\ Spoilt(Append(heard, b), s))
  BY <1>1, <1>2, <1>6, <1>7, <1>8, GotMore
<1>10. Got(heard, Spoken)'
  <2>1. Arrived(heard', Spoken') \/ (flips' = 1 /\ Spoilt(heard', Spoken'))
    BY <1>1, <1>5, <1>9 DEF s
  <2> QED
    BY <2>1 DEF Got, Arrived, Spoilt
<1>11. Answered'
  <2>1. ~target'.fresh
    <3>1. ~target.fresh
      BY DEF Answered
    <3> QED
      BY <1>5, <3>1, Zenon
  <2> QED
    BY <1>1, <1>5, <1>10, <2>1 DEF Answered
<1>12. Saying(Len(Spoken) - (k + 1 - 9))'
  <2>1. Len(Spoken') - (k + 1 - 9) = left - 1
    BY <1>2, <1>4, <1>5 DEF s
  <2> QED
    BY <1>5, <2>1 DEF Saying
<1> QED
  BY <1>5, <1>11, <1>12

\* What is sampled of a line nobody drives.
LEMMA HearsOnes ==
    ASSUME NEW k \in 0 .. 11, NEW b, Asks(k, b), target.phase # "speak", flips = 1,
           \A i \in 1 .. Len(heard) : heard[i] = 1
    PROVE  flips' = 1 /\ b = RequestLine(k) /\ \A i \in 1 .. Len(heard') : heard'[i] = 1
<1>1. b \in Bit /\ Comes(RequestLine(k), b) /\ heard \in Seq(Bit)
      /\ heard' = IF k >= 9 THEN Append(heard, b) ELSE heard
  BY DEF Asks
<1>2. flips' = 1 /\ b = RequestLine(k)
  BY <1>1 DEF Comes
<1>3. CASE k >= 9
  <2>1. b = 1
    BY <1>2, <1>3 DEF RequestLine
  <2>2. heard' = Append(heard, 1)
    BY <1>1, <1>3, <2>1
  <2>3. /\ Len(heard') = Len(heard) + 1 /\ heard'[Len(heard) + 1] = 1 /\ Len(heard) \in Nat
        /\ \A i \in 1 .. Len(heard) : heard'[i] = heard[i]
    BY <1>1, <2>1, <2>2, AppendProperties
  <2>4. \A i \in 1 .. Len(heard') : i = Len(heard) + 1 \/ i \in 1 .. Len(heard)
    BY <2>3
  <2> QED
    BY <1>2, <2>3, <2>4
<1>4. CASE ~(k >= 9)
  BY <1>1, <1>2, <1>4
<1> QED
  BY <1>3, <1>4

\* A target that is deaf.
LEMMA DeafStep ==
    ASSUME TargetOK, NEW k \in 0 .. 11, NEW b, Asks(k, b), Deaf(k)
    PROVE  Deaf(k + 1)' /\ bad' = bad
<1>1. b \in Bit /\ Edge(b) /\ TargetOK' /\ Req \in Requests /\ Req' = Req
  BY DEF Asks
<1>2. /\ target.phase = "lost" /\ flips = 1 /\ done = <<>>
      /\ \A i \in 1 .. Len(heard) : heard[i] = 1
      /\ k <= 5 => \/ target.ones <= k - 2
                   \/ /\ target.ones <= DataBits + 12 + k
                      /\ \A i \in 1 .. k - 1 : Req[i] = 1
      /\ k >= 6 => target.ones <= k - 2
  BY DEF Deaf
<1>3. flips' = 1 /\ b = RequestLine(k) /\ \A i \in 1 .. Len(heard') : heard'[i] = 1
  BY <1>2, HearsOnes
<1> DEFINE o == Ones(b)
<1>4. /\ o \in 0 .. ResetSeen /\ o <= target.ones + 1 /\ (b = 0 => o = 0) /\ target.ones \in Nat
      /\ DataBits \in Nat /\ ResetSeen \in Nat /\ ResetSeen > DataBits + 17
  BY <1>1, OnesAre, Fields, Limits
<1>5. /\ done' = done /\ bad' = bad /\ target'.ones = o
      /\ IF o = ResetSeen THEN target'.phase = "reset" /\ target'.fresh ELSE target'.phase = "lost"
  BY <1>1, <1>2, EdgeLost DEF Recorded
<1>6. /\ PacketBits(Req)[5] = Parity(Req) /\ PacketBits(Req)[6] = 0
      /\ \A i \in 1 .. 4 : PacketBits(Req)[i] = Req[i]
  BY <1>1, PacketSent
<1> HIDE DEF o
<1>7. /\ k + 1 <= 5 => \/ o <= (k + 1) - 2
                       \/ /\ o <= DataBits + 12 + (k + 1)
                          /\ \A i \in 1 .. (k + 1) - 1 : Req[i] = 1
      /\ k + 1 >= 6 => o <= (k + 1) - 2
      /\ o # ResetSeen
  <2>1. CASE k = 0
    BY <1>2, <1>4, <2>1
  <2>2. CASE k \in 1 .. 4
    <3>1. b = Req[k]
      BY <1>3, <1>6, <2>2 DEF RequestLine
    <3>2. CASE b = 0
      <4>1. k # 1 => k >= 2
        BY <2>2
      <4> QED
        BY <1>4, <2>2, <3>2
    <3>3. CASE b = 1
      <4>1. \A i \in 1 .. (k + 1) - 1 : i = k \/ i \in 1 .. k - 1
        BY <2>2
      <4>2. (\A i \in 1 .. k - 1 : Req[i] = 1) => \A i \in 1 .. (k + 1) - 1 : Req[i] = 1
        BY <3>1, <3>3, <4>1
      <4> QED
        BY <1>2, <1>4, <2>2, <4>2
    <3> QED
      BY <1>1, <3>2, <3>3 DEF Bit
  <2>3. CASE k = 5
    <3>1. b = Parity(Req)
      BY <1>3, <1>6, <2>3 DEF RequestLine
    <3>2. CASE target.ones <= 3
      BY <1>4, <2>3, <3>2
    <3>3. CASE \A i \in 1 .. 4 : Req[i] = 1
      <4>1. Req \in Seq(Bit) /\ Len(Req) = 4
        BY <1>1, Request4 DEF Requests
      <4>2. \A i \in 1 .. Len(Req) : Req[i] = 1
        BY <3>3, <4>1
      <4>3. Parity(Req) = Len(Req) % 2
        BY <4>1, <4>2, ParityOnes
      <4>4. b = 0
        BY <3>1, <4>1, <4>3
      <4> QED
        BY <1>4, <2>3, <4>4
    <3> QED
      BY <1>2, <2>3, <3>2, <3>3
  <2>4. CASE k = 6
    <3>1. b = 0
      BY <1>3, <1>6, <2>4 DEF RequestLine
    <3> QED
      BY <1>4, <2>4, <3>1
  <2>5. CASE k >= 7
    BY <1>2, <1>4, <2>5
  <2>6. k = 0 \/ k \in 1 .. 4 \/ k = 5 \/ k = 6 \/ k >= 7
    OBVIOUS
  <2> QED
    BY <2>1, <2>2, <2>3, <2>4, <2>5, <2>6
<1>8. target'.phase = "lost" /\ target'.ones = o /\ done' = <<>> /\ bad' = bad
  BY <1>2, <1>5, <1>7
<1> QED
  BY <1>1, <1>3, <1>7, <1>8 DEF Deaf

\* A target that missed the start bit takes another one for it.
LEMMA MissedStep ==
    ASSUME TargetOK, NEW k \in 1 .. 11, NEW b, Asks(k, b), Missed(k)
    PROVE  (Missed(k + 1)' \/ Deaf(k + 1)') /\ bad' = bad
<1>1. b \in Bit /\ Edge(b) /\ TargetOK' /\ Req \in Requests /\ Req' = Req /\ k \in 0 .. 11
  BY DEF Asks
<1>2. /\ flips = 1 /\ done = <<>> /\ \A i \in 1 .. Len(heard) : heard[i] = 1
  BY DEF Missed
<1>3. /\ \/ target.phase = "idle" /\ k <= 7
         \/ /\ target.phase = "packet" /\ Len(target.bits) \in (k - 8) .. (k - 2)
            /\ Len(target.bits) >= 6 => target.bits[6] = 1
      /\ target.ones < k
      /\ k >= 7 => target.ones <= k - 7
  BY DEF Missed
<1>4. flips' = 1 /\ b = RequestLine(k) /\ \A i \in 1 .. Len(heard') : heard'[i] = 1
  BY <1>1, <1>2, <1>3, HearsOnes
<1> DEFINE o == Ones(b)
           l == Len(target.bits)
           bits == Append(target.bits, b)
<1>5. /\ o \in 0 .. ResetSeen /\ o <= target.ones + 1 /\ (b = 0 => o = 0) /\ target.ones \in Nat
      /\ ResetSeen \in Nat /\ ResetSeen > 25
  BY <1>1, OnesAre, Fields, Limits
<1>6. k = 6 => b = 0
  BY <1>1, <1>4, PacketSent DEF RequestLine
<1>7. k >= 7 => b = 1
  BY <1>1, <1>4, PacketSent DEF RequestLine
<1>8. target.bits \in Seq(Bit) /\ l \in Nat
  BY Fields
<1>9. bits \in Seq(Bit) /\ Len(bits) = l + 1 /\ bits[l + 1] = b /\ \A i \in 1 .. l : bits[i] = target.bits[i]
  BY <1>1, <1>8, AppendProperties
<1>10. CASE target.phase = "idle" /\ k <= 7
  <2>1. /\ done' = done /\ bad' = bad /\ target'.ones = o
        /\ IF o = ResetSeen THEN target'.phase = "reset" /\ target'.fresh
           ELSE IF b = 1 THEN target'.phase = "packet" /\ target'.bits = <<>>
                ELSE target'.phase = "idle"
    BY <1>1, <1>10, EdgeIdle DEF Recorded
  <2> HIDE DEF o, l, bits
  <2>2. o # ResetSeen /\ o < k + 1 /\ (k + 1 >= 7 => o <= (k + 1) - 7)
    BY <1>3, <1>5, <1>6, <1>10
  <2>3. CASE b = 1
    <3>1. target'.phase = "packet" /\ target'.bits = <<>> /\ done' = <<>> /\ target'.ones = o
      BY <1>2, <2>1, <2>2, <2>3
    <3>2. Len(target'.bits) = 0
      BY <3>1, NoBits
    <3>3. Len(target'.bits) \in ((k + 1) - 8) .. ((k + 1) - 2) /\ ~(Len(target'.bits) >= 6)
      BY <1>10, <3>2
    <3>4. Missed(k + 1)'
      BY <1>4, <2>2, <3>1, <3>3 DEF Missed
    <3> QED
      BY <2>1, <3>4
  <2>4. CASE b # 1
    <3>1. target'.phase = "idle" /\ done' = <<>> /\ target'.ones = o
      BY <1>2, <2>1, <2>2, <2>4
    <3>2. k + 1 <= 7
      BY <1>7, <1>10, <2>4
    <3>3. Missed(k + 1)'
      BY <1>4, <2>2, <3>1, <3>2 DEF Missed
    <3> QED
      BY <2>1, <3>3
  <2> QED
    BY <2>3, <2>4
<1>11. CASE /\ target.phase = "packet" /\ l \in (k - 8) .. (k - 2)
            /\ l >= 6 => target.bits[6] = 1
  <2>1. /\ done' = done /\ bad' = bad /\ target'.ones = o /\ l <= 6
        /\ IF o = ResetSeen THEN target'.phase = "reset" /\ target'.fresh
           ELSE IF l < 6 THEN target'.phase = "packet" /\ target'.bits = bits
                ELSE IF WellFormed(bits) THEN TRUE
                ELSE target'.phase = "lost"
    BY <1>1, <1>11, EdgePacket
  <2> HIDE DEF o, l, bits
  <2>2. o # ResetSeen /\ o < k + 1 /\ (k + 1 >= 7 => o <= (k + 1) - 7)
    BY <1>3, <1>5, <1>6, <1>11
  <2>3. CASE l < 6
    <3>1. target'.phase = "packet" /\ target'.bits = bits /\ done' = <<>> /\ target'.ones = o
      BY <1>2, <2>1, <2>2, <2>3
    <3>2. Len(target'.bits) = l + 1
      BY <1>9, <3>1
    <3>3. l + 1 \in ((k + 1) - 8) .. ((k + 1) - 2)
      BY <1>8, <1>11
    <3>4. l + 1 >= 6 => target'.bits[6] = 1
      <4> SUFFICES ASSUME l + 1 >= 6 PROVE target'.bits[6] = 1
        OBVIOUS
      <4>1. l + 1 = 6 /\ k >= 7
        BY <1>8, <1>11, <2>3
      <4> QED
        BY <1>7, <1>9, <3>1, <4>1
    <3>5. Missed(k + 1)'
      BY <1>4, <2>2, <3>1, <3>2, <3>3, <3>4 DEF Missed
    <3> QED
      BY <2>1, <3>5
  <2>4. CASE ~(l < 6)
    <3>1. l = 6 /\ 6 \in 1 .. l /\ k >= 8
      BY <1>8, <1>11, <2>1, <2>4
    <3>2. bits[6] = 1
      BY <1>9, <1>11, <3>1
    <3>3. ~WellFormed(bits)
      BY <3>2 DEF WellFormed
    <3>4. target'.phase = "lost" /\ done' = <<>> /\ target'.ones = o
      BY <1>2, <2>1, <2>2, <2>4, <3>3
    <3>5. ~(k + 1 <= 5) /\ o <= (k + 1) - 2
      BY <1>3, <1>5, <3>1
    <3>6. Deaf(k + 1)'
      BY <1>4, <3>4, <3>5 DEF Deaf
    <3> QED
      BY <2>1, <3>6
  <2> QED
    BY <2>3, <2>4
<1> QED
  BY <1>3, <1>10, <1>11

\* A cycle of the request.
LEMMA RequestClock ==
    ASSUME HostOK, TargetOK, status = "running", stage = "request", InRequest, NEW b, Ticks(b)
    PROVE  InRequest'
<1>1. Req \in Requests
  BY Transferring
<1>2. PICK k \in 0 .. 12 : ToGo = 12 - k /\ RequestAt(k)
  BY DEF InRequest
<1>3. ToGo \in Nat /\ ToGo >= 1 /\ ToGo' = ToGo - 1 /\ b \in Bit
  BY DEF Ticks
<1>4. k \in 0 .. 11 /\ k + 1 \in 0 .. 12 /\ ToGo' = 12 - (k + 1)
  BY <1>2, <1>3
<1>5. /\ \A i \in 1 .. ToGo : todo[i] = RequestLeft(Req, ToGo + 1 - i)
      /\ Len(heard) = IF k <= 9 THEN 0 ELSE k - 9
      /\ ~bad
      /\ \/ Deaf(k)
         \/ k = 0 /\ Waiting
         \/ k \in 1 .. 7 /\ Collecting(k)
         \/ k = 8 /\ Turning
         \/ k >= 9 /\ Answered /\ Saying(Len(Spoken) - (k - 9))
         \/ k >= 1 /\ Missed(k)
  BY <1>2 DEF RequestAt
<1>6. Asks(k, b)
  BY <1>1, <1>2, <1>4, <1>5, RequestAsks
<1>7. Req' = Req /\ \A i \in 1 .. ToGo' : todo'[i] = RequestLeft(Req, ToGo' + 1 - i)
  BY <1>5, RequestShift
<1>8. Len(heard') = IF k + 1 <= 9 THEN 0 ELSE (k + 1) - 9
  <2>1. heard \in Seq(Bit) /\ heard' = IF k >= 9 THEN Append(heard, b) ELSE heard
    BY <1>6 DEF Asks
  <2>2. Len(Append(heard, b)) = Len(heard) + 1
    BY <1>3, <2>1, AppendProperties
  <2>3. CASE k >= 9
    <3>1. Len(heard) = k - 9
      BY <1>4, <1>5, <2>3
    <3> QED
      BY <1>4, <2>1, <2>2, <2>3, <3>1
  <2>4. CASE ~(k >= 9)
    BY <1>4, <1>5, <2>1, <2>4
  <2> QED
    BY <2>3, <2>4
<1>9. ASSUME bad' = bad,
             \/ Deaf(k + 1)'
             \/ k + 1 \in 1 .. 7 /\ Collecting(k + 1)'
             \/ k + 1 = 8 /\ Turning'
             \/ k + 1 >= 9 /\ Answered' /\ Saying(Len(Spoken) - (k + 1 - 9))'
             \/ k + 1 >= 1 /\ Missed(k + 1)'
      PROVE  InRequest'
  <2>1. ~bad'
    BY <1>5, <1>9, Zenon
  <2>2. RequestAt(k + 1)'
    BY <1>7, <1>8, <1>9, <2>1 DEF RequestAt
  <2> QED
    BY <1>4, <2>2 DEF InRequest
<1>10. CASE Deaf(k)
  <2>1. Deaf(k + 1)' /\ bad' = bad
    BY <1>4, <1>6, <1>10, DeafStep
  <2> QED
    BY <1>9, <2>1
<1>11. CASE k = 0 /\ Waiting
  <2>1. Asks(0, b) /\ Len(heard) = 0 /\ k + 1 = 1
    BY <1>5, <1>6, <1>11
  <2>2. (Collecting(1)' \/ Missed(1)') /\ bad' = bad
    BY <1>11, <2>1, WaitingStep
  <2>3. (k + 1 \in 1 .. 7 /\ Collecting(k + 1)') \/ (k + 1 >= 1 /\ Missed(k + 1)')
    BY <2>1, <2>2
  <2> QED
    BY <1>9, <2>2, <2>3
<1>12. CASE k \in 1 .. 7 /\ Collecting(k)
  <2>1. Len(heard) = 0
    BY <1>5, <1>12
  <2>2. (IF k <= 6 THEN Collecting(k + 1)' ELSE Turning' \/ Deaf(8)') /\ bad' = bad
    BY <1>6, <1>12, <2>1, CollectingStep
  <2>3. CASE k <= 6
    <3>1. k + 1 \in 1 .. 7 /\ Collecting(k + 1)'
      BY <1>12, <2>2, <2>3
    <3> QED
      BY <1>9, <2>2, <3>1
  <2>4. CASE ~(k <= 6)
    <3>1. k + 1 = 8
      BY <1>12, <2>4
    <3>2. Deaf(k + 1)' \/ (k + 1 = 8 /\ Turning')
      BY <2>2, <2>4, <3>1
    <3> QED
      BY <1>9, <2>2, <3>2
  <2> QED
    BY <2>3, <2>4
<1>13. CASE k = 8 /\ Turning
  <2>1. Asks(8, b) /\ Len(heard) = 0
    BY <1>5, <1>6, <1>13
  <2>2. Answered' /\ Saying(Len(Spoken))' /\ bad' = bad
    BY <1>13, <2>1, TurningStep
  <2>3. Saying(Len(Spoken) - (k + 1 - 9))'
    <3>1. /\ Len(Spoken') \in Nat
      BY <1>6, SpokenIs, Limits DEF Asks
    <3>2. Len(Spoken') - (k + 1 - 9) = Len(Spoken')
      BY <1>13, <3>1
    <3> QED
      BY <2>2, <3>2 DEF Saying
  <2> QED
    BY <1>9, <1>13, <2>2, <2>3
<1>14. CASE k >= 9 /\ Answered /\ Saying(Len(Spoken) - (k - 9))
  <2>1. k \in 9 .. 11 /\ Len(heard) = k - 9
    BY <1>4, <1>5, <1>14
  <2>2. Answered' /\ Saying(Len(Spoken) - (k + 1 - 9))' /\ bad' = bad
    BY <1>6, <1>14, <2>1, AnsweredStep
  <2> QED
    BY <1>9, <1>14, <2>2
<1>15. CASE k >= 1 /\ Missed(k)
  <2>1. k \in 1 .. 11
    BY <1>4, <1>15
  <2>2. (Missed(k + 1)' \/ Deaf(k + 1)') /\ bad' = bad
    BY <1>6, <1>15, <2>1, MissedStep
  <2> QED
    BY <1>9, <1>15, <2>2
<1> QED
  BY <1>5, <1>10, <1>11, <1>12, <1>13, <1>14, <1>15

-----------------------------------------------------------------------------
(***************************************************************************)
(* What follows the acknowledge.                                           *)
(***************************************************************************)

\* A bit of the body, after others; the line, unless a word is sent.
Follows(b) ==
  /\ b \in Bit /\ Edge(b) /\ TargetOK' /\ call' = call /\ Req' = Req
  /\ ToGo \in Nat /\ ToGo >= 1 /\ ToGo' = ToGo - 1 /\ ToGo' \in Nat

\* What the next cycle of the data phase means for each phase of the target.
LEMMA BodyFollows ==
    ASSUME NEW b, Ticks(b)
    PROVE  Follows(b)
<1>1. /\ b \in Bit /\ Edge(b) /\ TargetOK' /\ call' = call
      /\ ToGo \in Nat /\ ToGo >= 1 /\ ToGo' = ToGo - 1 /\ ToGo' \in Nat
  BY DEF Ticks
<1> QED
  BY <1>1 DEF Req, Follows

\* A cycle of the back-off.
LEMMA BackOffTick ==
    ASSUME HostOK, NEW b, Ticks(b), BackingOff
    PROVE  BackingOff' /\ b = IF target.phase = "speak" THEN target.bits[1] ELSE 1
<1>1. /\ ToGo <= DataBits + 2 /\ flips = 1 /\ Len(heard) = 3
      /\ (\A a \in {"OK", "WAIT", "FAULT"} : heard # AckOf[a])
      /\ \A i \in 1 .. ToGo : todo[i] = Turn
  BY DEF BackingOff
<1>2. todo[1] = Turn /\ \A i \in 1 .. ToGo' : todo'[i] = Turn
  BY <1>1, TurnShift
<1>3. todo[1].drives = FALSE /\ todo[1].samples = FALSE
  BY <1>2, Cycles
<1>4. heard' = heard /\ Comes(IF target.phase = "speak" THEN target.bits[1] ELSE 1, b)
  BY <1>3 DEF Ticks, Wire
<1>5. flips' = 1 /\ b = IF target.phase = "speak" THEN target.bits[1] ELSE 1
  BY <1>1, <1>4 DEF Comes
<1>6. ToGo' <= DataBits + 2
  <2>1. ToGo \in Nat /\ ToGo' = ToGo - 1
    BY DEF Ticks
  <2> QED
    BY <1>1, <2>1, Limits
<1> QED
  BY <1>1, <1>2, <1>4, <1>5, <1>6 DEF BackingOff

\* A target that was not understood waits out the back-off.
LEMMA AstrayStep ==
    ASSUME HostOK, TargetOK, NEW b, Ticks(b), Astray
    PROVE  Astray'
<1>1. /\ b \in Bit /\ Edge(b) /\ TargetOK'
      /\ ToGo \in Nat /\ ToGo >= 1 /\ ToGo' = ToGo - 1 /\ ToGo' \in Nat
  BY DEF Ticks
<1>2. /\ BackingOff /\ done = <<>> /\ ~bad
      /\ target.ones <= DataBits + 12 - ToGo
      /\ \/ target.phase = "back" /\ ToGo = DataBits + 2 /\ target.said # "OK" /\ ~target.fresh
         \/ target.phase = "idle" /\ ToGo = DataBits + 1 /\ ~target.fresh
         \/ /\ target.phase = "packet" /\ Len(target.bits) >= DataBits - ToGo
            /\ Len(target.bits) >= 6 => target.bits[6] = 1
         \/ target.phase = "lost"
  BY DEF Astray
<1>3. BackingOff' /\ b = IF target.phase = "speak" THEN target.bits[1] ELSE 1
  BY <1>2, BackOffTick
<1> DEFINE o == Ones(b)
           l == Len(target.bits)
           bits == Append(target.bits, b)
           g == ToGo
           h == ToGo'
<1>4. /\ target.ones \in Nat /\ ResetSeen \in Nat /\ DataBits \in Nat /\ DataBits >= 8
      /\ ResetSeen > DataBits + 17
  BY Fields, Limits
<1>5. o \in Nat /\ o <= target.ones + 1
  BY <1>1, <1>4, OnesAre
<1>6. target.bits \in Seq(Bit) /\ l \in Nat
  BY Fields
<1>7. bits \in Seq(Bit) /\ Len(bits) = l + 1 /\ bits[l + 1] = b /\ \A i \in 1 .. l : bits[i] = target.bits[i]
  BY <1>1, <1>6, AppendProperties
<1>8. g \in Nat /\ g >= 1 /\ h = g - 1 /\ target.ones <= DataBits + 12 - g
  BY <1>1, <1>2
<1> HIDE DEF o, l, bits, g, h
<1>9. o <= DataBits + 12 - h /\ target.ones <= DataBits + 12 - h /\ o # ResetSeen
  BY <1>4, <1>5, <1>8
<1>10. CASE target.phase = "back" /\ g = DataBits + 2 /\ target.said # "OK" /\ ~target.fresh
  <2>1. /\ done' = done /\ bad' = bad /\ target'.phase = "idle"
        /\ target'.ones = target.ones /\ target'.fresh = target.fresh
    BY <1>1, <1>10, EdgeBack
  <2>2. h = DataBits + 1 /\ target'.ones <= DataBits + 12 - h
    BY <1>4, <1>8, <1>9, <1>10, <2>1
  <2>3. ~target'.fresh /\ ~bad' /\ done' = <<>>
    BY <1>2, <1>10, <2>1, Zenon
  <2> QED
    BY <1>3, <2>1, <2>2, <2>3 DEF Astray, h
<1>11. CASE target.phase = "idle" /\ g = DataBits + 1 /\ ~target.fresh
  <2>1. b = 1
    BY <1>3, <1>11
  <2>2. /\ done' = done /\ bad' = bad /\ target'.ones = o
        /\ target'.phase = "packet" /\ target'.bits = <<>>
    BY <1>1, <1>9, <1>11, <2>1, EdgeIdle DEF Recorded, o
  <2>3. Len(target'.bits) = 0 /\ 0 >= DataBits - h /\ ~(Len(target'.bits) >= 6)
    BY <1>4, <1>8, <1>11, <2>2, NoBits
  <2>4. ~bad' /\ done' = <<>>
    BY <1>2, <2>2, Zenon
  <2> QED
    BY <1>3, <1>9, <2>2, <2>3, <2>4 DEF Astray, h
<1>12. CASE target.phase = "packet" /\ l >= DataBits - g /\ (l >= 6 => target.bits[6] = 1)
  <2>1. b = 1
    BY <1>3, <1>12
  <2>2. /\ done' = done /\ bad' = bad /\ target'.ones = o /\ l <= 6
        /\ IF l < 6 THEN target'.phase = "packet" /\ target'.bits = bits
           ELSE IF WellFormed(bits) THEN TRUE ELSE target'.phase = "lost"
    BY <1>1, <1>9, <1>12, EdgePacket DEF o, l, bits
  <2>3. ~bad' /\ done' = <<>>
    BY <1>2, <2>2, Zenon
  <2>4. CASE l < 6
    <3>1. Len(target'.bits) = l + 1 /\ target'.phase = "packet" /\ target'.bits = bits
      BY <1>7, <2>2, <2>4
    <3>2. l + 1 >= DataBits - h
      BY <1>4, <1>6, <1>8, <1>12
    <3>3. l + 1 >= 6 => target'.bits[6] = 1
      <4> SUFFICES ASSUME l + 1 >= 6 PROVE bits[6] = 1
        BY <3>1
      <4>1. l + 1 = 6
        BY <1>6, <2>4
      <4> QED
        BY <1>7, <2>1, <4>1
    <3> QED
      BY <1>3, <1>9, <2>2, <2>3, <3>1, <3>2, <3>3 DEF Astray, h
  <2>5. CASE ~(l < 6)
    <3>1. l = 6 /\ 6 \in 1 .. l
      BY <1>6, <2>2, <2>5
    <3>2. bits[6] = 1
      BY <1>7, <1>12, <3>1
    <3>3. ~WellFormed(bits)
      BY <3>2 DEF WellFormed
    <3>4. target'.phase = "lost"
      BY <2>2, <2>5, <3>3
    <3> QED
      BY <1>3, <1>9, <2>2, <2>3, <3>4 DEF Astray, h
  <2> QED
    BY <2>4, <2>5
<1>13. CASE target.phase = "lost"
  <2>1. done' = done /\ bad' = bad /\ target'.ones = o /\ target'.phase = "lost"
    BY <1>1, <1>9, <1>13, EdgeLost DEF Recorded, o
  <2>2. ~bad' /\ done' = <<>>
    BY <1>2, <2>1, Zenon
  <2> QED
    BY <1>3, <1>9, <2>1, <2>2 DEF Astray, h
<1> QED
  BY <1>2, <1>10, <1>11, <1>12, <1>13 DEF g, l

\* What the transfer keeps of its target, from the answer on.
Settled == target.ones = 0 /\ ~target.fresh /\ (Req = IdCode => target.said = "OK")

\* What the target has settled stays so while it keeps the record of the request.
LEMMA SettledKept ==
    ASSUME Settled, Req' = Req, target'.ones = target.ones, target'.fresh = target.fresh,
           target'.said = target.said
    PROVE  Settled'
<1>1. target.ones = 0 /\ ~target.fresh /\ (Req = IdCode => target.said = "OK")
  BY DEF Settled
<1>2. ~target'.fresh
  BY <1>1, Zenon
<1>3. target'.ones = 0 /\ (Req' = IdCode => target'.said = "OK")
  BY <1>1
<1> QED
  BY <1>2, <1>3 DEF Settled

\* The word that is sent while the host backs off.
LEMMA SentInVainStep ==
    ASSUME HostOK, TargetOK, NEW b, Ticks(b), SentInVain, Settled
    PROVE  SentInVain' /\ Settled'
<1>1. /\ b \in Bit /\ Edge(b) /\ TargetOK' /\ call' = call /\ Req' = Req
      /\ ToGo \in Nat /\ ToGo >= 1 /\ ToGo' = ToGo - 1 /\ ToGo' \in Nat
  BY BodyFollows DEF Follows
<1>2. /\ BackingOff /\ ~bad /\ done = <<[request |-> Req, word |-> <<>>]>>
      /\ target.said = "OK" /\ IsRead(Req) /\ target.request = Req
      /\ IF ToGo = 0 THEN target.phase = "idle" ELSE Saying(ToGo - 1)
  BY DEF SentInVain
<1>3. BackingOff'
  BY <1>2, BackOffTick
<1>4. PICK left \in Nat : left = ToGo - 1
  BY <1>1
<1>5. Saying(left) /\ left = ToGo'
  BY <1>1, <1>2, <1>4
<1>6. CASE left = 0
  <2>1. target.phase = "back"
    BY <1>5, <1>6 DEF Saying
  <2>2. /\ done' = done /\ bad' = bad /\ target'.said = target.said /\ target'.request = target.request
        /\ target'.ones = target.ones /\ target'.fresh = target.fresh /\ target'.phase = "idle"
    BY <1>1, <1>2, <2>1, EdgeBack DEF Remembers
  <2>3. ~bad' /\ done' = <<[request |-> Req', word |-> <<>>]>>
    BY <1>1, <1>2, <2>2, Zenon
  <2>4. ToGo' = 0
    BY <1>5, <1>6
  <2>5. Settled'
    BY <1>1, <2>2, SettledKept
  <2> QED
    BY <1>1, <1>2, <1>3, <2>2, <2>3, <2>4, <2>5 DEF SentInVain
<1>7. CASE left # 0
  <2>0. left >= 1
    BY <1>7
  <2>1. /\ Saying(left - 1)' /\ done' = done /\ bad' = bad
        /\ target'.said = target.said /\ target'.request = target.request
        /\ target'.ones = target.ones /\ target'.fresh = target.fresh
    BY <1>1, <1>5, <2>0, SayingStep
  <2>2. ~bad' /\ done' = <<[request |-> Req', word |-> <<>>]>>
    BY <1>1, <1>2, <2>1, Zenon
  <2>3. ToGo' # 0 /\ ToGo' - 1 = left - 1
    BY <1>5, <1>7
  <2>4. Saying(ToGo - 1)'
    BY <2>1, <2>3 DEF Saying
  <2>5. Settled'
    BY <1>1, <2>1, SettledKept
  <2> QED
    BY <1>1, <1>2, <1>3, <2>1, <2>2, <2>3, <2>4, <2>5 DEF SentInVain
<1> QED
  BY <1>6, <1>7

\* The ones that are taken for a word while the host backs off.
LEMMA TakenInVainStep ==
    ASSUME HostOK, TargetOK, NEW b, Ticks(b), TakenInVain, Settled
    PROVE  TakenInVain' /\ Settled'
<1>1. /\ b \in Bit /\ Edge(b) /\ TargetOK' /\ call' = call /\ Req' = Req
      /\ ToGo \in Nat /\ ToGo >= 1 /\ ToGo' = ToGo - 1 /\ ToGo' \in Nat
  BY BodyFollows DEF Follows
<1> DEFINE g == ToGo
           h == ToGo'
           D == DataBits
           l == Len(target.bits)
           bits == Append(target.bits, b)
<1>2. /\ BackingOff /\ done = <<>>
      /\ target.said = "OK" /\ ~IsRead(Req) /\ target.request = Req
  BY DEF TakenInVain
<1>3. CASE g = D + 2 /\ target.phase = "back" /\ ~bad
  <2>1. BackingOff'
    BY <1>2, BackOffTick
  <2>2. /\ done' = done /\ bad' = bad /\ target'.said = target.said /\ target'.request = target.request
        /\ target'.ones = target.ones /\ target'.fresh = target.fresh /\ target'.phase = "data"
        /\ target'.bits = <<>>
    BY <1>1, <1>2, <1>3, EdgeBack DEF Remembers
  <2>3. ~bad' /\ done' = <<>>
    BY <1>2, <1>3, <2>2, Zenon
  <2>4. ToGo' # D + 2 /\ ToGo' # 0 /\ 0 = D + 1 - ToGo'
    BY <1>1, <1>3, Limits
  <2>5. Len(target'.bits) = 0
    BY <2>2, NoBits
  <2>6. Settled'
    BY <1>1, <2>2, SettledKept
  <2> QED
    BY <1>1, <1>2, <2>1, <2>2, <2>3, <2>4, <2>5, <2>6 DEF TakenInVain
<1>4. CASE /\ g # D + 2 /\ target.phase = "data" /\ l = D + 1 - g /\ ~bad
           /\ \A i \in 1 .. l : target.bits[i] = 1
  <2>1. BackingOff' /\ b = 1
    BY <1>2, <1>4, BackOffTick
  <2>2. /\ bits \in Seq(Bit) /\ Len(bits) = l + 1 /\ target'.said = target.said
        /\ target'.request = target.request
        /\ target'.ones = target.ones /\ target'.fresh = target.fresh
        /\ IF l < D THEN target'.phase = "data" /\ target'.bits = bits /\ done' = done /\ bad' = bad
           ELSE /\ target'.phase = "idle"
                /\ Parity(bits) # 0 => bad' = TRUE /\ done' = done
    BY <1>1, <1>4, EdgeData DEF Remembers
  <2>3. target.bits \in Seq(Bit) /\ l \in Nat /\ D \in Nat /\ D >= 8
    BY Fields, Limits
  <2>4. bits[l + 1] = b /\ \A i \in 1 .. l : bits[i] = target.bits[i]
    BY <1>1, <2>3, AppendProperties
  <2>5. g \in Nat /\ g >= 1 /\ h = g - 1 /\ h \in Nat
    BY <1>1
  <2>h. h = ToGo' /\ l = D + 1 - g /\ g # D + 2
    BY <1>4
  <2>i. \A i \in 1 .. l : target.bits[i] = 1
    BY <1>4
  <2> HIDE DEF g, h, l, bits
  <2>6. \A i \in 1 .. Len(bits) : bits[i] = 1
    <3>1. \A i \in 1 .. Len(bits) : i = l + 1 \/ i \in 1 .. l
      BY <2>2, <2>3
    <3> QED
      BY <2>1, <2>4, <2>i, <3>1
  <2>7. Settled'
    BY <1>1, <2>2, SettledKept
  <2>8. CASE l < D
    <3>1. target'.phase = "data" /\ target'.bits = bits /\ done' = done /\ bad' = bad
      BY <2>2, <2>8
    <3>2. ~bad' /\ done' = <<>>
      BY <1>2, <1>4, <3>1, Zenon
    <3>3. h # D + 2 /\ h # 0 /\ Len(target'.bits) = D + 1 - h
      BY <2>2, <2>3, <2>5, <2>h, <2>8, <3>1
    <3>4. \A i \in 1 .. Len(target'.bits) : target'.bits[i] = 1
      BY <2>6, <3>1
    <3> QED
      BY <1>1, <1>2, <2>1, <2>2, <2>7, <2>h, <3>1, <3>2, <3>3, <3>4 DEF TakenInVain
  <2>9. CASE ~(l < D)
    <3>1. Len(bits) = D + 1 /\ h = 0 /\ h # D + 2
      BY <2>2, <2>3, <2>5, <2>h, <2>9
    <3>2. Parity(bits) = (D + 1) % 2
      BY <2>2, <2>6, <3>1, ParityOnes
    <3>3. (D + 1) % 2 = 1
      BY LineAssumption
    <3>4. bad' /\ done' = done /\ target'.phase = "idle"
      BY <2>2, <2>9, <3>2, <3>3
    <3>5. done' = <<>>
      BY <1>2, <3>4
    <3> QED
      BY <1>1, <1>2, <2>1, <2>2, <2>7, <2>h, <3>1, <3>4, <3>5 DEF TakenInVain
  <2> QED
    BY <2>8, <2>9
<1>5. g # 0
  BY <1>1
<1>6. \/ g = D + 2 /\ target.phase = "back" /\ ~bad
      \/ /\ g # D + 2 /\ target.phase = "data" /\ l = D + 1 - g /\ ~bad
         /\ \A i \in 1 .. l : target.bits[i] = 1
  <2>1. CASE g = D + 2
    <3>1. D + 2 # 0
      BY Limits
    <3> QED
      BY <2>1, <3>1 DEF TakenInVain
  <2>2. CASE g # D + 2
    BY <1>5, <2>2 DEF TakenInVain
  <2> QED
    BY <2>1, <2>2
<1> QED
  BY <1>3, <1>4, <1>6

\* The turnaround after a refusal.
LEMMA RefusedStep ==
    ASSUME HostOK, TargetOK, NEW b, Ticks(b), Refused, Settled
    PROVE  Refused' /\ Settled'
<1>1. /\ b \in Bit /\ Edge(b) /\ TargetOK' /\ call' = call /\ Req' = Req
      /\ ToGo \in Nat /\ ToGo >= 1 /\ ToGo' = ToGo - 1 /\ ToGo' \in Nat
  BY BodyFollows DEF Follows
<1>2. /\ ToGo <= 1 /\ done = <<>> /\ ~bad
      /\ target.said # "OK" /\ heard = AckOf[target.said]
      /\ (\A i \in 1 .. ToGo : todo[i] = Turn)
      /\ target.phase = IF ToGo = 1 THEN "back" ELSE "idle"
  BY DEF Refused
<1>3. todo[1] = Turn
  BY <1>2, TurnShift
<1>4. heard' = heard
  BY <1>3, Cycles DEF Ticks
<1>5. ToGo = 1 /\ ToGo' = 0 /\ ToGo' <= 1 /\ ToGo' # 1
  BY <1>1, <1>2
<1>6. /\ done' = done /\ bad' = bad /\ target'.said = target.said /\ target'.request = target.request
      /\ target'.ones = target.ones /\ target'.fresh = target.fresh /\ target'.phase = "idle"
  BY <1>1, <1>2, <1>5, EdgeBack DEF Remembers
<1>7. ~bad' /\ done' = <<>>
  BY <1>2, <1>6, Zenon
<1>8. \A i \in 1 .. ToGo' : todo'[i] = Turn
  BY <1>5
<1>9. Settled'
  BY <1>1, <1>6, SettledKept
<1>10. heard' = AckOf[target'.said] /\ target'.said # "OK"
  BY <1>2, <1>4, <1>6
<1> QED
  BY <1>5, <1>6, <1>7, <1>8, <1>9, <1>10 DEF Refused

\* The acknowledge stays what it was when more is heard.
LEMMA AckKept ==
    ASSUME heard \in Seq(Bit), Len(heard) >= 3, NEW b \in Bit, heard' = Append(heard, b)
    PROVE  Ack' = Ack
<1> DEFINE s == heard
           t == heard'
<1>1. s \in Seq(Bit) /\ t \in Seq(Bit) /\ Len(s) \in Nat /\ Len(t) = Len(s) + 1
      /\ \A i \in 1 .. Len(s) : t[i] = s[i]
  BY AppendProperties
<1> HIDE DEF s, t
<1>2. Len(s) >= 3
  BY DEF s
<1>3. SubSeq(s, 1, 3) = [i \in 1 .. 3 |-> s[i]]
  BY <1>1, <1>2
<1>4. SubSeq(t, 1, 3) = [i \in 1 .. 3 |-> t[i]]
  BY <1>1, <1>2
<1>5. \A i \in 1 .. 3 : i \in 1 .. Len(s)
  BY <1>1, <1>2
<1>6. \A i \in 1 .. 3 : t[i] = s[i]
  BY <1>1, <1>5
<1>7. [i \in 1 .. 3 |-> s[i]] = [i \in 1 .. 3 |-> t[i]]
  BY <1>6
<1>8. SubSeq(t, 1, 3) = SubSeq(s, 1, 3)
  BY <1>3, <1>4, <1>7, Zenon
<1> QED
  BY <1>8 DEF Ack, s, t

\* The word that is read, and the turnaround after it.
LEMMA ReadingStep ==
    ASSUME HostOK, TargetOK, NEW b, Ticks(b), Reading, Settled
    PROVE  Reading' /\ Settled' /\ (todo[1].samples => Len(heard) <= DataBits + 3)
<1>1. /\ b \in Bit /\ Edge(b) /\ TargetOK' /\ call' = call /\ Req' = Req
      /\ ToGo \in Nat /\ ToGo >= 1 /\ ToGo' = ToGo - 1 /\ ToGo' \in Nat
  BY BodyFollows DEF Follows
<1>2. /\ ToGo <= DataBits + 2 /\ Ack = AckOf.OK
      /\ IsRead(Req) /\ target.request = Req /\ target.said = "OK" /\ ~bad
      /\ done = <<[request |-> Req, word |-> <<>>]>>
      /\ (\A i \in 1 .. ToGo : todo[i] = ReadLeft(ToGo + 1 - i))
      /\ Len(heard) = (IF ToGo = 0 THEN DataBits + 4 ELSE DataBits + 5 - ToGo)
      /\ Got(heard, Spoken)
      /\ IF ToGo = 0 THEN target.phase = "idle" ELSE Saying(ToGo - 1)
  BY DEF Reading
<1>3. todo[1] = ReadLeft(ToGo) /\ \A i \in 1 .. ToGo' : todo'[i] = ReadLeft(ToGo' + 1 - i)
  BY <1>2, ReadShift
<1>4. heard \in Seq(Bit) /\ flips \in {0, 1} /\ flips' \in {0, 1} /\ DataBits \in Nat
      /\ heard' = (IF todo[1].samples THEN Append(heard, b) ELSE heard)
      /\ (~(todo[1].drives /\ Drives) => Comes(Wire, b))
  BY Limits DEF HostOK, Ticks
<1>5. PICK left \in Nat : left = ToGo - 1
  BY <1>1
<1>6. Saying(left) /\ left = ToGo' /\ Len(heard) = DataBits + 4 - left /\ left <= DataBits + 1
  BY <1>1, <1>2, <1>4, <1>5
<1>7. CASE left = 0
  <2>1. todo[1] = Turn
    BY <1>1, <1>3, <1>5, <1>7 DEF ReadLeft
  <2>2. todo[1].drives = FALSE /\ todo[1].samples = FALSE
    BY <2>1, Cycles
  <2>3. heard' = heard /\ Comes(Wire, b)
    BY <1>4, <2>2
  <2>4. target.phase = "back"
    BY <1>6, <1>7 DEF Saying
  <2>5. /\ done' = done /\ bad' = bad /\ Remembers
        /\ target'.ones = target.ones /\ target'.fresh = target.fresh /\ target'.phase = "idle"
    BY <1>1, <1>2, <2>4, EdgeBack
  <2>6. Spoken' = Spoken /\ target'.said = target.said /\ target'.request = target.request
    BY <2>5 DEF Remembers, Spoken
  <2>7. ~bad' /\ done' = <<[request |-> Req', word |-> <<>>]>>
    BY <1>1, <1>2, <2>5, Zenon
  <2>8. Settled'
    BY <1>1, <2>5, <2>6, SettledKept
  <2>9. flips = 1 => flips' = 1
    BY <2>3 DEF Comes
  <2>10. Got(heard, Spoken)'
    BY <1>2, <2>3, <2>6, <2>9 DEF Got, Arrived, Spoilt
  <2>11. Ack' = Ack
    BY <2>3 DEF Ack
  <2>12. ToGo' = 0 /\ ToGo' <= DataBits + 2 /\ Len(heard') = DataBits + 4
    BY <1>4, <1>6, <1>7, <2>3
  <2>13. Reading'
    BY <1>1, <1>2, <1>3, <2>5, <2>6, <2>7, <2>10, <2>11, <2>12 DEF Reading
  <2> QED
    BY <2>2, <2>8, <2>13
<1>8. CASE left # 0
  <2>0. left >= 1 /\ ToGo # 1
    BY <1>1, <1>5, <1>8
  <2>1. todo[1] = In
    BY <1>3, <2>0 DEF ReadLeft
  <2>2. todo[1].drives = FALSE /\ todo[1].samples = TRUE
    BY <2>1, Cycles
  <2>3. heard' = Append(heard, b) /\ Comes(Wire, b)
    BY <1>4, <2>2
  <2>4. /\ Saying(left - 1)' /\ Spoken' = Spoken /\ done' = done /\ bad' = bad
        /\ target'.said = target.said /\ target'.request = target.request
        /\ target'.ones = target.ones /\ target'.fresh = target.fresh /\ target.phase = "speak"
        /\ target.bits[1] = Spoken[Len(Spoken) - left + 1]
    BY <1>1, <1>6, <2>0, SayingStep
  <2>5. Len(Spoken) = DataBits + 4 /\ Spoken \in Seq(Bit)
    BY <1>2, SpokenIs
  <2>6. Len(Spoken) - left + 1 = Len(heard) + 1 /\ Len(heard) < Len(Spoken) /\ Len(heard) >= 3
        /\ Len(heard) <= DataBits + 3
    <3> DEFINE m == Len(heard)
               n == Len(Spoken)
    <3>1. /\ n = DataBits + 4 /\ m = DataBits + 4 - left /\ left >= 1 /\ left <= DataBits + 1
          /\ DataBits \in Nat
      BY <1>4, <1>6, <2>0, <2>5
    <3> HIDE DEF m, n
    <3>2. n - left + 1 = m + 1 /\ m < n /\ m >= 3 /\ m <= DataBits + 3
      BY <3>1
    <3> QED
      BY <3>2 DEF m, n
  <2>7. Comes(Spoken[Len(heard) + 1], b)
    BY <2>2, <2>3, <2>4, <2>6 DEF Wire
  <2> DEFINE s == Spoken
  <2> HIDE DEF s
  <2>8. Arrived(Append(heard, b), s) \/ (flips' = 1 /\ Spoilt(Append(heard, b), s))
    BY <1>1, <1>2, <1>4, <2>5, <2>6, <2>7, GotMore DEF s
  <2>9. Got(heard, Spoken)'
    <3>1. Arrived(heard', Spoken') \/ (flips' = 1 /\ Spoilt(heard', Spoken'))
      BY <2>3, <2>4, <2>8 DEF s
    <3> QED
      BY <3>1 DEF Got, Arrived, Spoilt
  <2>10. ~bad' /\ done' = <<[request |-> Req', word |-> <<>>]>>
    BY <1>1, <1>2, <2>4, Zenon
  <2>11. Settled'
    BY <1>1, <2>4, SettledKept
  <2>12. Ack' = Ack
    BY <1>1, <1>4, <2>3, <2>6, AckKept
  <2>13. Len(heard') = DataBits + 5 - ToGo' /\ ToGo' # 0 /\ ToGo' <= DataBits + 2
    <3>1. Len(Append(heard, b)) = Len(heard) + 1
      BY <1>1, <1>4, AppendProperties
    <3> QED
      BY <1>4, <1>6, <2>0, <2>3, <3>1
  <2>14. Saying(ToGo - 1)'
    <3>1. ToGo' - 1 = left - 1
      BY <1>6
    <3> QED
      BY <2>4, <3>1 DEF Saying
  <2>15. Reading'
    BY <1>1, <1>2, <1>3, <2>4, <2>9, <2>10, <2>12, <2>13, <2>14 DEF Reading
  <2> QED
    BY <2>6, <2>11, <2>15
<1> QED
  BY <1>7, <1>8

\* The word that is written.
LEMMA WritingStep ==
    ASSUME HostOK, TargetOK, NEW b, Ticks(b), Writing, Settled, call.word \in [1 .. DataBits -> Bit]
    PROVE  Writing' /\ Settled' /\ todo[1].samples = FALSE
<1>1. /\ b \in Bit /\ Edge(b) /\ TargetOK' /\ call' = call /\ Req' = Req
      /\ ToGo \in Nat /\ ToGo >= 1 /\ ToGo' = ToGo - 1 /\ ToGo' \in Nat
  BY BodyFollows DEF Follows
<1>2. /\ ToGo <= DataBits + 2 /\ heard = AckOf.OK /\ call.op = "write"
      /\ ~IsRead(Req) /\ target.request = Req /\ target.said = "OK"
      /\ \A i \in 1 .. ToGo : todo[i] = WriteLeft(call.word, ToGo + 1 - i)
  BY DEF Writing
<1>3. DataBits \in Nat /\ DataBits >= 8
  BY Limits
<1>4. /\ flips \in {0, 1} /\ flips' \in {0, 1}
      /\ heard' = (IF todo[1].samples THEN Append(heard, b) ELSE heard)
      /\ (~(todo[1].drives /\ Drives) => Comes(Wire, b))
  BY DEF Ticks
<1>5. PICK w \in [1 .. DataBits -> Bit] : w = call.word
  OBVIOUS
<1>6. /\ \A i \in 1 .. ToGo : todo[i] = WriteLeft(w, ToGo + 1 - i)
  BY <1>2, <1>5
<1>7. todo[1] = WriteLeft(w, ToGo) /\ \A i \in 1 .. ToGo' : todo'[i] = WriteLeft(w, ToGo' + 1 - i)
  BY <1>6, WriteShift
<1>8. \A i \in 1 .. ToGo' : todo'[i] = WriteLeft(call'.word, ToGo' + 1 - i)
  BY <1>1, <1>5, <1>7
<1> DEFINE g == ToGo
           h == ToGo'
           D == DataBits
           f == WordBits(w)
           l == Len(target.bits)
           bits == Append(target.bits, b)
<1>9. ASSUME todo[1].samples = FALSE,
             target'.said = target.said, target'.request = target.request,
             target'.ones = target.ones, target'.fresh = target.fresh,
             CASE ToGo' = DataBits + 2 -> target'.phase = "back" /\ ~bad' /\ done' = <<>>
               [] ToGo' = 0 -> /\ target'.phase = "idle"
                               /\ \/ bad' /\ flips' = 1 /\ done' = <<>>
                                  \/ ~bad' /\ done' = <<[request |-> Req', word |-> call'.word]>>
               [] OTHER -> /\ target'.phase = "data" /\ Len(target'.bits) = DataBits + 1 - ToGo'
                           /\ Got(target.bits, WordBits(call.word))' /\ ~bad' /\ done' = <<>>
      PROVE  Writing' /\ Settled' /\ todo[1].samples = FALSE
  <2>1. Settled'
    BY <1>1, <1>9, SettledKept
  <2>2. heard' = heard /\ ToGo' <= DataBits + 2
    BY <1>1, <1>2, <1>3, <1>4, <1>9
  <2>3. call'.op = "write" /\ ~IsRead(Req') /\ target'.request = Req' /\ target'.said = "OK"
    BY <1>1, <1>2, <1>9
  <2>4. Writing'
    BY <1>2, <1>8, <1>9, <2>2, <2>3 DEF Writing
  <2> QED
    BY <1>9, <2>1, <2>4
<1>10. CASE g = D + 2
  <2>0. D + 2 # 0
    BY <1>3
  <2>1. target.phase = "back" /\ ~bad /\ done = <<>>
    BY <1>10, <2>0 DEF Writing
  <2>2. todo[1] = Turn
    BY <1>7, <1>10 DEF WriteLeft
  <2>3. todo[1].samples = FALSE
    BY <2>2, Cycles
  <2>4. /\ done' = done /\ bad' = bad /\ target'.said = target.said /\ target'.request = target.request
        /\ target'.ones = target.ones /\ target'.fresh = target.fresh /\ target'.phase = "data"
        /\ target'.bits = <<>>
    BY <1>1, <1>2, <2>1, EdgeBack DEF Remembers
  <2>5. ~bad' /\ done' = <<>>
    BY <2>1, <2>4, Zenon
  <2>6. ToGo' # D + 2 /\ ToGo' # 0 /\ 0 = D + 1 - ToGo'
    BY <1>1, <1>3, <1>10
  <2>7. Len(target'.bits) = 0
    BY <2>4, NoBits
  <2>8. Got(target.bits, WordBits(call.word))'
    BY <2>7 DEF Got, Arrived
  <2> QED
    BY <1>9, <2>3, <2>4, <2>5, <2>6, <2>7, <2>8
<1>11. CASE g # D + 2
  <2>1. /\ target.phase = "data" /\ l = D + 1 - g
        /\ Got(target.bits, WordBits(call.word)) /\ ~bad /\ done = <<>>
    <3>1. g # 0
      BY <1>1
    <3> QED
      BY <1>11, <3>1 DEF Writing
  <2>2. target.bits \in Seq(Bit) /\ l \in Nat
    BY Fields
  <2>3. /\ bits \in Seq(Bit) /\ Len(bits) = l + 1 /\ target'.said = target.said
        /\ target'.request = target.request
        /\ target'.ones = target.ones /\ target'.fresh = target.fresh
        /\ IF l < D THEN target'.phase = "data" /\ target'.bits = bits /\ done' = done /\ bad' = bad
           ELSE /\ target'.phase = "idle"
                /\ IF Parity(bits) = 0
                     THEN /\ done' = Append(done, [request |-> target.request, word |-> Front(bits)])
                          /\ bad' = bad
                     ELSE bad' = TRUE /\ done' = done
    BY <1>1, <2>1, EdgeData DEF Remembers
  <2>4. /\ f \in Seq(Bit) /\ Len(f) = D + 1 /\ Parity(f) = 0
        /\ (\A i \in 1 .. D : f[i] = w[i]) /\ f[D + 1] = Parity(w)
    BY WordSent
  <2>5. g \in Nat /\ g >= 1 /\ h = g - 1 /\ h \in Nat /\ g <= D + 2
    BY <1>1, <1>2
  <2>6. Got(target.bits, f)
    BY <1>5, <2>1
  <2>7. Parity(w) \in Bit /\ \A i \in 1 .. D : w[i] \in Bit
    BY Word8
  <2>h. ToGo = g /\ ToGo' = h /\ l = D + 1 - g /\ g # D + 2
    BY <1>11, <2>1
  <2> HIDE DEF g, h, l, bits, f
  <2>8. todo[1] = Out(f[l + 1]) /\ f[l + 1] \in Bit
    <3>1. CASE g = 1
      <4>1. l + 1 = D + 1 /\ g # D + 2
        BY <1>3, <2>h, <3>1
      <4> QED
        BY <1>7, <2>4, <2>7, <2>h, <3>1, <4>1 DEF WriteLeft
    <3>2. CASE g # 1
      <4>1. l + 1 \in 1 .. D /\ D + 2 - g = l + 1
        BY <1>3, <2>5, <2>h, <3>2
      <4>2. todo[1] = Out(w[D + 2 - g])
        BY <1>7, <2>h, <3>2 DEF WriteLeft
      <4> QED
        BY <2>4, <2>7, <4>1, <4>2
    <3> QED
      BY <3>1, <3>2
  <2>9. todo[1].samples = FALSE /\ todo[1].drives = TRUE /\ todo[1].bit = f[l + 1]
    BY <2>8, Cycles
  <2>10. Comes(f[l + 1], b)
    BY <1>4, <2>1, <2>9 DEF Drives, Wire
  <2>11. Arrived(bits, f) \/ (flips' = 1 /\ Spoilt(bits, f))
    <3>1. l < Len(f) /\ l = Len(target.bits)
      BY <1>3, <2>4, <2>5, <2>h DEF l
    <3>2. Comes(f[Len(target.bits) + 1], b) /\ Len(target.bits) < Len(f)
      BY <2>10, <3>1
    <3>3. Arrived(Append(target.bits, b), f) \/ (flips' = 1 /\ Spoilt(Append(target.bits, b), f))
      BY <1>1, <1>4, <2>2, <2>4, <2>6, <3>2, GotMore
    <3> QED
      BY <3>3 DEF bits
  <2>12. CASE l < D
    <3>1. target'.phase = "data" /\ target'.bits = bits /\ done' = done /\ bad' = bad
      BY <2>3, <2>12
    <3>2. ~bad' /\ done' = <<>>
      BY <2>1, <3>1, Zenon
    <3>a. h # D + 2 /\ h # 0 /\ l + 1 = D + 1 - h
      BY <1>3, <2>2, <2>5, <2>h, <2>12
    <3>3. h # D + 2 /\ h # 0 /\ Len(target'.bits) = D + 1 - h
      BY <2>3, <3>1, <3>a
    <3>4. call'.word = w
      BY <1>1, <1>5
    <3>5. Got(target.bits, WordBits(call.word))'
      <4>1. \/ Arrived(target'.bits, WordBits(call'.word))
            \/ flips' = 1 /\ Spoilt(target'.bits, WordBits(call'.word))
        BY <2>11, <3>1, <3>4 DEF f
      <4> QED
        BY <4>1 DEF Got, Arrived, Spoilt
    <3> QED
      BY <1>9, <2>3, <2>9, <2>h, <3>1, <3>2, <3>3, <3>5
  <2>13. CASE ~(l < D)
    <3>1. h = 0 /\ h # D + 2 /\ Len(bits) = D + 1
      BY <1>3, <2>2, <2>3, <2>5, <2>h, <2>13
    <3>2. target'.phase = "idle"
      BY <2>3, <2>13
    <3>3. CASE Arrived(bits, f)
      <4>1. \A i \in 1 .. D + 1 : bits[i] = f[i]
        BY <3>1, <3>3 DEF Arrived
      <4>2. bits = f
        BY <2>3, <2>4, <3>1, <4>1, SeqEqual
      <4>3. Front(bits) \in [1 .. D -> Bit] /\ \A i \in 1 .. D : Front(bits)[i] = bits[i]
        BY <2>3, <3>1, FrontIs
      <4> DEFINE v == Front(bits)
      <4>4. v \in [1 .. D -> Bit] /\ \A i \in 1 .. D : v[i] = bits[i]
        BY <4>3
      <4> HIDE DEF v
      <4>5. v = w
        <5>1. \A i \in 1 .. D : v[i] = w[i]
          BY <2>4, <4>2, <4>4
        <5>2. w \in [1 .. D -> Bit] /\ v \in [1 .. D -> Bit]
          BY <4>4
        <5>3. w \in Seq(Bit) /\ Len(w) = D /\ v \in Seq(Bit) /\ Len(v) = D
          BY <5>2, Word8
        <5> QED
          BY <5>1, <5>3, SeqEqual
      <4> DEFINE a == [request |-> target.request, word |-> v]
      <4>6. done' = Append(done, a) /\ bad' = bad
        BY <2>3, <2>4, <2>13, <4>2 DEF v
      <4>7. a = [request |-> Req', word |-> call'.word]
        BY <1>1, <1>2, <1>5, <4>5
      <4> HIDE DEF a
      <4>8. Append(<<>>, a) = <<a>>
        OBVIOUS
      <4>9. done' = <<[request |-> Req', word |-> call'.word]>>
        BY <2>1, <4>6, <4>7, <4>8, Zenon
      <4>10. ~bad'
        BY <2>1, <4>6, Zenon
      <4> QED
        BY <1>9, <2>3, <2>9, <2>h, <3>1, <3>2, <4>9, <4>10
    <3>4. CASE flips' = 1 /\ Spoilt(bits, f)
      <4>1. Parity(bits) = 1 - Parity(f)
        BY <2>3, <2>4, <3>1, <3>4, ParityFlip
      <4>2. Parity(bits) = 1
        BY <2>4, <4>1
      <4>3. bad' /\ done' = done
        BY <2>3, <2>13, <4>2
      <4>4. done' = <<>>
        BY <2>1, <4>3
      <4> QED
        BY <1>9, <2>3, <2>9, <2>h, <3>1, <3>2, <3>4, <4>3, <4>4
    <3> QED
      BY <2>11, <3>3, <3>4
  <2> QED
    BY <2>12, <2>13
<1> QED
  BY <1>10, <1>11

\* A cycle of the body; what is sampled has room.
LEMMA BodyClock ==
    ASSUME HostOK, TargetOK, status = "running", stage = "body", InBody, NEW b, Ticks(b)
    PROVE  InBody' /\ (todo[1].samples => Len(heard) <= DataBits + 3)
<1>1. Astray \/ (Settled /\ (SentInVain \/ TakenInVain \/ Refused \/ Reading \/ Writing))
  BY DEF InBody, Settled
<1>2. 3 <= DataBits + 3
  BY Limits
<1>3. CASE Astray
  <2>1. Astray'
    BY <1>3, AstrayStep
  <2>2. Len(heard) = 3
    BY <1>3 DEF Astray, BackingOff
  <2> QED
    BY <1>2, <2>1, <2>2 DEF InBody
<1>4. CASE Settled /\ SentInVain
  <2>1. SentInVain' /\ Settled'
    BY <1>4, SentInVainStep
  <2>2. Len(heard) = 3
    BY <1>4 DEF SentInVain, BackingOff
  <2> QED
    BY <1>2, <2>1, <2>2 DEF InBody, Settled
<1>5. CASE Settled /\ TakenInVain
  <2>1. TakenInVain' /\ Settled'
    BY <1>5, TakenInVainStep
  <2>2. Len(heard) = 3
    BY <1>5 DEF TakenInVain, BackingOff
  <2> QED
    BY <1>2, <2>1, <2>2 DEF InBody, Settled
<1>6. CASE Settled /\ Refused
  <2>1. Refused' /\ Settled'
    BY <1>6, RefusedStep
  <2>2. heard = AckOf[target.said] /\ target.said \in {"OK", "WAIT", "FAULT"}
    BY <1>6, Fields DEF Refused
  <2>3. Len(heard) = 3
    BY <2>2, Acks
  <2> QED
    BY <1>2, <2>1, <2>3 DEF InBody, Settled
<1>7. CASE Settled /\ Reading
  <2>1. Reading' /\ Settled' /\ (todo[1].samples => Len(heard) <= DataBits + 3)
    BY <1>7, ReadingStep
  <2> QED
    BY <2>1 DEF InBody, Settled
<1>8. CASE Settled /\ Writing
  <2>1. call.word \in [1 .. DataBits -> Bit]
    BY <1>8, Transferring DEF Writing
  <2>2. Writing' /\ Settled' /\ todo[1].samples = FALSE
    BY <1>8, <2>1, WritingStep
  <2> QED
    BY <2>2 DEF InBody, Settled
<1> QED
  BY <1>1, <1>3, <1>4, <1>5, <1>6, <1>7, <1>8

\* A cycle of the host, whatever it belongs to.
LEMMA ClockStep ==
    ASSUME LineIInv, Clock
    PROVE  LineIInv'
<1>1. /\ HostOK /\ TargetOK
      /\ status = "running" /\ stage = "sequence" => InSequence
      /\ status = "running" /\ stage = "request" => InRequest
      /\ status = "running" /\ stage = "body" => InBody
  BY DEF LineIInv
<1>2. PICK b \in Bit : Ticks(b)
  BY <1>1, ClockTicks
<1>3. status = "running" /\ status' = status /\ stage' = stage
  BY <1>1, Tick
<1>4. stage \in {"sequence", "request", "body"} /\ (stage = "sequence" <=> ~synced)
  BY <1>1, <1>3 DEF HostOK
<1>5. 3 <= DataBits + 3 /\ 0 <= DataBits + 3
  BY Limits
<1>6. ~Finished'
  BY <1>3 DEF Finished
<1>7. CASE stage = "sequence"
  <2>1. InSequence /\ ~synced
    BY <1>1, <1>3, <1>4, <1>7
  <2>2. InSequence'
    BY <1>1, <1>2, <2>1, SequenceClock
  <2>3. Len(heard) = 0
    BY <2>1, NoBits DEF InSequence
  <2>4. HostOK' /\ TargetOK'
    BY <1>1, <1>5, <2>3, ClockOK
  <2> QED
    BY <1>3, <1>6, <1>7, <2>2, <2>4 DEF LineIInv
<1>8. CASE stage = "request"
  <2>1. InRequest
    BY <1>1, <1>3, <1>8
  <2>2. InRequest'
    BY <1>1, <1>2, <1>3, <1>8, <2>1, RequestClock
  <2>3. PICK k \in 0 .. 12 : Len(heard) = IF k <= 9 THEN 0 ELSE k - 9
    BY <2>1 DEF InRequest, RequestAt
  <2>4. Len(heard) <= DataBits + 3
    BY <2>3, Limits
  <2>5. HostOK' /\ TargetOK'
    BY <1>1, <2>4, ClockOK
  <2> QED
    BY <1>3, <1>6, <1>8, <2>2, <2>5 DEF LineIInv
<1>9. CASE stage = "body"
  <2>1. InBody
    BY <1>1, <1>3, <1>9
  <2>2. InBody' /\ (todo[1].samples => Len(heard) <= DataBits + 3)
    BY <1>1, <1>2, <1>3, <1>9, <2>1, BodyClock
  <2>3. HostOK' /\ TargetOK'
    BY <1>1, <2>2, ClockOK
  <2> QED
    BY <1>3, <1>6, <1>9, <2>2, <2>3 DEF LineIInv
<1> QED
  BY <1>4, <1>7, <1>8, <1>9

-----------------------------------------------------------------------------
(***************************************************************************)
(* From the sequences to the request, from the acknowledge to the rest.    *)
(***************************************************************************)
LEMMA AfterSequence ==
    ASSUME LineIInv, Continue, stage = "sequence"
    PROVE  LineIInv'
<1>1. /\ status = "running" /\ todo = <<>> /\ stage' = "request"
      /\ todo' = RequestCycles(Req)
      /\ synced' = TRUE /\ done' = <<>> /\ bad' = FALSE
      /\ UNCHANGED <<heard, call, status, target, flips>>
  BY DEF Continue, Req
<1>2. HostOK /\ TargetOK /\ InSequence
  BY <1>1 DEF LineIInv
<1>3. ToGo = 0
  BY <1>1, EmptySeq DEF ToGo
<1>4. ToGo <= 8 /\ ToGo < 8
  BY <1>3
<1>5. call = Connect /\ heard = <<>> /\ target.phase = "idle" /\ target.ones = 0
  BY <1>2, <1>4 DEF InSequence
<1>6. Req = IdCode /\ Req \in Requests /\ Connect # Nothing
  <2>1. Connect # Nothing
    <3>1. Connect.op = "connect" /\ Nothing.op = "nothing"
      BY DEF Connect, Nothing
    <3> QED
      BY <3>1
  <2>2. call # Nothing
    BY <1>5, <2>1
  <2>3. Req \in Requests
    BY <1>2, <2>2, CallIs DEF HostOK
  <2> QED
    BY <1>5, <2>1, <2>3 DEF Req, Connect
<1>7. /\ todo' \in Seq(Cycle) /\ Len(todo') = 12
      /\ \A i \in 1 .. 12 : todo'[i] = RequestLeft(Req, 13 - i)
  BY <1>1, <1>6, RequestPlan
<1>8. TargetOK'
  BY <1>1, <1>2 DEF TargetOK, Spoken
<1>9. <<>> \in Seq(Accesses)
  BY EmptySeq
<1>10. HostOK'
  BY <1>1, <1>2, <1>5, <1>6, <1>7, <1>9 DEF HostOK, Accesses
<1>11. ToGo' = 12 - 0 /\ \A i \in 1 .. ToGo' : todo'[i] = RequestLeft(Req', ToGo' + 1 - i)
  BY <1>1, <1>7 DEF ToGo, Req
<1>12. Waiting'
  <2>1. target'.phase = "idle" /\ target'.ones = 0 /\ done' = <<>>
    BY <1>1, <1>5
  <2>2. Req' = IdCode
    BY <1>1, <1>6 DEF Req
  <2> QED
    BY <2>1, <2>2 DEF Waiting
<1>13. Len(heard') = 0
  BY <1>1, <1>5, NoBits
<1>14. ~bad'
  BY <1>1
<1>15. RequestAt(0)'
  BY <1>11, <1>12, <1>13, <1>14 DEF RequestAt
<1>16. InRequest'
  BY <1>11, <1>15 DEF InRequest
<1> QED
  BY <1>1, <1>8, <1>10, <1>16 DEF LineIInv, Finished

\* An acknowledge alone is all that was heard.
LEMMA WholeAck ==
    ASSUME NEW s \in Seq(Bit), Len(s) = 3
    PROVE  SubSeq(s, 1, 3) = s
<1> DEFINE t == SubSeq(s, 1, 3)
<1>1. \A i \in 1 .. 3 : s[i] \in Bit
  <2>1. \A i \in 1 .. 3 : i \in 1 .. Len(s)
    OBVIOUS
  <2> QED
    BY <2>1, ElementOfSeq
<1>2. t = [i \in 1 .. 3 |-> s[i]]
  OBVIOUS
<1> HIDE DEF t
<1>3. t \in [1 .. 3 -> Bit] /\ \A i \in 1 .. 3 : t[i] = s[i]
  BY <1>1, <1>2
<1>4. 3 \in Nat
  OBVIOUS
<1>5. t \in Seq(Bit) /\ Len(t) = 3
  BY <1>3, <1>4, FunctionIsSeq
<1>6. t = s
  BY <1>3, <1>5, SeqEqual
<1> QED
  BY <1>6 DEF t

\* An acknowledge of which a bit is wrong is none.
LEMMA AckJudged ==
    ASSUME NEW s \in Seq(Bit), Len(s) = 3, NEW full \in Seq(Bit),
           NEW a \in {"OK", "WAIT", "FAULT"}, \A i \in 1 .. 3 : full[i] = AckOf[a][i]
    PROVE  /\ Arrived(s, full) => s = AckOf[a]
           /\ Spoilt(s, full) => \A c \in {"OK", "WAIT", "FAULT"} : s # AckOf[c]
           /\ (\A i \in 1 .. 3 : s[i] = 1) => \A c \in {"OK", "WAIT", "FAULT"} : s # AckOf[c]
<1>1. \A c \in {"OK", "WAIT", "FAULT"} :
        /\ AckOf[c] \in Seq(Bit) /\ Len(AckOf[c]) = 3
        /\ AckOf[c][1] = (IF c = "OK" THEN 1 ELSE 0)
        /\ AckOf[c][2] = (IF c = "WAIT" THEN 1 ELSE 0)
        /\ AckOf[c][3] = (IF c = "FAULT" THEN 1 ELSE 0)
  BY Acks
<1>2. ASSUME Arrived(s, full) PROVE s = AckOf[a]
  <2> DEFINE t == AckOf[a]
  <2>0. t \in Seq(Bit) /\ Len(t) = 3 /\ \A i \in 1 .. 3 : full[i] = t[i]
    BY <1>1
  <2> HIDE DEF t
  <2>1. \A i \in 1 .. Len(s) : s[i] = t[i]
    BY <1>2, <2>0 DEF Arrived
  <2>2. Len(s) = Len(t)
    BY <2>0
  <2>3. s = t
    BY <2>0, <2>1, <2>2, SeqEqual
  <2> QED
    BY <2>3 DEF t
<1>3. ASSUME Spoilt(s, full), NEW c \in {"OK", "WAIT", "FAULT"}, s = AckOf[c] PROVE FALSE
  <2>1. PICK j \in 1 .. 3 : s[j] = 1 - full[j] /\ \A i \in 1 .. 3 : i # j => s[i] = full[i]
    BY <1>3 DEF Spoilt
  <2>2. j = 1 \/ j = 2 \/ j = 3
    OBVIOUS
  <2>3. /\ s[1] = (IF c = "OK" THEN 1 ELSE 0) /\ s[2] = (IF c = "WAIT" THEN 1 ELSE 0)
        /\ s[3] = (IF c = "FAULT" THEN 1 ELSE 0)
    BY <1>1, <1>3
  <2>4. /\ full[1] = (IF a = "OK" THEN 1 ELSE 0) /\ full[2] = (IF a = "WAIT" THEN 1 ELSE 0)
        /\ full[3] = (IF a = "FAULT" THEN 1 ELSE 0)
    BY <1>1
  <2> QED
    BY <2>1, <2>2, <2>3, <2>4
<1>4. ASSUME \A i \in 1 .. 3 : s[i] = 1, NEW c \in {"OK", "WAIT", "FAULT"}, s = AckOf[c] PROVE FALSE
  <2>1. s[1] = 1 /\ s[2] = 1
    BY <1>4
  <2> QED
    BY <1>1, <1>4, <2>1
<1> QED
  BY <1>2, <1>3, <1>4

\* The cycles that follow are those of the acknowledge that was heard.
LEMMA NothingHeard ==
    ASSUME TargetOK, heard \in Seq(Bit), Len(heard) = 3, flips = 1,
           \A a \in {"OK", "WAIT", "FAULT"} : heard # AckOf[a],
           todo' = BodyCycles(heard, call), heard' = heard, flips' = flips
    PROVE  /\ BackingOff' /\ ToGo' = DataBits + 2 /\ todo' \in Seq(Cycle)
<1>1. heard # AckOf.OK /\ heard # AckOf.WAIT /\ heard # AckOf.FAULT
  OBVIOUS
<1>2. todo' = BackOff
  BY <1>1 DEF BodyCycles
<1>3. /\ todo' \in Seq(Cycle) /\ Len(todo') = DataBits + 2
      /\ \A i \in 1 .. DataBits + 2 : todo'[i] = Turn
  BY <1>2, BackOffPlan
<1>4. ToGo' = DataBits + 2 /\ ToGo' <= DataBits + 2
  BY <1>3, Limits DEF ToGo
<1> QED
  BY <1>3, <1>4 DEF BackingOff

\* After the acknowledge; the request is through.
LEMMA AfterRequest ==
    ASSUME LineIInv, Continue, stage = "request"
    PROVE  LineIInv'
<1>1. /\ status = "running" /\ todo = <<>> /\ stage' = "body"
      /\ todo' = BodyCycles(heard, call)
      /\ UNCHANGED <<synced, done, bad>>
      /\ UNCHANGED <<heard, call, status, target, flips>>
  BY DEF Continue
<1>2. HostOK /\ TargetOK /\ InRequest
  BY <1>1 DEF LineIInv
<1>3. PICK k \in 0 .. 12 : ToGo = 12 - k /\ RequestAt(k)
  BY <1>2 DEF InRequest
<1>4. ToGo = 0 /\ k = 12
  <2>1. ToGo = 0
    BY <1>1, EmptySeq DEF ToGo
  <2> QED
    BY <1>3, <2>1
<1>5. /\ Len(heard) = 3 /\ ~bad
      /\ \/ Deaf(12)
         \/ Answered /\ Saying(Len(Spoken) - 3)
         \/ Missed(12)
  BY <1>3, <1>4 DEF RequestAt
<1>6. heard \in Seq(Bit) /\ flips \in {0, 1}
  BY <1>2, Limits DEF HostOK
<1>7. synced /\ Req \in Requests /\ (~IsRead(Req) <=> call.op = "write")
      /\ (call.op = "write" => call.word \in [1 .. DataBits -> Bit])
      /\ (call.op = "connect" => Req = IdCode)
  BY <1>1, <1>2, Transferring
<1>8. TargetOK' /\ Req' = Req /\ Spoken' = Spoken
  BY <1>1, <1>2 DEF TargetOK, Spoken, Req
<1>9. DataBits \in Nat /\ DataBits >= 8
  BY Limits
<1>10. ~bad'
  BY <1>1, <1>5
<1>11. ASSUME InBody', todo' \in Seq(Cycle) PROVE LineIInv'
  <2>1. HostOK'
    BY <1>1, <1>2, <1>7, <1>11 DEF HostOK
  <2> QED
    BY <1>1, <1>8, <1>11, <2>1 DEF LineIInv, Finished
<1>12. ASSUME flips = 1, \A a \in {"OK", "WAIT", "FAULT"} : heard # AckOf[a]
       PROVE  BackingOff' /\ ToGo' = DataBits + 2 /\ todo' \in Seq(Cycle)
  BY <1>1, <1>2, <1>5, <1>6, <1>12, NothingHeard
<1>13. ASSUME \A i \in 1 .. 3 : heard[i] = 1
       PROVE  \A a \in {"OK", "WAIT", "FAULT"} : heard # AckOf[a]
  <2>1. "OK" \in {"OK", "WAIT", "FAULT"} /\ AckOf["OK"] \in Seq(Bit) /\ \A i \in 1 .. 3 : AckOf["OK"][i] = AckOf["OK"][i]
    BY Acks
  <2> QED
    BY <1>5, <1>6, <1>13, <2>1, AckJudged
<1>14. CASE Deaf(12)
  <2>1. /\ target.phase = "lost" /\ flips = 1 /\ done = <<>>
        /\ (\A i \in 1 .. Len(heard) : heard[i] = 1) /\ target.ones <= 10
    BY <1>14 DEF Deaf
  <2>2. BackingOff' /\ ToGo' = DataBits + 2 /\ todo' \in Seq(Cycle)
    BY <1>5, <1>12, <1>13, <2>1
  <2>3. target'.ones <= DataBits + 12 - ToGo'
    BY <1>1, <1>9, <2>1, <2>2
  <2>4. Astray'
    BY <1>1, <1>10, <2>1, <2>2, <2>3 DEF Astray
  <2> QED
    BY <1>11, <2>2, <2>4 DEF InBody
<1>15. CASE Missed(12)
  <2>1. /\ flips = 1 /\ done = <<>> /\ (\A i \in 1 .. Len(heard) : heard[i] = 1)
        /\ target.phase = "packet" /\ Len(target.bits) \in 4 .. 10
        /\ (Len(target.bits) >= 6 => target.bits[6] = 1)
        /\ target.ones <= 5
    BY <1>15 DEF Missed
  <2>2. BackingOff' /\ ToGo' = DataBits + 2 /\ todo' \in Seq(Cycle)
    BY <1>5, <1>12, <1>13, <2>1
  <2>3. target'.ones <= DataBits + 12 - ToGo' /\ Len(target'.bits) >= DataBits - ToGo'
    <3>1. DataBits + 12 - ToGo' = 10 /\ DataBits - ToGo' = -2
      BY <1>9, <2>2
    <3>2. target.ones \in Nat
      BY <1>2, Fields
    <3> QED
      BY <1>1, <2>1, <3>1, <3>2
  <2>4. Astray'
    BY <1>1, <1>10, <2>1, <2>2, <2>3 DEF Astray
  <2> QED
    BY <1>11, <2>2, <2>4 DEF InBody
<1>16. CASE Answered /\ Saying(Len(Spoken) - 3)
  <2>1. /\ target.request = Req /\ ~target.fresh /\ target.ones = 0
        /\ Req = IdCode => target.said = "OK"
        /\ done = IF target.said = "OK" /\ IsRead(Req) THEN <<[request |-> Req, word |-> <<>>]>> ELSE <<>>
        /\ Got(heard, Spoken)
    BY <1>16 DEF Answered
  <2>2. /\ Spoken \in Seq(Bit)
        /\ Len(Spoken) = (IF target.said = "OK" /\ IsRead(target.request) THEN DataBits + 4 ELSE 3)
        /\ \A i \in 1 .. 3 : Spoken[i] = AckOf[target.said][i]
    BY <1>2, SpokenIs
  <2>3. target.said \in {"OK", "WAIT", "FAULT"}
    BY <1>2, Fields
  <2>4. /\ Arrived(heard, Spoken) => heard = AckOf[target.said]
        /\ Spoilt(heard, Spoken) => \A c \in {"OK", "WAIT", "FAULT"} : heard # AckOf[c]
    BY <1>5, <1>6, <2>2, <2>3, AckJudged
  <2>5. Settled'
    <3>1. ~target'.fresh
      BY <1>1, <2>1, Zenon
    <3> QED
      BY <1>1, <1>8, <2>1, <3>1 DEF Settled
  <2>6. ~(target.said = "OK" /\ IsRead(Req)) => target.phase = "back"
    <3>1. ~(target.said = "OK" /\ IsRead(Req)) => Len(Spoken) - 3 = 0
      BY <2>1, <2>2
    <3> QED
      BY <1>16, <3>1 DEF Saying
  <2>7. target.said = "OK" /\ IsRead(Req) =>
          /\ done = <<[request |-> Req, word |-> <<>>]>>
          /\ Saying(DataBits + 1)
    <3>1. target.said = "OK" /\ IsRead(Req) => Len(Spoken) - 3 = DataBits + 1
      BY <1>9, <2>1, <2>2
    <3> QED
      BY <1>16, <2>1, <3>1
  <2>8. ASSUME target.said = "OK", IsRead(Req), ToGo' = DataBits + 2
        PROVE  Saying(ToGo - 1)' /\ ToGo' # 0
    <3>1. ToGo' - 1 = DataBits + 1 /\ ToGo' # 0
      BY <1>9, <2>8
    <3> QED
      BY <1>1, <1>8, <2>7, <2>8, <3>1 DEF Saying
  <2>9. CASE Arrived(heard, Spoken)
    <3>1. heard = AckOf[target.said]
      BY <2>4, <2>9
    <3>2. CASE target.said = "OK" /\ IsRead(Req)
      <4>1. heard = AckOf.OK
        BY <3>1, <3>2
      <4>2. todo' = ReadCycles
        BY <1>1, <3>2, <4>1 DEF BodyCycles, Req
      <4>3. /\ todo' \in Seq(Cycle) /\ Len(todo') = DataBits + 2
            /\ \A i \in 1 .. DataBits + 2 : todo'[i] = ReadLeft(DataBits + 3 - i)
        BY <4>2, ReadPlan
      <4>4. ToGo' = DataBits + 2 /\ ToGo' + 1 = DataBits + 3
        BY <1>9, <4>3 DEF ToGo
      <4>5. \A i \in 1 .. ToGo' : todo'[i] = ReadLeft(ToGo' + 1 - i)
        <5>1. \A i \in 1 .. ToGo' : i \in 1 .. DataBits + 2 /\ ToGo' + 1 - i = DataBits + 3 - i
          BY <1>9, <4>4
        <5> QED
          BY <4>3, <5>1
      <4>6. Saying(ToGo - 1)' /\ ToGo' # 0
        BY <2>8, <3>2, <4>4
      <4>7. Ack' = AckOf.OK
        <5>1. SubSeq(heard, 1, 3) = heard
          BY <1>5, <1>6, WholeAck
        <5> QED
          BY <1>1, <4>1, <5>1 DEF Ack
      <4>8. Len(heard') = DataBits + 5 - ToGo' /\ ToGo' <= DataBits + 2
        BY <1>1, <1>5, <1>9, <4>4
      <4>9. Got(heard, Spoken)'
        BY <1>1, <1>8, <2>9 DEF Got, Arrived
      <4>10. Reading'
        BY <1>1, <1>8, <1>10, <2>1, <2>7, <3>2, <4>5, <4>6, <4>7, <4>8, <4>9 DEF Reading
      <4> QED
        BY <1>11, <2>5, <4>3, <4>10 DEF InBody, Settled
    <3>3. CASE target.said = "OK" /\ ~IsRead(Req)
      <4>1. heard = AckOf.OK /\ call.op = "write" /\ call.word \in [1 .. DataBits -> Bit]
        BY <1>7, <3>1, <3>3
      <4>2. PICK w \in [1 .. DataBits -> Bit] : w = call.word
        BY <4>1
      <4>3. todo' = WriteCycles(w)
        BY <1>1, <3>3, <4>1, <4>2 DEF BodyCycles, Req
      <4>4. /\ todo' \in Seq(Cycle) /\ Len(todo') = DataBits + 2
            /\ \A i \in 1 .. DataBits + 2 : todo'[i] = WriteLeft(w, DataBits + 3 - i)
        BY <4>3, WritePlan
      <4>5. ToGo' = DataBits + 2 /\ ToGo' + 1 = DataBits + 3
        BY <1>9, <4>4 DEF ToGo
      <4>6. \A i \in 1 .. ToGo' : todo'[i] = WriteLeft(call'.word, ToGo' + 1 - i)
        <5>1. \A i \in 1 .. ToGo' : i \in 1 .. DataBits + 2 /\ ToGo' + 1 - i = DataBits + 3 - i
          BY <1>9, <4>5
        <5>2. call'.word = w
          BY <1>1, <4>2
        <5> QED
          BY <4>4, <5>1, <5>2
      <4>7. done' = <<>> /\ target'.phase = "back"
        BY <1>1, <2>1, <2>6, <3>3
      <4>8. Writing'
        BY <1>1, <1>8, <1>9, <1>10, <2>1, <3>3, <4>1, <4>5, <4>6, <4>7 DEF Writing
      <4> QED
        BY <1>11, <2>5, <4>4, <4>8 DEF InBody, Settled
    <3>4. CASE target.said # "OK"
      <4>1. target.said = "WAIT" \/ target.said = "FAULT"
        BY <2>3, <3>4
      <4>2. heard \in {AckOf.WAIT, AckOf.FAULT} /\ heard # AckOf.OK
        <5>1. heard = AckOf.WAIT \/ heard = AckOf.FAULT
          BY <3>1, <4>1
        <5>2. heard[1] = 0 /\ AckOf.OK[1] = 1
          BY <5>1, Acks
        <5>3. heard # AckOf.OK
          BY <5>2
        <5> QED
          BY <5>1, <5>3
      <4>3. todo' = <<Turn>>
        BY <1>1, <4>2 DEF BodyCycles
      <4> DEFINE t == Turn
      <4>4. <<t>> \in Seq(Cycle) /\ Len(<<t>>) = 1 /\ <<t>>[1] = t
        <5>1. t \in Cycle
          BY Cycles
        <5> HIDE DEF t
        <5> QED
          BY <5>1
      <4> HIDE DEF t
      <4>5. todo' = <<t>>
        BY <4>3 DEF t
      <4>6. todo' \in Seq(Cycle) /\ ToGo' = 1 /\ todo'[1] = t
        BY <4>4, <4>5 DEF ToGo
      <4>7. \A i \in 1 .. ToGo' : todo'[i] = Turn
        BY <4>6 DEF t
      <4>8. done' = <<>> /\ target'.phase = "back"
        BY <1>1, <2>1, <2>6, <3>4
      <4>9. Refused'
        BY <1>1, <1>10, <3>1, <3>4, <4>6, <4>7, <4>8 DEF Refused
      <4> QED
        BY <1>11, <2>5, <4>6, <4>9 DEF InBody, Settled
    <3> QED
      BY <3>2, <3>3, <3>4
  <2>10. CASE flips = 1 /\ Spoilt(heard, Spoken)
    <3>1. BackingOff' /\ ToGo' = DataBits + 2 /\ todo' \in Seq(Cycle)
      BY <1>12, <2>4, <2>10
    <3>2. CASE target.said = "OK" /\ IsRead(Req)
      <4>1. Saying(ToGo - 1)' /\ ToGo' # 0
        BY <2>8, <3>1, <3>2
      <4>2. SentInVain'
        BY <1>1, <1>8, <1>10, <2>1, <2>7, <3>1, <3>2, <4>1 DEF SentInVain
      <4> QED
        BY <1>11, <2>5, <3>1, <4>2 DEF InBody, Settled
    <3>3. CASE target.said = "OK" /\ ~IsRead(Req)
      <4>1. done' = <<>> /\ target'.phase = "back"
        BY <1>1, <2>1, <2>6, <3>3
      <4>2. TakenInVain'
        BY <1>1, <1>8, <1>9, <1>10, <2>1, <3>1, <3>3, <4>1 DEF TakenInVain
      <4> QED
        BY <1>11, <2>5, <3>1, <4>2 DEF InBody, Settled
    <3>4. CASE target.said # "OK"
      <4>1. done' = <<>> /\ target'.phase = "back" /\ target'.said # "OK"
        BY <1>1, <2>1, <2>6, <3>4
      <4>2. ~target'.fresh
        BY <1>1, <2>1, Zenon
      <4>3. target'.ones <= DataBits + 12 - ToGo'
        BY <1>1, <1>9, <2>1, <3>1
      <4>4. Astray'
        BY <1>10, <3>1, <4>1, <4>2, <4>3 DEF Astray
      <4> QED
        BY <1>11, <3>1, <4>4 DEF InBody
    <3> QED
      BY <3>2, <3>3, <3>4
  <2> QED
    BY <2>1, <2>9, <2>10 DEF Got
<1> QED
  BY <1>5, <1>14, <1>15, <1>16

\* The host reads the ACK and plans the data phase.
LEMMA ContinueStep ==
    ASSUME LineIInv, Continue
    PROVE  LineIInv'
<1>1. stage = "sequence" \/ stage = "request"
  BY DEF LineIInv, HostOK, Continue
<1> QED
  BY <1>1, AfterSequence, AfterRequest

-----------------------------------------------------------------------------
(***************************************************************************)
(* What a transfer returns.                                                *)
(***************************************************************************)
LEMMA AcksDiffer ==
    AckOf.OK # AckOf.WAIT /\ AckOf.OK # AckOf.FAULT /\ AckOf.WAIT # AckOf.FAULT
<1>1. /\ AckOf.OK[1] = 1 /\ AckOf.WAIT[1] = 0 /\ AckOf.FAULT[1] = 0
      /\ AckOf.WAIT[2] = 1 /\ AckOf.FAULT[2] = 0
  BY Acks
<1> QED
  BY <1>1

\* What swj_transfer makes of the bits that it has heard.
LEMMA ResultIs ==
    ASSUME NEW s
    PROVE  /\ SubSeq(s, 1, 3) = AckOf.OK =>
                Result(s, call) = IF IsRead(Req) /\ Parity(SubSeq(s, 4, Len(s))) # 0 THEN "ERROR" ELSE "OK"
           /\ SubSeq(s, 1, 3) = AckOf.WAIT => Result(s, call) = "WAIT"
           /\ SubSeq(s, 1, 3) = AckOf.FAULT => Result(s, call) = "FAULT"
           /\ (\A a \in {"OK", "WAIT", "FAULT"} : SubSeq(s, 1, 3) # AckOf[a]) => Result(s, call) = "NONE"
<1> DEFINE t == SubSeq(s, 1, 3)
           p == Parity(SubSeq(s, 4, Len(s)))
           ok == AckOf.OK
           wait == AckOf.WAIT
           fault == AckOf.FAULT
<1>1. Result(s, call) = CASE t = ok -> IF IsRead(Req) /\ p # 0 THEN "ERROR" ELSE "OK"
                          [] t = wait -> "WAIT"
                          [] t = fault -> "FAULT"
                          [] OTHER -> "NONE"
  BY DEF Result, Req
<1>2. ok # wait /\ ok # fault /\ wait # fault
  BY AcksDiffer
<1>3. (\A a \in {"OK", "WAIT", "FAULT"} : t # AckOf[a]) => t # ok /\ t # wait /\ t # fault
  OBVIOUS
<1> HIDE DEF t, p, ok, wait, fault
<1>4. /\ t = ok => Result(s, call) = IF IsRead(Req) /\ p # 0 THEN "ERROR" ELSE "OK"
      /\ t = wait => Result(s, call) = "WAIT"
      /\ t = fault => Result(s, call) = "FAULT"
      /\ t # ok /\ t # wait /\ t # fault => Result(s, call) = "NONE"
  BY <1>1, <1>2
<1> QED
  BY <1>3, <1>4 DEF t, p, ok, wait, fault

\* A piece of a sequence.
LEMMA Slice ==
    ASSUME NEW s \in Seq(Bit), NEW m \in 1 .. Len(s), NEW n \in 1 .. Len(s), m <= n
    PROVE  /\ SubSeq(s, m, n) \in Seq(Bit) /\ Len(SubSeq(s, m, n)) = n - m + 1
           /\ \A i \in 1 .. n - m + 1 : SubSeq(s, m, n)[i] = s[m + i - 1]
<1>1. m \in Int /\ n \in Int /\ \A i \in m .. n : i \in 1 .. Len(s)
  OBVIOUS
<1>2. \A i \in m .. n : s[i] \in Bit
  BY <1>1, ElementOfSeq
<1> QED
  BY <1>1, <1>2, SubSeqProperties

\* The word that was read is the one that was sent, or its parity is wrong.
LEMMA WordRead ==
    ASSUME TargetOK, HostOK, Reading, ToGo = 0
    PROVE  LET word == SubSeq(heard, 4, Len(heard)) IN
           /\ Parity(word) = 0 => SubSeq(heard, 4, DataBits + 3) = target.sent
           /\ flips = 0 => Parity(word) = 0
<1>1. /\ Ack = AckOf.OK /\ IsRead(Req) /\ target.request = Req /\ target.said = "OK"
      /\ Len(heard) = DataBits + 4 /\ Got(heard, Spoken)
  BY DEF Reading
<1> DEFINE D == DataBits
           s == heard
           word == SubSeq(heard, 4, Len(heard))
           head == SubSeq(heard, 4, DataBits + 3)
           full == WordBits(target.sent)
           sent == target.sent
           said == Spoken
           ack == Ack
<1>2. D \in Nat /\ D >= 8 /\ s \in Seq(Bit) /\ Len(s) = D + 4
  BY <1>1, Limits DEF HostOK
<1>3. \A i \in 1 .. D + 4 : s[i] \in Bit
  <2>1. \A i \in 1 .. D + 4 : i \in 1 .. Len(s)
    BY <1>2
  <2> QED
    BY <1>2, <2>1, ElementOfSeq
<1>4. word \in Seq(Bit) /\ Len(word) = D + 1 /\ \A i \in 1 .. D + 1 : word[i] = s[i + 3]
  <2>1. PICK m \in 1 .. Len(s) : m = 4
    BY <1>2
  <2>2. D + 4 \in 1 .. Len(s)
    BY <1>2
  <2>3. PICK n \in 1 .. Len(s) : n = D + 4
    BY <2>2
  <2>4. m <= n /\ s \in Seq(Bit)
    BY <1>2, <2>1, <2>3
  <2>5. /\ SubSeq(s, m, n) \in Seq(Bit) /\ Len(SubSeq(s, m, n)) = n - m + 1
        /\ \A i \in 1 .. n - m + 1 : SubSeq(s, m, n)[i] = s[m + i - 1]
    BY <2>4, Slice
  <2>6. word = SubSeq(s, m, n)
    BY <1>2, <2>1, <2>3
  <2> HIDE DEF word
  <2>7. /\ word \in Seq(Bit) /\ Len(word) = n - m + 1
        /\ \A i \in 1 .. n - m + 1 : word[i] = s[m + i - 1]
    BY <2>5, <2>6, Zenon
  <2>8. n - m + 1 = D + 1 /\ \A i \in 1 .. D + 1 : m + i - 1 = i + 3
    BY <1>2, <2>1, <2>3
  <2> QED
    BY <2>7, <2>8
<1>5. head \in Seq(Bit) /\ Len(head) = D /\ \A i \in 1 .. D : head[i] = s[i + 3]
  <2>1. PICK m \in 1 .. Len(s) : m = 4
    BY <1>2
  <2>2. D + 3 \in 1 .. Len(s)
    BY <1>2
  <2>3. PICK n \in 1 .. Len(s) : n = D + 3
    BY <2>2
  <2>4. m <= n /\ s \in Seq(Bit)
    BY <1>2, <2>1, <2>3
  <2>5. /\ SubSeq(s, m, n) \in Seq(Bit) /\ Len(SubSeq(s, m, n)) = n - m + 1
        /\ \A i \in 1 .. n - m + 1 : SubSeq(s, m, n)[i] = s[m + i - 1]
    BY <2>4, Slice
  <2>6. head = SubSeq(s, m, n)
    BY <1>2, <2>1, <2>3
  <2> HIDE DEF head
  <2>7. /\ head \in Seq(Bit) /\ Len(head) = n - m + 1
        /\ \A i \in 1 .. n - m + 1 : head[i] = s[m + i - 1]
    BY <2>5, <2>6, Zenon
  <2>8. n - m + 1 = D /\ \A i \in 1 .. D : m + i - 1 = i + 3
    BY <1>2, <2>1, <2>3
  <2> QED
    BY <2>7, <2>8
<1>6. ack = AckOf.OK /\ \A i \in 1 .. 3 : ack[i] = s[i]
  <2>1. 1 \in Int /\ 3 \in Int /\ \A i \in 1 .. 3 : s[i] \in Bit
    BY <1>2, <1>3
  <2>2. \A i \in 1 .. 3 - 1 + 1 : SubSeq(s, 1, 3)[i] = s[1 + i - 1]
    BY <2>1, SubSeqProperties
  <2>3. \A i \in 1 .. 3 : i \in 1 .. 3 - 1 + 1 /\ 1 + i - 1 = i
    OBVIOUS
  <2> DEFINE u == SubSeq(s, 1, 3)
  <2> HIDE DEF u
  <2>4. \A i \in 1 .. 3 : u[i] = s[i]
    BY <2>2, <2>3 DEF u
  <2> QED
    BY <1>1, <2>4 DEF Ack, u
<1>7. sent \in [1 .. D -> Bit]
  BY Fields
<1>8. /\ full \in Seq(Bit) /\ Len(full) = D + 1 /\ Parity(full) = 0
      /\ \A i \in 1 .. D : full[i] = sent[i]
  BY <1>7, WordSent
<1>9. sent \in Seq(Bit) /\ Len(sent) = D
  BY <1>7, Word8
<1>10. /\ Len(said) = D + 4
       /\ (\A i \in 1 .. 3 : said[i] = AckOf.OK[i])
       /\ \A i \in 1 .. D + 1 : said[i + 3] = full[i]
  BY <1>1, SpokenIs
<1>11. Arrived(s, said) \/ (flips = 1 /\ Spoilt(s, said))
  BY <1>1 DEF Got
<1> HIDE DEF s, word, head, full, sent, said, ack
<1>12. CASE Arrived(s, said)
  <2>1. \A i \in 1 .. D + 4 : s[i] = said[i]
    BY <1>2, <1>12 DEF Arrived
  <2>2. \A i \in 1 .. D + 1 : i + 3 \in 1 .. D + 4
    BY <1>2
  <2>3. \A i \in 1 .. D + 1 : word[i] = full[i]
    BY <1>4, <1>10, <2>1, <2>2
  <2>4. word = full
    BY <1>4, <1>8, <2>3, SeqEqual
  <2>5. \A i \in 1 .. D : i \in 1 .. D + 1
    BY <1>2
  <2>6. \A i \in 1 .. D : head[i] = sent[i]
    BY <1>4, <1>5, <1>8, <2>3, <2>5
  <2>7. head = sent
    BY <1>5, <1>9, <2>6, SeqEqual
  <2> QED
    BY <1>8, <2>4, <2>7 DEF word, head, sent
<1>13. CASE flips = 1 /\ Spoilt(s, said)
  <2>1. PICK j \in 1 .. D + 4 :
          s[j] = 1 - said[j] /\ \A i \in 1 .. D + 4 : i # j => s[i] = said[i]
    BY <1>2, <1>13 DEF Spoilt
  <2>2. j \notin 1 .. 3
    <3> SUFFICES ASSUME j \in 1 .. 3 PROVE FALSE
      OBVIOUS
    <3>1. s[j] = AckOf.OK[j] /\ said[j] = AckOf.OK[j]
      BY <1>6, <1>10
    <3>2. said[j] = s[j] /\ s[j] \in Bit
      BY <1>3, <3>1
    <3> QED
      BY <2>1, <3>2 DEF Bit
  <2>3. j - 3 \in 1 .. D + 1 /\ (j - 3) + 3 = j
    BY <1>2, <2>2
  <2>4. PICK m \in 1 .. D + 1 : m = j - 3
    BY <2>3
  <2>5. word[m] = 1 - full[m]
    <3>1. word[m] = s[m + 3] /\ said[m + 3] = full[m] /\ m + 3 = j
      BY <1>4, <1>10, <2>3, <2>4
    <3> QED
      BY <2>1, <3>1
  <2>6. \A i \in 1 .. D + 1 : i # m => word[i] = full[i]
    <3>1. \A i \in 1 .. D + 1 : i + 3 \in 1 .. D + 4 /\ (i # m => i + 3 # j)
      BY <1>2, <2>3, <2>4
    <3>2. \A i \in 1 .. D + 1 : i # m => s[i + 3] = said[i + 3]
      BY <2>1, <3>1
    <3>3. \A i \in 1 .. D + 1 : word[i] = s[i + 3] /\ said[i + 3] = full[i]
      BY <1>4, <1>10
    <3> QED
      BY <3>2, <3>3, Zenon
  <2>7. Spoilt(word, full)
    BY <1>4, <2>5, <2>6 DEF Spoilt
  <2>8. Parity(word) = 1 - Parity(full)
    BY <1>4, <1>8, <2>7, ParityFlip
  <2>9. Parity(word) # 0 /\ flips # 0
    BY <1>8, <1>13, <2>8
  <2> QED
    BY <2>9 DEF word
<1> QED
  BY <1>11, <1>12, <1>13

\* The call returns: what it reports is true of the target.
LEMMA ReturnStep ==
    ASSUME LineIInv, Return
    PROVE  LineIInv'
<1>1. /\ status = "running" /\ todo = <<>> /\ stage = "body"
      /\ status' = Result(heard, call)
      /\ UNCHANGED <<todo, stage, heard, call, target, done, bad, flips, synced>>
  BY DEF Return
<1>2. HostOK /\ TargetOK /\ InBody
  BY <1>1 DEF LineIInv
<1>3. ToGo = 0
  BY <1>1, EmptySeq DEF ToGo
<1>4. synced /\ Req \in Requests /\ (~IsRead(Req) <=> call.op = "write")
      /\ (call.op = "connect" => Req = IdCode)
  BY <1>1, <1>2, Transferring
<1>5. Access = [request |-> Req, word |-> IF call.op = "write" THEN call.word ELSE <<>>]
  BY DEF Access, Req
<1>6. heard \in Seq(Bit) /\ DataBits \in Nat /\ DataBits >= 8 /\ flips \in {0, 1}
  BY <1>2, Limits DEF HostOK
<1>7. TargetOK'
  BY <1>1, <1>2 DEF TargetOK, Spoken
<1>8. ASSUME status' \in {"OK", "WAIT", "FAULT", "ERROR", "NONE"}, Over,
             done \in {<<>>, <<Access>>},
             status' = "OK" => IF bad THEN call.op = "write" /\ flips > 0 ELSE done = <<Access>>,
             status' \in {"WAIT", "FAULT"} => done = <<>> /\ target.said = status',
             status' = "OK" /\ IsRead(call.request) => SubSeq(heard, 4, DataBits + 3) = target.sent,
             call.op = "connect" /\ flips = 0 => status' = "OK"
      PROVE  LineIInv'
  <2>1. HostOK'
    BY <1>1, <1>2, <1>8 DEF HostOK
  <2>2. Over'
    BY <1>1, <1>8 DEF Over
  <2>3. Access' = Access
    BY <1>1 DEF Access
  <2>4. OnlyAsked'
    BY <1>1, <1>8, <2>3 DEF OnlyAsked
  <2>5. AnswerIsTrue'
    BY <1>1, <1>8, <2>3 DEF AnswerIsTrue
  <2>6. Connects'
    BY <1>1, <1>8 DEF Connects
  <2>7. status' # "running"
    BY <1>8
  <2> QED
    BY <1>7, <2>1, <2>2, <2>4, <2>5, <2>6, <2>7 DEF LineIInv
<1>9. BackingOff => status' = "NONE" /\ flips = 1
  <2> SUFFICES ASSUME BackingOff PROVE status' = "NONE" /\ flips = 1
    OBVIOUS
  <2>1. Len(heard) = 3 /\ flips = 1 /\ \A a \in {"OK", "WAIT", "FAULT"} : heard # AckOf[a]
    BY DEF BackingOff
  <2>2. SubSeq(heard, 1, 3) = heard
    BY <1>6, <2>1, WholeAck
  <2>3. \A a \in {"OK", "WAIT", "FAULT"} : SubSeq(heard, 1, 3) # AckOf[a]
    BY <2>1, <2>2
  <2>4. Result(heard, call) = "NONE"
    BY <2>3, ResultIs
  <2> QED
    BY <1>1, <2>1, <2>4
<1>10. Astray \/ (Settled /\ (SentInVain \/ TakenInVain \/ Refused \/ Reading \/ Writing))
  BY <1>2 DEF InBody, Settled
<1>11. CASE Astray
  <2>1. BackingOff /\ done = <<>> /\ target.ones <= DataBits + 12 - ToGo
        /\ \/ target.phase = "back" /\ ToGo = DataBits + 2
           \/ target.phase = "idle" /\ ToGo = DataBits + 1
           \/ target.phase = "packet" /\ Len(target.bits) >= DataBits - ToGo
           \/ target.phase = "lost"
    BY <1>11 DEF Astray
  <2>2. target.phase = "lost" /\ target.ones <= DataBits + 12
    <3>1. target.phase = "packet" => Len(target.bits) <= 6
      BY <1>2 DEF TargetOK
    <3>2. Len(target.bits) \in Nat /\ target.ones \in Nat
      BY <1>2, Fields
    <3> QED
      BY <1>3, <1>6, <2>1, <3>1, <3>2
  <2>3. Over /\ status' = "NONE" /\ flips = 1
    BY <1>9, <2>1, <2>2 DEF Over
  <2> QED
    BY <1>8, <2>1, <2>3
<1>12. Settled /\ target.phase = "idle" => Over
  BY DEF Settled, Over
<1>13. CASE Settled /\ SentInVain
  <2>1. BackingOff /\ target.phase = "idle" /\ done = <<Access>>
    BY <1>3, <1>4, <1>5, <1>13 DEF SentInVain
  <2> QED
    BY <1>8, <1>9, <1>12, <1>13, <2>1
<1>14. CASE Settled /\ TakenInVain
  <2>0. DataBits + 2 # 0
    BY <1>6
  <2>1. BackingOff /\ target.phase = "idle" /\ done = <<>>
    BY <1>3, <1>14, <2>0 DEF TakenInVain
  <2> QED
    BY <1>8, <1>9, <1>12, <1>14, <2>1
<1>15. CASE Settled /\ Refused
  <2>1. /\ done = <<>> /\ ~bad /\ target.said # "OK" /\ heard = AckOf[target.said]
        /\ target.phase = "idle"
    BY <1>3, <1>15 DEF Refused
  <2>2. target.said \in {"WAIT", "FAULT"}
    BY <1>2, <2>1, Fields
  <2>3. Len(heard) = 3
    BY <2>1, <2>2, Acks
  <2>4. SubSeq(heard, 1, 3) = heard
    BY <1>6, <2>3, WholeAck
  <2>5. status' = target.said
    <3>1. CASE target.said = "WAIT"
      <4>1. SubSeq(heard, 1, 3) = AckOf.WAIT
        BY <2>1, <2>4, <3>1
      <4> QED
        BY <1>1, <3>1, <4>1, ResultIs
    <3>2. CASE target.said = "FAULT"
      <4>1. SubSeq(heard, 1, 3) = AckOf.FAULT
        BY <2>1, <2>4, <3>2
      <4> QED
        BY <1>1, <3>2, <4>1, ResultIs
    <3> QED
      BY <2>2, <3>1, <3>2
  <2>6. call.op # "connect"
    BY <1>4, <1>15, <2>1 DEF Settled
  <2> QED
    BY <1>8, <1>12, <1>15, <2>1, <2>2, <2>5, <2>6
<1>16. CASE Settled /\ Reading
  <2>1. /\ Ack = AckOf.OK /\ IsRead(Req) /\ ~bad /\ target.phase = "idle" /\ done = <<Access>>
    BY <1>3, <1>4, <1>5, <1>16 DEF Reading
  <2>2. Result(heard, call) = IF Parity(SubSeq(heard, 4, Len(heard))) # 0 THEN "ERROR" ELSE "OK"
    BY <2>1, ResultIs DEF Ack
  <2>3. /\ Parity(SubSeq(heard, 4, Len(heard))) = 0 => SubSeq(heard, 4, DataBits + 3) = target.sent
        /\ flips = 0 => Parity(SubSeq(heard, 4, Len(heard))) = 0
    BY <1>2, <1>3, <1>16, WordRead
  <2>4. /\ status' \in {"OK", "ERROR"}
        /\ status' = "OK" => SubSeq(heard, 4, DataBits + 3) = target.sent
        /\ flips = 0 => status' = "OK"
    BY <1>1, <2>2, <2>3
  <2> QED
    BY <1>8, <1>12, <1>16, <2>1, <2>4
<1>17. CASE Settled /\ Writing
  <2>0. DataBits + 2 # 0
    BY <1>6
  <2>1. /\ heard = AckOf.OK /\ call.op = "write" /\ ~IsRead(Req) /\ target.phase = "idle"
        /\ \/ bad /\ flips = 1 /\ done = <<>>
           \/ ~bad /\ done = <<[request |-> Req, word |-> call.word]>>
    BY <1>3, <1>17, <2>0 DEF Writing
  <2>2. done = <<>> \/ done = <<Access>>
    BY <1>5, <2>1
  <2>3. ~bad => done = <<Access>>
    BY <1>5, <2>1
  <2>4. Len(heard) = 3
    BY <2>1, Acks
  <2>5. SubSeq(heard, 1, 3) = AckOf.OK
    BY <1>6, <2>1, <2>4, WholeAck
  <2>6. status' = "OK"
    BY <1>1, <2>1, <2>5, ResultIs
  <2>7. bad => flips > 0
    BY <2>1
  <2>8. ~IsRead(call.request)
    BY <2>1 DEF Req
  <2>9. Over
    BY <1>12, <1>17, <2>1
  <2> QED
    BY <1>8, <2>1, <2>2, <2>3, <2>6, <2>7, <2>8, <2>9
<1> QED
  BY <1>10, <1>11, <1>13, <1>14, <1>15, <1>16, <1>17

-----------------------------------------------------------------------------
(***************************************************************************)
(* The steps that begin and end.                                           *)
(***************************************************************************)

\* A reset that is long enough ends whatever the target is busy with.
LEMMA AnyReset ==
    ASSUME TargetOK, NEW left \in Nat, left >= ResetSeen
    PROVE  FirstReset(left)
<1>1. /\ target.ones \in Nat /\ Len(target.bits) \in Nat /\ DataBits \in Nat /\ ResetSeen \in Nat
      /\ DataBits >= 8 /\ ResetSeen > DataBits + 17
  BY Fields, Limits
<1>2. target.phase = "packet" => Len(target.bits) <= 6
  BY DEF TargetOK
<1>3. target.phase = "speak" =>
        IF target.said = "OK" /\ IsRead(target.request) THEN Len(target.bits) <= DataBits + 4
        ELSE Len(target.bits) <= 3
  <2> SUFFICES ASSUME target.phase = "speak"
               PROVE  IF target.said = "OK" /\ IsRead(target.request) THEN Len(target.bits) <= DataBits + 4
                      ELSE Len(target.bits) <= 3
    OBVIOUS
  <2>1. Len(target.bits) \in 1 .. Len(Spoken)
    BY DEF TargetOK
  <2>2. Len(Spoken) = IF target.said = "OK" /\ IsRead(target.request) THEN DataBits + 4 ELSE 3
    BY SpokenIs
  <2> DEFINE l == Len(target.bits)
             n == Len(Spoken)
  <2>3. l \in 1 .. n /\ l \in Nat /\ n = IF target.said = "OK" /\ IsRead(target.request) THEN DataBits + 4 ELSE 3
    BY <1>1, <2>1, <2>2
  <2> HIDE DEF l, n
  <2>4. IF target.said = "OK" /\ IsRead(target.request) THEN l <= DataBits + 4 ELSE l <= 3
    BY <1>1, <2>3
  <2> QED
    BY <2>4 DEF l
<1> QED
  BY <1>1, <1>2, <1>3 DEF FirstReset

\* A connect begins.
LEMMA BeginConnectStep ==
    ASSUME LineIInv, BeginConnect
    PROVE  LineIInv'
<1>1. PICK edge \in 0 .. 1 : Begins(Connect, "sequence", Times(edge, Out(1)) \o JtagToSwd)
  BY DEF BeginConnect
<1> DEFINE all == Times(edge, Out(1)) \o JtagToSwd
<1>2. /\ call' = Connect /\ status' = "running" /\ heard' = <<>> /\ stage' = "sequence"
      /\ todo' = all /\ done' = <<>> /\ bad' = FALSE
      /\ flips' = 0 /\ synced' = FALSE /\ target' = target
  BY <1>1 DEF BeginConnect, Begins
<1>3. HostOK /\ TargetOK
  BY DEF LineIInv
<1>4. /\ all \in Seq(Cycle) /\ Len(all) = edge + 2 * ResetSent + 24
      /\ \A i \in 1 .. Len(all) : all[i] = SequenceLeft(Len(all) + 1 - i)
  BY SequencePlan
<1> HIDE DEF all
<1>5. /\ ResetSent \in Nat /\ ResetSeen \in Nat /\ ResetSent >= ResetSeen /\ ResetSeen > 25
      /\ MaxFlips \in {0, 1}
  BY Limits
<1>6. TargetOK'
  BY <1>2, <1>3 DEF TargetOK, Spoken
<1>7. <<>> \in Seq(Bit) /\ Len(<<>>) = 0 /\ <<>> \in Seq(Accesses) /\ Len(<<>>) <= DataBits + 4
  BY NoBits, EmptySeq, Limits
<1>8. HostOK'
  <2>1. call' \in Transfers \union {Nothing, Connect}
    BY <1>2
  <2>a. 0 \in 0 .. MaxFlips
    BY <1>5
  <2>b. flips' \in 0 .. MaxFlips
    BY <1>2, <2>a
  <2>2. flips' \in 0 .. MaxFlips /\ bad' \in BOOLEAN /\ synced' \in BOOLEAN
    BY <1>2, <2>b
  <2> QED
    BY <1>2, <1>4, <1>7, <2>1, <2>2 DEF HostOK, Accesses
<1>9. PICK left \in Nat : left = edge + ResetSent
  BY <1>5
<1>10. left >= ResetSeen
  BY <1>5, <1>9
<1>11. FirstReset(left)'
  <2>1. FirstReset(left)
    BY <1>3, <1>10, AnyReset
  <2> QED
    BY <1>2, <2>1 DEF FirstReset
<1> DEFINE g == ToGo'
<1>12. g = edge + 2 * ResetSent + 24 /\ \A i \in 1 .. g : todo'[i] = SequenceLeft(g + 1 - i)
  BY <1>2, <1>4 DEF ToGo
<1>g. g = ToGo'
  OBVIOUS
<1> HIDE DEF g
<1>13. /\ g - (24 + ResetSent) = left /\ g <= 25 + 2 * ResetSent
       /\ ~(g <= 24 + ResetSent) /\ ~(g < 8 + ResetSent) /\ ~(g <= 8) /\ ~(g < 8)
  BY <1>5, <1>9, <1>12
<1>14. FirstReset(ToGo - (24 + ResetSent))'
  BY <1>11, <1>13, <1>g DEF FirstReset
<1>15. InSequence'
  BY <1>2, <1>12, <1>13, <1>14, <1>g DEF InSequence
<1> QED
  BY <1>2, <1>6, <1>8, <1>15 DEF LineIInv, Finished

\* A transfer begins.
LEMMA BeginTransferStep ==
    ASSUME LineIInv, NEW c \in Transfers, BeginTransfer(c)
    PROVE  LineIInv'
<1>1. /\ synced /\ status # "running"
      /\ call' = c /\ status' = "running" /\ heard' = <<>> /\ stage' = "request"
      /\ todo' = RequestCycles(c.request) /\ done' = <<>> /\ bad' = FALSE
      /\ target' = target /\ flips' = flips /\ synced' = synced
  BY DEF BeginTransfer, Begins
<1>2. HostOK /\ TargetOK
  BY DEF LineIInv
<1>3. status # "new"
  BY <1>1, <1>2 DEF HostOK
<1>4. Over
  BY <1>1, <1>3 DEF LineIInv, Finished
<1>5. c # Nothing /\ c.request \in Requests
  <2>1. CASE c \in {[op |-> "read", request |-> r] : r \in {q \in Requests : IsRead(q)}}
    <3>1. PICK r \in Requests : c = [op |-> "read", request |-> r]
      BY <2>1
    <3>2. c.op = "read" /\ c.request = r /\ Nothing.op = "nothing"
      BY <3>1 DEF Nothing
    <3> QED
      BY <3>2
  <2>2. CASE c \in {[op |-> "write", request |-> r, word |-> w] :
                      r \in {q \in Requests : ~IsRead(q)}, w \in Words}
    <3>1. PICK r \in Requests, w \in Words : c = [op |-> "write", request |-> r, word |-> w]
      BY <2>2
    <3>2. c.op = "write" /\ c.request = r /\ Nothing.op = "nothing"
      BY <3>1 DEF Nothing
    <3> QED
      BY <3>2
  <2> QED
    BY <2>1, <2>2 DEF Transfers
<1>6. /\ todo' \in Seq(Cycle) /\ Len(todo') = 12
      /\ \A i \in 1 .. 12 : todo'[i] = RequestLeft(c.request, 13 - i)
  BY <1>1, <1>5, RequestPlan
<1>7. TargetOK'
  BY <1>1, <1>2 DEF TargetOK, Spoken
<1>8. <<>> \in Seq(Bit) /\ Len(<<>>) = 0 /\ <<>> \in Seq(Accesses) /\ Len(<<>>) <= DataBits + 4
  BY NoBits, EmptySeq, Limits
<1>9. HostOK'
  <2>1. call' \in Transfers \union {Nothing, Connect}
    BY <1>1
  <2>2. flips' \in 0 .. MaxFlips /\ bad' \in BOOLEAN /\ synced' = TRUE
    BY <1>1, <1>2 DEF HostOK
  <2> QED
    BY <1>1, <1>5, <1>6, <1>8, <2>1, <2>2 DEF HostOK, Accesses
<1>10. Req' = c.request
  BY <1>1 DEF Req
<1>11. ToGo' = 12 - 0 /\ \A i \in 1 .. ToGo' : todo'[i] = RequestLeft(Req', ToGo' + 1 - i)
  BY <1>6, <1>10 DEF ToGo
<1>12. Len(heard') = 0
  BY <1>1, <1>8
<1>13. Waiting' \/ Deaf(0)'
  <2>1. CASE target.phase = "idle" /\ ~target.fresh /\ target.ones = 0
    <3>1. ~target'.fresh
      BY <1>1, <2>1, Zenon
    <3> QED
      BY <1>1, <2>1, <3>1 DEF Waiting
  <2>2. CASE target.phase = "lost" /\ flips = 1 /\ target.ones <= DataBits + 12
    <3>1. \A i \in 1 .. Len(heard') : heard'[i] = 1
      BY <1>12
    <3>2. target'.ones <= DataBits + 12 + 0 /\ \A i \in 1 .. 0 - 1 : Req'[i] = 1
      BY <1>1, <2>2, Limits
    <3>3. target'.phase = "lost" /\ flips' = 1 /\ done' = <<>> /\ ~(0 >= 6)
      BY <1>1, <2>2
    <3> QED
      BY <3>1, <3>2, <3>3 DEF Deaf
  <2> QED
    BY <1>4, <2>1, <2>2 DEF Over
<1>14. ~bad'
  BY <1>1
<1>15. RequestAt(0)'
  BY <1>11, <1>12, <1>13, <1>14 DEF RequestAt
<1>16. InRequest'
  BY <1>11, <1>15 DEF InRequest
<1> QED
  BY <1>1, <1>7, <1>9, <1>16 DEF LineIInv, Finished

\* The host leaves the line alone.
LEMMA LeaveStep ==
    ASSUME LineIInv, Leave
    PROVE  LineIInv'
<1>1. /\ status' = "new" /\ todo' = <<>> /\ synced' = FALSE
      /\ UNCHANGED <<stage, heard, call, target, done, bad, flips>>
  BY DEF Leave
<1>2. HostOK /\ TargetOK
  BY DEF LineIInv
<1>3. TargetOK'
  BY <1>1, <1>2 DEF TargetOK, Spoken
<1>4. <<>> \in Seq(Cycle)
  BY EmptySeq
<1>5. HostOK'
  BY <1>1, <1>2, <1>4 DEF HostOK
<1> QED
  BY <1>1, <1>3, <1>5 DEF LineIInv, Finished

\* A step that changes nothing.
LEMMA LineStutter ==
    ASSUME LineIInv, UNCHANGED vars
    PROVE  LineIInv'
<1>1. /\ todo' = todo /\ stage' = stage /\ heard' = heard /\ call' = call /\ status' = status
      /\ target' = target /\ done' = done /\ bad' = bad /\ flips' = flips /\ synced' = synced
  BY DEF vars, host
<1>2. /\ HostOK /\ TargetOK
      /\ status = "running" /\ stage = "sequence" => InSequence
      /\ status = "running" /\ stage = "request" => InRequest
      /\ status = "running" /\ stage = "body" => InBody
      /\ Finished => Over /\ OnlyAsked /\ AnswerIsTrue /\ Connects
  BY DEF LineIInv
<1>a. TargetOK'
  BY <1>1, <1>2 DEF TargetOK, Spoken
<1>b. HostOK'
  BY <1>1, <1>2 DEF HostOK
<1>3. HostOK' /\ TargetOK'
  BY <1>a, <1>b
<1>4. InSequence => InSequence'
  BY <1>1 DEF InSequence, FirstReset, Switching, SecondReset, ToGo
<1>5. InRequest => InRequest'
  <2> SUFFICES ASSUME InRequest PROVE InRequest'
    OBVIOUS
  <2>1. PICK k \in 0 .. 12 : ToGo = 12 - k /\ RequestAt(k)
    BY DEF InRequest
  <2>2. ToGo' = ToGo /\ Req' = Req
    BY <1>1 DEF ToGo, Req
  <2>3. Spoken' = Spoken
    BY <1>1 DEF Spoken
  <2>4. Deaf(k)' = Deaf(k)
    BY <1>1, <2>2 DEF Deaf
  <2>5. Waiting' = Waiting
    BY <1>1, <2>2 DEF Waiting
  <2>6. Collecting(k)' = Collecting(k)
    BY <1>1, <2>2 DEF Collecting, Got, Arrived, Spoilt
  <2>7. Turning' = Turning
    BY <1>1, <2>2 DEF Turning
  <2>8. Answered' = Answered
    BY <1>1, <2>2, <2>3 DEF Answered, Got, Arrived, Spoilt
  <2>9. Missed(k)' = Missed(k)
    BY <1>1 DEF Missed
  <2>10. Saying(Len(Spoken) - (k - 9))' = Saying(Len(Spoken) - (k - 9))
    BY <1>1, <2>3 DEF Saying
  <2>11. RequestAt(k)' = RequestAt(k)
    BY <1>1, <2>2, <2>4, <2>5, <2>6, <2>7, <2>8, <2>9, <2>10 DEF RequestAt
  <2> QED
    BY <2>1, <2>2, <2>11 DEF InRequest
<1>6. InBody => InBody'
  BY <1>1 DEF InBody, Astray, SentInVain, TakenInVain, Refused, Reading, Writing, BackingOff,
              Saying, Got, Arrived, Spoilt, Spoken, ToGo, Req, Ack
<1>7. Finished' => Over' /\ OnlyAsked' /\ AnswerIsTrue' /\ Connects'
  BY <1>1, <1>2 DEF Finished, Over, OnlyAsked, AnswerIsTrue, Connects, Access
<1> QED
  BY <1>1, <1>2, <1>3, <1>4, <1>5, <1>6, <1>7 DEF LineIInv

\* The invariant holds at the start.
LEMMA LineInit == Init => LineIInv
<1> SUFFICES ASSUME Init PROVE LineIInv
  OBVIOUS
<1>1. /\ todo = <<>> /\ stage = "sequence" /\ heard = <<>> /\ call = Nothing /\ status = "new"
      /\ target \in [phase : {"jtag", "idle"}, bits : {<<>>}, ones : {0}, request : {IdCode},
                     said : {"OK"}, sent : {Times(DataBits, 0)}, fresh : {FALSE}]
      /\ done = <<>> /\ bad = FALSE /\ flips = 0 /\ synced = FALSE
  BY DEF Init
<1>2. <<>> \in Seq(Bit) /\ Len(<<>>) = 0 /\ <<>> \in Seq(Accesses) /\ Len(<<>>) <= DataBits + 4
      /\ <<>> \in Seq(Cycle) /\ 0 \in 0 .. MaxFlips
  BY NoBits, EmptySeq, Limits
<1>3. HostOK
  BY <1>1, <1>2 DEF HostOK, Accesses
<1>4. target \in TargetType
  <2> DEFINE z == Times(DataBits, 0)
             e == <<>>
  <2>1. z \in [1 .. DataBits -> Bit]
    BY Limits DEF Times, Bit
  <2>2. IdCode \in Requests
    <3> DEFINE s == IdCode
    <3>1. s = <<0, 1, 0, 0>>
      BY DEF IdCode
    <3>2. s \in [1 .. 4 -> Bit]
      BY <3>1 DEF Bit
    <3> QED
      BY <3>2 DEF Requests
  <2>3. e \in Seq(Bit)
    BY <1>2
  <2>4. 0 \in 0 .. ResetSeen
    BY Limits
  <2>5. target \in [phase : {"jtag", "idle"}, bits : {e}, ones : {0}, request : {IdCode},
                    said : {"OK"}, sent : {z}, fresh : {FALSE}]
    BY <1>1
  <2> HIDE DEF z, e
  <2> QED
    BY <2>1, <2>2, <2>3, <2>4, <2>5 DEF TargetType, Phases
<1>5. target.phase \in {"jtag", "idle"}
  BY <1>1
<1>6. TargetOK
  BY <1>4, <1>5 DEF TargetOK
<1> QED
  BY <1>1, <1>3, <1>6 DEF LineIInv, Finished

-----------------------------------------------------------------------------
(***************************************************************************)
(* The theorems.                                                           *)
(***************************************************************************)

\* Every step keeps the invariant.
LEMMA LineKept == LineIInv /\ [Next]_vars => LineIInv'
<1> SUFFICES ASSUME LineIInv, [Next]_vars PROVE LineIInv'
  OBVIOUS
<1>1. CASE BeginConnect
  BY <1>1, BeginConnectStep
<1>2. ASSUME NEW c \in Transfers, BeginTransfer(c) PROVE LineIInv'
  BY <1>2, BeginTransferStep
<1>3. CASE Clock
  BY <1>3, ClockStep
<1>4. CASE Continue
  BY <1>4, ContinueStep
<1>5. CASE Return
  BY <1>5, ReturnStep
<1>6. CASE Leave
  BY <1>6, LeaveStep
<1>7. CASE UNCHANGED vars
  BY <1>7, LineStutter
<1> QED
  BY <1>1, <1>2, <1>3, <1>4, <1>5, <1>6, <1>7 DEF Next

\* The inductive invariant holds in every reachable state.
THEOREM LineInductive == Spec => []LineIInv
  BY LineInit, LineKept, PTL DEF Spec

\* The target speaks, or is between two turns, only where the host is silent.
LEMMA SpeaksIn ==
    ASSUME LineIInv, synced, status = "running", todo # <<>>, Head(todo).drives
    PROVE  Listens
<1>1. /\ HostOK /\ TargetOK
      /\ stage = "request" => InRequest
      /\ stage = "body" => InBody
  BY DEF LineIInv
<1>2. stage = "request" \/ stage = "body"
  BY <1>1 DEF HostOK
<1>3. todo \in Seq(Cycle) /\ ToGo \in Nat /\ ToGo >= 1 /\ todo[1] = Head(todo) /\ todo[1].drives
  <2>1. todo \in Seq(Cycle)
    BY <1>1 DEF HostOK
  <2>2. Len(todo) \in Nat /\ Len(todo) # 0
    BY <2>1, EmptySeq, LenProperties
  <2> QED
    BY <2>1, <2>2 DEF ToGo
<1>4. target.phase \in Phases
  BY <1>1, Fields
<1>5. todo[1] # Turn /\ todo[1] # In
  BY <1>3, Cycles
<1>6. SUFFICES ASSUME target.phase \in {"turn", "speak", "back"} PROVE FALSE
  BY <1>4 DEF Listens, Phases
<1>7. CASE stage = "request"
  <2>1. PICK k \in 0 .. 12 : ToGo = 12 - k /\ RequestAt(k)
    BY <1>1, <1>7 DEF InRequest
  <2>2. k >= 8
    BY <1>6, <2>1 DEF RequestAt, Deaf, Waiting, Collecting, Turning, Missed
  <2>3. 1 \in 1 .. ToGo /\ todo[1] = RequestLeft(Req, ToGo + 1 - 1)
    BY <1>3, <2>1 DEF RequestAt
  <2>4. ToGo <= 4 /\ ToGo + 1 - 1 = ToGo
    BY <2>1, <2>2
  <2>5. todo[1] = Turn \/ todo[1] = In
    BY <1>3, <2>3, <2>4 DEF RequestLeft
  <2> QED
    BY <1>5, <2>5
<1>8. CASE stage = "body"
  <2>0. 1 \in 1 .. ToGo /\ ToGo + 1 - 1 = ToGo /\ DataBits \in Nat
    BY <1>3, Limits
  <2>1. Astray \/ SentInVain \/ TakenInVain \/ Refused \/ Reading \/ Writing
    BY <1>1, <1>8 DEF InBody
  <2>2. ~BackingOff
    BY <1>5, <2>0 DEF BackingOff
  <2>3. ~Refused
    BY <1>5, <2>0 DEF Refused
  <2>4. ~Reading
    <3> SUFFICES ASSUME Reading PROVE FALSE
      OBVIOUS
    <3>1. todo[1] = ReadLeft(ToGo + 1 - 1)
      BY <2>0 DEF Reading
    <3>2. todo[1] = Turn \/ todo[1] = In
      BY <3>1 DEF ReadLeft
    <3> QED
      BY <1>5, <3>2
  <2>5. ~Writing
    <3> SUFFICES ASSUME Writing PROVE FALSE
      OBVIOUS
    <3>1. todo[1] = WriteLeft(call.word, ToGo + 1 - 1)
      BY <2>0 DEF Writing
    <3>2. ToGo # DataBits + 2
      <4> SUFFICES ASSUME ToGo = DataBits + 2 PROVE FALSE
        OBVIOUS
      <4>1. todo[1] = Turn
        BY <2>0, <3>1 DEF WriteLeft
      <4> QED
        BY <1>5, <4>1
    <3>3. target.phase = "data"
      BY <1>3, <3>2 DEF Writing
    <3> QED
      BY <1>6, <3>3
  <2> QED
    BY <2>1, <2>2, <2>3, <2>4, <2>5 DEF Astray, SentInVain, TakenInVain
<1> QED
  BY <1>2, <1>7, <1>8

\* The invariant of the wires: types, one driver at a time, in step at the end.
THEOREM LineSafe == Spec => []LineInv
<1>1. LineIInv => LineInv
  <2> SUFFICES ASSUME LineIInv PROVE LineInv
    OBVIOUS
  <2>1. HostOK /\ TargetOK /\ (Finished => Over)
    BY DEF LineIInv
  <2>2. LineTypeOK
    <3>1. todo \in Seq([drives : BOOLEAN, bit : Bit, samples : BOOLEAN])
      BY <2>1 DEF HostOK, Cycle
    <3>2. /\ target.phase \in Phases /\ target.bits \in Seq(Bit) /\ target.ones \in 0 .. ResetSeen
      BY <2>1, Fields
    <3> QED
      BY <2>1, <3>1, <3>2 DEF LineTypeOK, HostOK, Phases
  <2>3. NoContention
    BY SpeaksIn DEF NoContention
  <2>4. InStep
    BY <2>1 DEF InStep, Over
  <2> QED
    BY <2>2, <2>3, <2>4 DEF LineInv
<1> QED
  BY <1>1, LineInductive, PTL

\* The target does what it was asked to and no more, and the host tells what
\* it answered.
THEOREM LineTransfersAreTrue == Spec => []TransferIsTrue
<1>1. LineIInv => TransferIsTrue
  <2> SUFFICES ASSUME LineIInv PROVE TransferIsTrue
    OBVIOUS
  <2>1. HostOK /\ (Finished => OnlyAsked /\ AnswerIsTrue)
    BY DEF LineIInv
  <2>2. AnswerIsTrue
    BY <2>1 DEF AnswerIsTrue
  <2>3. OnlyAsked
    <3> SUFFICES ASSUME synced PROVE done \in {<<>>, <<Access>>}
      BY DEF OnlyAsked
    <3>1. CASE status # "running"
      <4>1. Finished
        BY <2>1, <3>1 DEF Finished, HostOK
      <4> QED
        BY <2>1, <4>1 DEF OnlyAsked
    <3>2. CASE status = "running"
      <4>1. stage = "request" \/ stage = "body"
        BY <2>1, <3>2 DEF HostOK
      <4>2. stage # "sequence"
        BY <4>1
      <4>3. ~IsRead(Req) <=> call.op = "write"
        BY <2>1, <3>2, <4>2, Transferring
      <4>4. Access = [request |-> Req, word |-> IF call.op = "write" THEN call.word ELSE <<>>]
        BY DEF Access, Req
      <4>5. IsRead(Req) => Access = [request |-> Req, word |-> <<>>]
        BY <4>3, <4>4
      <4>6. call.op = "write" => Access = [request |-> Req, word |-> call.word]
        BY <4>4
      <4>7. CASE stage = "request"
        <5>1. InRequest
          BY <3>2, <4>7 DEF LineIInv
        <5>2. PICK k \in 0 .. 12 : RequestAt(k)
          BY <5>1 DEF InRequest
        <5>3. done = <<>> \/ Answered
          BY <5>2 DEF RequestAt, Deaf, Waiting, Collecting, Turning, Missed
        <5>4. Answered => done = <<>> \/ (IsRead(Req) /\ done = <<[request |-> Req, word |-> <<>>]>>)
          BY DEF Answered
        <5> QED
          BY <4>5, <5>3, <5>4
      <4>8. CASE stage = "body"
        <5>1. Astray \/ SentInVain \/ TakenInVain \/ Refused \/ Reading \/ Writing
          BY <3>2, <4>8 DEF LineIInv, InBody
        <5>2. Astray \/ TakenInVain \/ Refused => done = <<>>
          BY DEF Astray, TakenInVain, Refused
        <5>3. SentInVain \/ Reading => done = <<[request |-> Req, word |-> <<>>]>> /\ IsRead(Req)
          BY DEF SentInVain, Reading
        <5>4. Writing => /\ call.op = "write"
                         /\ done = <<>> \/ done = <<[request |-> Req, word |-> call.word]>>
          <6>1. DataBits + 2 # 0
            BY Limits
          <6> QED
            BY <6>1 DEF Writing
        <5> QED
          BY <4>5, <4>6, <5>1, <5>2, <5>3, <5>4
      <4> QED
        BY <4>1, <4>7, <4>8
    <3> QED
      BY <3>1, <3>2
  <2> QED
    BY <2>2, <2>3 DEF TransferIsTrue
<1> QED
  BY <1>1, LineInductive, PTL

\* jtag_to_swd and the read of IDCODE after it succeed, wherever the target was.
THEOREM LineConnects == Spec => []Connects
<1>1. LineIInv => Connects
  BY DEF LineIInv, Connects
<1> QED
  BY <1>1, LineInductive, PTL

\* No cycle but one of swd_reset puts the target in reset.
THEOREM LineNoFalseReset == Spec => NoFalseReset
<1>1. LineIInv /\ [Next]_vars =>
        [target'.phase = "reset" /\ target.phase # "reset" => stage = "sequence"]_vars
  <2> SUFFICES ASSUME LineIInv, Next, target'.phase = "reset", target.phase # "reset"
               PROVE  stage = "sequence"
    BY DEF vars
  <2>1. Clock
    <3>1. target' # target
      OBVIOUS
    <3> QED
      BY <3>1 DEF Next, BeginConnect, BeginTransfer, Begins, Continue, Return, Leave
  <2>2. LineIInv'
    BY <2>1, ClockStep
  <2>3. HostOK /\ status' = status /\ stage' = stage /\ status = "running"
    BY <2>1, Tick DEF LineIInv
  <2>4. ~(stage = "request")
    <3> SUFFICES ASSUME stage = "request" PROVE FALSE
      OBVIOUS
    <3>1. InRequest'
      BY <2>2, <2>3 DEF LineIInv
    <3>2. PICK k \in 0 .. 12 : RequestAt(k)'
      BY <3>1 DEF InRequest
    <3> QED
      BY <3>2 DEF RequestAt, Deaf, Waiting, Collecting, Turning, Saying, Missed
  <2>5. ~(stage = "body")
    <3> SUFFICES ASSUME stage = "body" PROVE FALSE
      OBVIOUS
    <3>1. InBody'
      BY <2>2, <2>3 DEF LineIInv
    <3>2. Astray' \/ SentInVain' \/ TakenInVain' \/ Refused' \/ Reading' \/ Writing'
      BY <3>1 DEF InBody
    <3>3. DataBits + 2 # 0
      BY Limits
    <3> QED
      BY <3>2, <3>3 DEF Astray, SentInVain, TakenInVain, Refused, Reading, Writing, Saying
  <2> QED
    BY <2>3, <2>4, <2>5 DEF HostOK
<1> QED
  BY <1>1, LineInductive, PTL DEF Spec, NoFalseReset
=============================================================================

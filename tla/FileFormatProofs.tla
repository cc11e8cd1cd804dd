--------------------------- MODULE FileFormatProofs ---------------------------
(***************************************************************************)
(* What holds of the two readers of files, for every file.                 *)
(*                                                                         *)
(* The hex parser, for every file that is well-formed and every way to cut *)
(* it into chunks, for records of any length.  HexIInv says where in its   *)
(* line the parser is (LineState), what the records it has seen mean, and  *)
(* where their bytes are: in the flash, in the buffer, or in the record to *)
(* be loaded by the next call (Held).  Two other modes are the parser that *)
(* skips to the next block (SkipState) and the one that has seen the end   *)
(* of the file (EndState).                                                 *)
(*                                                                         *)
(* The store of algorithms, for any algorithm files.  StoreIInv says where *)
(* in the merged file each record begins (Laid), and how far the walk over *)
(* them has got (Walks).                                                   *)
(***************************************************************************)
EXTENDS HexParser, AlgorithmStore, SequenceTheorems, WellFoundedInduction, TLAPS

-----------------------------------------------------------------------------
\* The characters before line i, and what its records mean.
LineAt(i) == i * LineLength
MeansAt(f, i) == MeaningsOf(f)[LineAt(i)]

\* The bytes of a file, and of flash contents.
BytesOf(f) == UNION {{RecordAt(f, i).data[k] : k \in DOMAIN RecordAt(f, i).data} : i \in 0 .. Lines(f) - 1}
Cells(f) == Nat \X BytesOf(f)

\* The complete records of the first n characters.
Count(f, n) == CHOOSE c \in 0 .. Lines(f) : LineAt(c) <= n + 1 /\ n + 1 < LineAt(c + 1)

\* A block begins behind line l and before the p-th character.
BlockIn(f, l, p) == \E m \in 0 .. Lines(f) - 1 : l < m /\ LineAt(m) < p /\ BlockAt(f, m)

\* The value of a byte occurs among the cells s.
Among(b, s) == \E j \in DOMAIN s : s[j][2] = b

Skipping == parser.skip_until_aligned
Ended == parser.record_processed /\ parser.line.type = "eof"
Pending == parser.load_unaligned_record
Next_addr == parser.next_address_to_write
Failing == pc = "failed" \/ (pc = "parsed" /\ status = "CKSUM_FAIL")

\* The characters consumed.
Consumed == (pos - Len(blob)) + parsed

Records(f) == {NoRecord} \cup {RecordAt(f, i) : i \in 0 .. Lines(f) - 1}
ParserType(f) ==
    [line : Records(f),
     next_address_to_write : Nat, low_nibble : BOOLEAN, idx : 0 .. RecordBytes + 1,
     record_processed : BOOLEAN, load_unaligned_record : BOOLEAN,
     skip_until_aligned : BOOLEAN, binary_version : Nat]

HexTypes ==
    /\ HexTypeOK
    /\ file \in Files /\ pos \in 0 .. Len(file) /\ aligned \in BOOLEAN
    /\ parser \in ParserType(file)
    /\ buf \in Seq(BytesOf(file)) /\ flashed \in Seq(Cells(file))
    /\ pc # "parsed" => Len(buf) <= Next_addr

\* The present chunk, or what is left of it, ends where the file has been fed to.
BlobState ==
    /\ IsSeq(blob) /\ Len(blob) <= pos
    /\ \A k \in 1 .. Len(blob) : blob[k] = file[(pos - Len(blob)) + k]
    /\ pc \in {"idle", "parse", "failed"} => parsed = 0 /\ buf = << >>
    /\ pc \in {"idle", "failed"} => blob = << >>
    /\ aligned => \A k \in 2 .. Len(blob) : ~(IsColon(blob[k]) /\ blob[k].block)
    /\ Skipping /\ pc = "parse" => blob # << >>

\* Where the data of the buffer begin.
BufferAt == IF pc = "parsed" THEN start ELSE Next_addr - Len(buf)

\* What has been decoded, wherever it is.
Out == flashed \o Located(BufferAt, buf)
Held == Out \o (IF Pending THEN Located(RecordAddr(parser), parser.line.data) ELSE << >>)

\* No byte is held that the meaning has not.
Justified(meant) ==
    /\ \A k \in DOMAIN flashed : Among(flashed[k][2], meant)
    /\ \A k \in DOMAIN buf : Among(buf[k], meant)
    /\ Pending => \A k \in DOMAIN parser.line.data : Among(parser.line.data[k], meant)

HeldIs(meant) == Justified(meant) /\ (aligned => Held = meant)

\* In line i, behind its o-th character, with c records seen.
LineState(i, o, c) ==
    \/ o = 0 /\ c = i
    \/ /\ 1 <= o /\ o <= 2 * RecordBytes /\ c = i
       /\ ~parser.record_processed
       /\ (2 * parser.idx) + (IF parser.low_nibble THEN 1 ELSE 0) = o - 1
       /\ o >= 2 => parser.line = RecordAt(file, i)
    \/ /\ o = 2 * RecordBytes /\ c = i + 1
       /\ parser.record_processed /\ parser.low_nibble /\ parser.idx = RecordBytes
       /\ parser.line = RecordAt(file, i) /\ parser.line.sound /\ IsExtended(parser.line)
       /\ pc \in {"parse", "scan", "parsed"} /\ parsed < Len(blob)
       /\ pc = "parsed" => status = "UNALIGNED"
    \/ o = LineLength - 1 /\ c = i + 1

\* The high part of the address is the base, but behind data that end with it, and
\* inside of a block that is none of ours.
Based(f, next, meant, c) ==
    \/ High(next) = meant.base
    \/ (c < Lines(f) => RecordAt(f, c).type \in {"eof", "seg", "lin"})
    \/ (meant.version # 0 /\ ~(c > 0 /\ BlockAt(f, c - 1)))

VersionIs(meant) ==
    /\ (aligned \/ parser.binary_version = 0) => parser.binary_version = meant.version
    /\ parser.binary_version # 0 => HasVersions(file)

\* The record that the next call loads.
PendingIs(meant, c) ==
    Pending =>
        /\ pc \in {"parse", "parsed"} /\ (pc = "parsed" => status = "UNALIGNED")
        /\ c > 0 /\ parser.line = RecordAt(file, c - 1) /\ parser.line.type = "data"
        /\ parser.binary_version = 0
        /\ aligned => High(Next_addr) = meant.base

ScanState(i, o, c) ==
    /\ LineAt(i) + o = Consumed
    /\ LineState(i, o, c)
    /\ pc = "parsed" => status = "UNALIGNED" \/ parsed = Len(blob)
    /\ VersionIs(MeansAt(file, c))
    /\ ~MeansAt(file, c).ended
    /\ aligned => Based(file, Next_addr, MeansAt(file, c), c)
    /\ PendingIs(MeansAt(file, c), c)
    /\ HeldIs(MeansAt(file, c).bytes)

Scans == \E i \in 0 .. Lines(file), o \in 0 .. LineLength - 1, c \in 0 .. Lines(file) : ScanState(i, o, c)

\* What is skipped, up to where the parser is or will be.
SkippedTo == IF pc = "parse" THEN pos - Len(blob) ELSE pos

\* Everything since a line of data for another version is skipped.
SkipState ==
    /\ pc \in {"idle", "parse", "parsed"} /\ (pc = "parsed" => status = "OK")
    /\ ~Pending /\ ~Ended
    /\ parser.binary_version # 0 /\ HasVersions(file)
    /\ Justified(MeansAt(file, Count(file, SkippedTo)).bytes)
    /\ aligned =>
         \E l \in 0 .. Lines(file) - 1 :
            /\ RecordAt(file, l).type = "data"
            /\ MeansAt(file, l + 1).version = parser.binary_version
            /\ Held = MeansAt(file, l + 1).bytes
            /\ l + 1 <= Count(file, SkippedTo)
            /\ ~BlockIn(file, l, SkippedTo)

EndState ==
    /\ pc \in {"idle", "parse", "scan", "parsed"} /\ ~Pending
    /\ Lines(file) > 0 /\ pos >= Len(file) - 1
    /\ IF pc = "parsed" THEN status # "UNALIGNED" ELSE Consumed >= Len(file) - 1
    /\ HeldIs(MeansAt(file, Lines(file)).bytes)

FailState ==
    /\ \A k \in DOMAIN flashed : Among(flashed[k][2], Meaning(pos))
    /\ aligned => IsPrefix(flashed, Meaning(pos))

HexIInv ==
    /\ HexTypes /\ BlobState
    /\ IF Failing THEN FailState
       ELSE IF Skipping THEN SkipState
       ELSE IF Ended THEN EndState
       ELSE Scans

-----------------------------------------------------------------------------
\* A set of naturals that is not empty has a least element.
LEMMA Least ==
    ASSUME NEW S \in SUBSET Nat, S # {}
    PROVE  \E n \in S : \A m \in S : n <= m
<1> DEFINE R == OpToRel(<, Nat)
<1>1. IsWellFoundedOn(R, Nat)
  BY NatLessThanWellFounded
<1>2. \A x, y \in Nat : x < y => <<x, y>> \in R
  BY DEF OpToRel
<1> HIDE DEF R
<1>3. PICK n \in S : \A m \in S : ~(<<m, n>> \in R)
  BY <1>1, WFMin
<1>4. ASSUME NEW m \in S PROVE n <= m
  <2>1. n \in Nat /\ m \in Nat  OBVIOUS
  <2>2. ~(m < n)  BY <1>2, <1>3, <2>1
  <2> QED BY <2>1, <2>2
<1> QED BY <1>4

\* What holds of a number, and of the next one up to last, holds up to last.
LEMMA UpTo ==
    ASSUME NEW first \in Nat, NEW last \in Nat, NEW S, first \in S,
           \A n \in first .. last - 1 : n \in S => n + 1 \in S
    PROVE  \A n \in first .. last : n \in S
<1> SUFFICES ASSUME NEW x \in first .. last, x \notin S
             PROVE  FALSE
  OBVIOUS
<1> DEFINE T == {n \in first .. last : n \notin S}
<1>1. T \in SUBSET Nat /\ T # {}
  OBVIOUS
<1>2. PICK n \in T : \A m \in T : n <= m
  <2> HIDE DEF T
  <2> QED BY <1>1, Least
<1>3. n \in first .. last /\ n \notin S /\ n # first
  OBVIOUS
<1>4. n - 1 \in first .. last /\ n - 1 \in first .. last - 1 /\ ~(n <= n - 1) /\ (n - 1) + 1 = n
  BY <1>3
<1>5. n - 1 \in S
  BY <1>2, <1>4
<1> QED BY <1>3, <1>4, <1>5

-----------------------------------------------------------------------------
\* Bytes from an address on: a sequence of cells.
LEMMA LocatedSeq ==
    ASSUME NEW S, NEW a \in Nat, NEW d \in Seq(S)
    PROVE  /\ Located(a, d) \in Seq(Nat \X S)
           /\ Len(Located(a, d)) = Len(d)
           /\ \A k \in 1 .. Len(d) : Located(a, d)[k] = <<a + k - 1, d[k]>>
<1>1. Len(d) \in Nat /\ DOMAIN d = 1 .. Len(d) /\ d \in [1 .. Len(d) -> S]
  BY LenProperties
<1> DEFINE n == Len(d)
           t == Located(a, d)
<1>2. t = [k \in 1 .. n |-> <<a + k - 1, d[k]>>]
  BY <1>1 DEF Located
<1>3. \A k \in 1 .. n : t[k] = <<a + k - 1, d[k]>> /\ t[k] \in Nat \X S
  <2> TAKE k \in 1 .. n
  <2>1. t[k] = <<a + k - 1, d[k]>>
    BY <1>2
  <2>2. a + k - 1 \in Nat /\ d[k] \in S
    BY <1>1
  <2> HIDE DEF t
  <2> QED BY <2>1, <2>2
<1>4. t \in [1 .. n -> Nat \X S]
  <2> HIDE DEF n
  <2>1. t = [k \in 1 .. n |-> t[k]]
    BY <1>2
  <2> HIDE DEF t
  <2> QED BY <1>3, <2>1
<1>5. n \in Nat
  BY <1>1
<1>6. t \in Seq(Nat \X S) /\ Len(t) = n
  <2> HIDE DEF t, n
  <2> QED BY <1>4, <1>5
<1> QED BY <1>3, <1>6

\* No bytes are located nowhere.
LEMMA NothingLocated ==
    ASSUME NEW a
    PROVE  Located(a, << >>) = << >>
BY DEF Located

\* Concatenation by another name, under which the facts about it are cited.
Cat(s, t) == s \o t

\* It is associative.
LEMMA CatAssociative ==
    ASSUME NEW S, NEW s \in Seq(S), NEW t \in Seq(S), NEW u \in Seq(S)
    PROVE  Cat(Cat(s, t), u) = Cat(s, Cat(t, u))
<1>1. (s \o t) \o u = s \o (t \o u)
  BY ConcatAssociative
<1> QED BY <1>1 DEF Cat

\* Bytes behind others follow them.
LEMMA LocatedConcat ==
    ASSUME NEW S
    PROVE  \A a \in Nat, d, e \in Seq(S) :
              Located(a, Cat(d, e)) = Cat(Located(a, d), Located(a + Len(d), e))
<1> TAKE a \in Nat, d, e \in Seq(S)
<1>1. /\ d \o e \in Seq(S) /\ Len(d \o e) = Len(d) + Len(e)
      /\ \A k \in 1 .. Len(d) + Len(e) : (d \o e)[k] = IF k <= Len(d) THEN d[k] ELSE e[k - Len(d)]
  BY ConcatProperties
<1>2. Len(d) \in Nat /\ Len(e) \in Nat
  BY LenProperties
<1> DEFINE s == Located(a, d)
           t == Located(a + Len(d), e)
           u == Located(a, d \o e)
<1>3. /\ s \in Seq(Nat \X S) /\ Len(s) = Len(d)
      /\ \A k \in 1 .. Len(d) : s[k] = <<a + k - 1, d[k]>>
  BY LocatedSeq
<1>4. /\ t \in Seq(Nat \X S) /\ Len(t) = Len(e)
      /\ \A k \in 1 .. Len(e) : t[k] = <<(a + Len(d)) + k - 1, e[k]>>
  <2>1. a + Len(d) \in Nat
    BY <1>2
  <2> QED BY <2>1, LocatedSeq
<1>5. /\ u \in Seq(Nat \X S) /\ Len(u) = Len(d) + Len(e)
      /\ \A k \in 1 .. Len(d) + Len(e) : u[k] = <<a + k - 1, (d \o e)[k]>>
  BY <1>1, LocatedSeq
<1> HIDE DEF s, t, u
<1>6. /\ s \o t \in Seq(Nat \X S) /\ Len(s \o t) = Len(s) + Len(t)
      /\ \A k \in 1 .. Len(s) + Len(t) : (s \o t)[k] = IF k <= Len(s) THEN s[k] ELSE t[k - Len(s)]
  <2>1. s \in Seq(Nat \X S) /\ t \in Seq(Nat \X S)
    BY <1>3, <1>4
  <2> HIDE <1>3, <1>4
  <2> QED BY <2>1, ConcatProperties
<1>7. ASSUME NEW k \in 1 .. Len(u)
      PROVE  u[k] = (s \o t)[k]
  <2>1. k \in 1 .. Len(d) + Len(e) /\ k \in 1 .. Len(s) + Len(t)
    BY <1>3, <1>4, <1>5
  <2>2. CASE k <= Len(d)
    <3>1. k \in 1 .. Len(d)
      BY <1>2, <2>1, <2>2
    <3> QED BY <1>1, <1>3, <1>5, <1>6, <2>1, <2>2, <3>1
  <2>3. CASE ~(k <= Len(d))
    <3>1. k - Len(d) \in 1 .. Len(e) /\ (a + Len(d)) + (k - Len(d)) - 1 = a + k - 1
      BY <1>2, <2>1, <2>3
    <3>2. (s \o t)[k] = t[k - Len(d)] /\ (d \o e)[k] = e[k - Len(d)]
      BY <1>1, <1>3, <1>6, <2>1, <2>3
    <3> QED BY <1>4, <1>5, <2>1, <3>1, <3>2
  <2> QED BY <2>2, <2>3
<1>8. Len(u) = Len(s \o t)
  BY <1>3, <1>4, <1>5, <1>6
<1>9. u = s \o t
  BY <1>5, <1>6, <1>7, <1>8, SeqEqual
<1> QED BY <1>9 DEF s, t, u, Cat

-----------------------------------------------------------------------------
\* The elements of a prefix.
LEMMA PrefixIs ==
    ASSUME NEW S, NEW s \in Seq(S), NEW t \in Seq(S)
    PROVE  IsPrefix(s, t) <=> Len(s) <= Len(t) /\ \A k \in 1 .. Len(s) : s[k] = t[k]
<1>1. Len(s) \in Nat /\ Len(t) \in Nat
  BY LenProperties
<1>2. SubSeq(s, 1, Len(s)) = s
  BY SubSeqFull
<1>3. ASSUME Len(s) <= Len(t)
      PROVE  SubSeq(s, 1, Len(s)) = SubSeq(t, 1, Len(s)) <=> \A k \in 1 .. Len(s) : s[k] = t[k]
  <2> DEFINE u == SubSeq(t, 1, Len(s))
  <2>1. \A i \in 1 .. Len(s) : t[i] \in S
    <3> TAKE i \in 1 .. Len(s)
    <3>1. i \in 1 .. Len(t)
      BY <1>1, <1>3
    <3> QED BY <3>1, ElementOfSeq
  <2>2. /\ u \in Seq(S)
        /\ Len(u) = IF 1 <= Len(s) THEN Len(s) - 1 + 1 ELSE 0
        /\ \A i \in 1 .. Len(s) - 1 + 1 : u[i] = t[1 + i - 1]
    <3>1. 1 \in Int /\ Len(s) \in Int
      BY <1>1
    <3> QED BY <2>1, <3>1, SubSeqProperties
  <2>3. Len(u) = Len(s) /\ \A i \in 1 .. Len(s) : u[i] = t[i]
    <3>1. Len(u) = Len(s)
      BY <1>1, <2>2
    <3>2. ASSUME NEW i \in 1 .. Len(s)
          PROVE  u[i] = t[i]
      <4>1. i \in 1 .. Len(s) - 1 + 1 /\ 1 + i - 1 = i
        BY <1>1
      <4>2. u[i] = t[1 + i - 1]
        BY <2>2, <4>1
      <4> QED BY <4>1, <4>2
    <3> QED BY <3>1, <3>2
  <2> HIDE DEF u
  <2>4. s = u <=> \A k \in 1 .. Len(s) : s[k] = t[k]
    <3>1. ASSUME \A k \in 1 .. Len(s) : s[k] = t[k]
          PROVE  s = u
      <4>1. \A k \in 1 .. Len(s) : s[k] = u[k]
        BY <2>3, <3>1
      <4> QED BY <2>2, <2>3, <4>1, SeqEqual
    <3> QED BY <2>3, <3>1
  <2> QED BY <1>2, <2>4 DEF u
<1> QED BY <1>3 DEF IsPrefix

\* What is in front of others is a prefix.
LEMMA PrefixOfConcat ==
    ASSUME NEW S, NEW s \in Seq(S), NEW t \in Seq(S)
    PROVE  IsPrefix(s, s \o t)
<1>1. /\ s \o t \in Seq(S) /\ Len(s \o t) = Len(s) + Len(t)
      /\ \A k \in 1 .. Len(s) + Len(t) : (s \o t)[k] = IF k <= Len(s) THEN s[k] ELSE t[k - Len(s)]
  BY ConcatProperties
<1>2. Len(s) \in Nat /\ Len(t) \in Nat
  BY LenProperties
<1>3. ASSUME NEW k \in 1 .. Len(s)
      PROVE  s[k] = (s \o t)[k]
  <2>1. k \in 1 .. Len(s) + Len(t) /\ k <= Len(s)
    BY <1>2
  <2> QED BY <1>1, <2>1
<1>4. Len(s) <= Len(s \o t)
  BY <1>1, <1>2
<1> QED BY <1>1, <1>3, <1>4, PrefixIs

\* A prefix of a prefix.
LEMMA PrefixTransitive ==
    ASSUME NEW S, NEW s \in Seq(S), NEW t \in Seq(S), NEW u \in Seq(S), IsPrefix(s, t), IsPrefix(t, u)
    PROVE  IsPrefix(s, u)
<1>1. Len(s) \in Nat /\ Len(t) \in Nat /\ Len(u) \in Nat
  BY LenProperties
<1>2. Len(s) <= Len(t) /\ \A k \in 1 .. Len(s) : s[k] = t[k]
  BY PrefixIs
<1>3. Len(t) <= Len(u) /\ \A k \in 1 .. Len(t) : t[k] = u[k]
  BY PrefixIs
<1>4. \A k \in 1 .. Len(s) : s[k] = u[k]
  <2> TAKE k \in 1 .. Len(s)
  <2>1. k \in 1 .. Len(t)
    BY <1>1, <1>2
  <2> QED BY <1>2, <1>3, <2>1
<1>5. Len(s) <= Len(u)
  BY <1>1, <1>2, <1>3
<1> QED BY <1>4, <1>5, PrefixIs

\* A sequence is a prefix of itself.
LEMMA PrefixReflexive ==
    ASSUME NEW S, NEW s \in Seq(S)
    PROVE  IsPrefix(s, s)
<1>1. Len(s) \in Nat
  BY LenProperties
<1> QED BY <1>1, PrefixIs

\* What is among a prefix is among the whole.
LEMMA AmongPrefix ==
    ASSUME NEW S, NEW s \in Seq(S), NEW t \in Seq(S), IsPrefix(s, t), NEW b, Among(b, s)
    PROVE  Among(b, t)
<1>1. Len(s) <= Len(t) /\ \A k \in 1 .. Len(s) : s[k] = t[k]
  BY PrefixIs
<1>2. Len(s) \in Nat /\ Len(t) \in Nat /\ DOMAIN s = 1 .. Len(s) /\ DOMAIN t = 1 .. Len(t)
  BY LenProperties
<1>3. PICK j \in DOMAIN s : s[j][2] = b
  BY DEF Among
<1>4. j \in 1 .. Len(s) /\ j \in DOMAIN t
  BY <1>1, <1>2
<1>5. t[j][2] = b
  BY <1>1, <1>3, <1>4
<1> QED BY <1>4, <1>5 DEF Among

\* The bytes of a record are among what it adds.
LEMMA AmongLocated ==
    ASSUME NEW S, NEW s \in Seq(Nat \X S), NEW a \in Nat, NEW d \in Seq(S), NEW k \in DOMAIN d
    PROVE  Among(d[k], s \o Located(a, d))
<1> DEFINE t == Located(a, d)
<1>1. t \in Seq(Nat \X S) /\ Len(t) = Len(d) /\ \A i \in 1 .. Len(d) : t[i] = <<a + i - 1, d[i]>>
  BY LocatedSeq
<1>2. Len(d) \in Nat /\ k \in 1 .. Len(d) /\ Len(s) \in Nat
  BY LenProperties
<1> HIDE DEF t
<1>3. /\ s \o t \in Seq(Nat \X S) /\ Len(s \o t) = Len(s) + Len(t)
      /\ \A i \in 1 .. Len(s) + Len(t) : (s \o t)[i] = IF i <= Len(s) THEN s[i] ELSE t[i - Len(s)]
  <2>1. s \in Seq(Nat \X S) /\ t \in Seq(Nat \X S)
    BY <1>1
  <2> QED BY ONLY <2>1, ConcatProperties
<1> DEFINE j == Len(s) + k
<1>4. j \in 1 .. Len(s) + Len(t) /\ ~(j <= Len(s)) /\ j - Len(s) = k
  BY <1>1, <1>2
<1>5. (s \o t)[j] = <<a + k - 1, d[k]>>
  <2> HIDE DEF j
  <2>1. (s \o t)[j] = t[k]
    BY <1>3, <1>4
  <2> QED BY <1>1, <1>2, <2>1
<1>6. j \in DOMAIN (s \o t)
  <2> HIDE DEF j
  <2>1. DOMAIN (s \o t) = 1 .. Len(s \o t)
    BY <1>3, LenProperties
  <2> QED BY <1>3, <1>4, <2>1
<1>7. (s \o t)[j][2] = d[k]
  BY <1>5
<1>8. Among(d[k], s \o t)
  <2> HIDE DEF j
  <2> QED BY <1>6, <1>7 DEF Among
<1> QED BY <1>8 DEF t

-----------------------------------------------------------------------------
\* Lines are of one length and lie one behind the other.
LEMMA LinesLie ==
    /\ RecordBytes \in Nat /\ RecordBytes >= 1 /\ Low \in Nat /\ Low >= 1
    /\ LineLength \in Nat /\ LineLength = (2 * RecordBytes) + 2
    /\ LineAt(0) = 0
    /\ \A i \in Nat : LineAt(i) \in Nat
    /\ \A i \in Nat : LineAt(i + 1) = LineAt(i) + LineLength
    /\ \A i, j \in Nat : i < j => LineAt(i) + LineLength <= LineAt(j)
<1>1. RecordBytes \in Nat /\ RecordBytes >= 1 /\ Low \in Nat /\ Low >= 1
  BY HexAssumption
<1>2. LineLength \in Nat /\ LineLength = (2 * RecordBytes) + 2
  BY <1>1 DEF LineLength
<1> HIDE DEF LineLength
<1>3. \A x, y \in Nat : x * y \in Nat /\ (x + 1) * y = x * y + y
  OBVIOUS
<1>4. \A x, y, z \in Nat : (x + y) * z = x * z + y * z
  OBVIOUS
<1>5. LineAt(0) = 0
  BY <1>2 DEF LineAt
<1>6. \A i \in Nat : LineAt(i) \in Nat /\ LineAt(i + 1) = LineAt(i) + LineLength
  BY <1>2, <1>3 DEF LineAt
<1>7. ASSUME NEW i \in Nat, NEW j \in Nat, i < j
      PROVE  LineAt(i) + LineLength <= LineAt(j)
  <2> DEFINE k == j - (i + 1)
  <2>1. k \in Nat /\ (i + 1) + k = j /\ i + 1 \in Nat
    BY <1>7
  <2>2. LineAt(j) = LineAt(i + 1) + LineAt(k)
    <3> HIDE DEF k
    <3> QED BY <1>2, <1>4, <2>1 DEF LineAt
  <2>3. LineAt(k) \in Nat /\ LineAt(i) \in Nat /\ LineAt(i + 1) = LineAt(i) + LineLength
    BY <1>6, <2>1
  <2> QED BY <1>2, <2>2, <2>3
<1> QED BY <1>1, <1>2, <1>5, <1>6, <1>7

-----------------------------------------------------------------------------
\* A file has a number of lines.
LEMMA FileLength ==
    ASSUME NEW f, WellFormed(f)
    PROVE  /\ Lines(f) \in Nat /\ Len(f) = LineAt(Lines(f)) /\ Len(f) \in Nat
           /\ DOMAIN f = 1 .. Len(f)
<1>1. IsSeq(f) /\ Len(f) = LineAt(Lines(f))
  BY DEF WellFormed, IsText, LineAt
<1>2. Len(f) \in Nat /\ DOMAIN f = 1 .. Len(f)
  BY <1>1, LenProperties DEF IsSeq
<1>3. LineLength \in Nat /\ LineLength > 0
  BY LinesLie
<1>4. Lines(f) \in Nat
  <2> HIDE DEF LineLength
  <2>1. \A x, y \in Nat : y > 0 => x \div y \in Nat
    OBVIOUS
  <2> QED BY <1>2, <1>3, <2>1 DEF Lines
<1> QED BY <1>1, <1>2, <1>4

\* The characters of a line.
LEMMA LineIs ==
    ASSUME NEW f, WellFormed(f), NEW i \in 0 .. Lines(f) - 1
    PROVE  /\ \A o \in 0 .. LineLength - 1 : LineAt(i) + o + 1 \in 1 .. Len(f)
           /\ IsColon(f[LineAt(i) + 1]) /\ f[LineAt(i) + 1].block = BlockAt(f, i)
           /\ BlockAt(f, i) \in BOOLEAN
           /\ \A o \in 1 .. 2 * RecordBytes :
                /\ f[LineAt(i) + o + 1].type = "digit" /\ f[LineAt(i) + o + 1].record = RecordAt(f, i)
                /\ f[LineAt(i) + o + 1].last <=> o = 2 * RecordBytes
           /\ IsEnd(f[LineAt(i) + LineLength])
<1>1. Lines(f) \in Nat /\ Len(f) = LineAt(Lines(f))
  BY FileLength
<1>2. i \in Nat /\ i < Lines(f)
  BY <1>1
<1>3. LineAt(i) + LineLength <= Len(f)
  BY <1>1, <1>2, LinesLie
<1>4. LineLength \in Nat /\ LineAt(i) \in Nat /\ LineAt(Lines(f)) \in Nat
  BY <1>1, <1>2, LinesLie
<1>5. \A o \in 0 .. LineLength - 1 : LineAt(i) + o + 1 \in 1 .. Len(f)
  BY <1>1, <1>3, <1>4
<1>6. /\ IsColon(CharAt(f, i, 0)) /\ BlockAt(f, i) \in BOOLEAN
      /\ \A o \in 1 .. 2 * RecordBytes :
           /\ CharAt(f, i, o).type = "digit" /\ CharAt(f, i, o).record = RecordAt(f, i)
           /\ CharAt(f, i, o).last <=> o = 2 * RecordBytes
      /\ IsEnd(CharAt(f, i, LineLength - 1))
  BY DEF WellFormed, IsText
<1>7. \A o : CharAt(f, i, o) = f[LineAt(i) + o + 1]
  BY DEF CharAt, LineAt
<1>8. LineAt(i) + 0 + 1 = LineAt(i) + 1 /\ LineAt(i) + (LineLength - 1) + 1 = LineAt(i) + LineLength
  BY <1>4
<1>9. /\ CharAt(f, i, 0) = f[LineAt(i) + 1]
      /\ CharAt(f, i, LineLength - 1) = f[LineAt(i) + LineLength]
  BY <1>7, <1>8
<1>10. f[LineAt(i) + 1].block = BlockAt(f, i)
  BY <1>9 DEF BlockAt
<1> QED BY <1>5, <1>6, <1>7, <1>9, <1>10

\* A character tells its place in its line.
LEMMA CharTells ==
    ASSUME NEW f, WellFormed(f), NEW i \in 0 .. Lines(f) - 1, NEW o \in 0 .. LineLength - 1
    PROVE  /\ LineAt(i) + o + 1 \in 1 .. Len(f)
           /\ IsColon(f[LineAt(i) + o + 1]) <=> o = 0
           /\ f[LineAt(i) + o + 1].type = "digit" <=> o \in 1 .. 2 * RecordBytes
           /\ IsEnd(f[LineAt(i) + o + 1]) <=> o = LineLength - 1
           /\ o \in 1 .. 2 * RecordBytes => f[LineAt(i) + o + 1].record = RecordAt(f, i)
<1>1. RecordBytes \in Nat /\ LineLength = (2 * RecordBytes) + 2 /\ LineAt(i) \in Nat
  <2>1. i \in Nat
    BY FileLength
  <2> QED BY <2>1, LinesLie
<1>2. LineAt(i) + o + 1 \in 1 .. Len(f)
  BY LineIs
<1>3. CASE o = 0
  <2>1. LineAt(i) + o + 1 = LineAt(i) + 1
    BY <1>1, <1>3
  <2>2. IsColon(f[LineAt(i) + o + 1])
    BY <2>1, LineIs
  <2>3. o \notin 1 .. 2 * RecordBytes /\ o # LineLength - 1
    BY <1>1, <1>3
  <2> QED BY <1>2, <1>3, <2>2, <2>3 DEF IsColon, IsEnd
<1>4. CASE o \in 1 .. 2 * RecordBytes
  <2>1. f[LineAt(i) + o + 1].type = "digit" /\ f[LineAt(i) + o + 1].record = RecordAt(f, i)
    BY <1>4, LineIs
  <2>2. o # 0 /\ o # LineLength - 1
    BY <1>1, <1>4
  <2> QED BY <1>2, <1>4, <2>1, <2>2 DEF IsColon, IsEnd
<1>5. CASE o = LineLength - 1
  <2>1. LineAt(i) + o + 1 = LineAt(i) + LineLength
    BY <1>1, <1>5
  <2>2. IsEnd(f[LineAt(i) + o + 1])
    BY <2>1, LineIs
  <2>3. o \notin 1 .. 2 * RecordBytes /\ o # 0
    BY <1>1, <1>5
  <2> QED BY <1>2, <1>5, <2>2, <2>3 DEF IsColon, IsEnd
<1> QED BY <1>1, <1>3, <1>4, <1>5

\* Every place of a file is in one of its lines.
LEMMA PlaceOf ==
    ASSUME NEW f, WellFormed(f), NEW n \in 0 .. Len(f) - 1
    PROVE  \E i \in 0 .. Lines(f) - 1, o \in 0 .. LineLength - 1 : n = LineAt(i) + o
<1> DEFINE S == {m \in 0 .. Len(f) - 1 : \E i \in 0 .. Lines(f) - 1, o \in 0 .. LineLength - 1 : m = LineAt(i) + o}
<1>1. Lines(f) \in Nat /\ Len(f) = LineAt(Lines(f)) /\ Len(f) \in Nat
  BY FileLength
<1>2. LineLength \in Nat /\ LineLength > 0 /\ LineAt(0) = 0
  BY LinesLie
<1>3. Lines(f) > 0
  BY <1>1, <1>2
<1>4. 0 \in S
  <2>1. 0 \in 0 .. Lines(f) - 1 /\ 0 \in 0 .. LineLength - 1 /\ 0 = LineAt(0) + 0 /\ 0 \in 0 .. Len(f) - 1
    BY <1>1, <1>2, <1>3
  <2> QED BY <2>1
<1>5. ASSUME NEW m \in 0 .. (Len(f) - 1) - 1, m \in S
      PROVE  m + 1 \in S
  <2>1. PICK i \in 0 .. Lines(f) - 1, o \in 0 .. LineLength - 1 : m = LineAt(i) + o
    BY <1>5
  <2>2. m + 1 \in 0 .. Len(f) - 1
    BY <1>1
  <2>3. i \in Nat /\ LineAt(i) \in Nat /\ LineAt(i + 1) = LineAt(i) + LineLength
    <3>1. i \in Nat
      BY <1>1
    <3> QED BY <3>1, LinesLie
  <2>4. CASE o < LineLength - 1
    <3>1. o + 1 \in 0 .. LineLength - 1 /\ m + 1 = LineAt(i) + (o + 1)
      BY <1>2, <2>1, <2>3, <2>4
    <3> QED BY <2>2, <3>1
  <2>5. CASE ~(o < LineLength - 1)
    <3>1. m + 1 = LineAt(i + 1) + 0 /\ 0 \in 0 .. LineLength - 1
      <4>1. o = LineLength - 1
        BY <1>2, <2>5
      <4>2. m + 1 = LineAt(i) + LineLength
        BY <1>2, <2>1, <2>3, <4>1
      <4> QED BY <1>2, <2>3, <4>2
    <3>2. i + 1 # Lines(f)
      BY <1>1, <2>2, <3>1
    <3>3. i + 1 \in 0 .. Lines(f) - 1
      BY <1>1, <2>3, <3>2
    <3> QED BY <2>2, <3>1, <3>3
  <2> QED BY <2>4, <2>5
<1>6. n \in S
  <2>1. Len(f) - 1 \in Nat /\ 0 \in Nat
    BY <1>1
  <2> HIDE DEF S
  <2> QED BY <1>4, <1>5, <2>1, UpTo
<1> QED BY <1>6

\* The lines whose last digit is among the characters before a place.
LEMMA CountIs ==
    ASSUME NEW f, WellFormed(f), NEW i \in 0 .. Lines(f), NEW o \in 0 .. LineLength - 1,
           LineAt(i) + o <= Len(f)
    PROVE  Count(f, LineAt(i) + o) = IF o = LineLength - 1 THEN i + 1 ELSE i
<1> DEFINE n == LineAt(i) + o
           r == IF o = LineLength - 1 THEN i + 1 ELSE i
           P(c) == LineAt(c) <= n + 1 /\ n + 1 < LineAt(c + 1)
<1>1. Lines(f) \in Nat /\ Len(f) = LineAt(Lines(f))
  BY FileLength
<1>2. i \in Nat /\ i + 1 \in Nat
  BY <1>1
<1>3. LineLength \in Nat /\ LineLength > 1 /\ LineAt(i) \in Nat /\ LineAt(Lines(f)) \in Nat
  BY <1>1, <1>2, LinesLie
<1>4. LineAt(i + 1) = LineAt(i) + LineLength /\ LineAt((i + 1) + 1) = LineAt(i + 1) + LineLength
  BY <1>2, LinesLie
<1>5. P(r)
  BY <1>3, <1>4
<1>6. r \in 0 .. Lines(f)
  <2>1. CASE o = LineLength - 1
    <3>1. i # Lines(f)
      BY <1>1, <1>3, <2>1
    <3> QED BY <1>1, <2>1, <3>1
  <2> QED BY <2>1
<1>7. ASSUME NEW c \in 0 .. Lines(f), P(c)
      PROVE  c = r
  <2>1. c \in Nat /\ r \in Nat
    BY <1>1, <1>6
  <2>2. LineAt(c) \in Nat /\ LineAt(r) \in Nat /\ LineAt(c + 1) = LineAt(c) + LineLength
        /\ LineAt(r + 1) = LineAt(r) + LineLength
    <3> HIDE DEF r
    <3> QED BY <2>1, LinesLie
  <2>3. c < r => LineAt(c) + LineLength <= LineAt(r)
    <3> HIDE DEF r
    <3> QED BY <2>1, LinesLie
  <2>4. r < c => LineAt(r) + LineLength <= LineAt(c)
    <3> HIDE DEF r
    <3> QED BY <2>1, LinesLie
  <2>5. n \in Nat
    BY <1>3
  <2> HIDE DEF n, r
  <2> QED BY <1>3, <1>5, <1>7, <2>1, <2>2, <2>3, <2>4, <2>5
<1>8. Count(f, n) = r
  <2>1. Count(f, n) = CHOOSE c \in 0 .. Lines(f) : P(c)
    BY DEF Count
  <2> HIDE DEF n, r, P
  <2> QED BY <1>5, <1>6, <1>7, <2>1
<1> QED BY <1>8

\* So is the count of any number of characters one of the lines.
LEMMA CountType ==
    ASSUME NEW f, WellFormed(f), NEW n \in 0 .. Len(f)
    PROVE  /\ Count(f, n) \in 0 .. Lines(f)
           /\ LineAt(Count(f, n)) <= n + 1 /\ n + 1 < LineAt(Count(f, n) + 1)
<1>1. Lines(f) \in Nat /\ Len(f) = LineAt(Lines(f))
  BY FileLength
<1>2. \E i \in 0 .. Lines(f), o \in 0 .. LineLength - 1 : n = LineAt(i) + o
  <2>1. CASE n = Len(f)
    <3>1. Lines(f) \in 0 .. Lines(f) /\ 0 \in 0 .. LineLength - 1 /\ n = LineAt(Lines(f)) + 0
      <4>1. LineAt(Lines(f)) \in Nat /\ LineLength \in Nat /\ LineLength > 0
        BY <1>1, LinesLie
      <4> QED BY <1>1, <2>1, <4>1
    <3> QED BY <3>1
  <2>2. CASE n # Len(f)
    <3>1. n \in 0 .. Len(f) - 1
      BY <2>2, FileLength
    <3>2. \E i \in 0 .. Lines(f) - 1, o \in 0 .. LineLength - 1 : n = LineAt(i) + o
      BY <3>1, PlaceOf
    <3> QED BY <1>1, <3>2
  <2> QED BY <2>1, <2>2
<1>3. PICK i \in 0 .. Lines(f), o \in 0 .. LineLength - 1 : n = LineAt(i) + o
  BY <1>2
<1>4. Count(f, n) = IF o = LineLength - 1 THEN i + 1 ELSE i
  <2>1. LineAt(i) + o <= Len(f)
    BY <1>3, FileLength
  <2> QED BY <1>3, <2>1, CountIs
<1>5. LineLength \in Nat /\ LineLength > 1 /\ LineAt(i) \in Nat /\ LineAt(i + 1) = LineAt(i) + LineLength
      /\ LineAt((i + 1) + 1) = LineAt(i + 1) + LineLength /\ i \in Nat
  <2>1. i \in Nat /\ i + 1 \in Nat
    BY <1>1
  <2> QED BY <2>1, LinesLie
<1>6. o = LineLength - 1 => i # Lines(f)
  <2> SUFFICES ASSUME o = LineLength - 1, i = Lines(f)
               PROVE  FALSE
    OBVIOUS
  <2>1. Len(f) \in Nat /\ n <= Len(f) /\ LineAt(i) = Len(f)
    BY <1>1, FileLength
  <2>2. LineAt(i) + o = n /\ o > 0 /\ o \in Nat
    BY <1>3, <1>5
  <2> QED BY <2>1, <2>2
<1>7. CASE o = LineLength - 1
  <2>1. Count(f, n) = i + 1
    BY <1>4, <1>7
  <2>2. i + 1 \in 0 .. Lines(f)
    BY <1>1, <1>6, <1>7
  <2>3. n + 1 = LineAt(i + 1) /\ n + 1 < LineAt((i + 1) + 1)
    BY <1>3, <1>5, <1>7
  <2> QED BY <1>5, <2>1, <2>2, <2>3
<1>8. CASE o # LineLength - 1
  <2>1. Count(f, n) = i
    BY <1>4, <1>8
  <2>2. n = LineAt(i) + o /\ o \in Nat /\ o < LineLength - 1
    BY <1>3, <1>5, <1>8
  <2>3. LineAt(i) <= n + 1 /\ n + 1 < LineAt(i + 1)
    BY <1>5, <2>2
  <2> QED BY <2>1, <2>3
<1> QED BY <1>7, <1>8

\* More characters, more lines.
LEMMA CountGrows ==
    ASSUME NEW f, WellFormed(f), NEW m \in 0 .. Len(f), NEW n \in 0 .. Len(f), m <= n
    PROVE  Count(f, m) <= Count(f, n)
<1> DEFINE c == Count(f, m)
           d == Count(f, n)
<1>1. c \in 0 .. Lines(f) /\ LineAt(c) <= m + 1
  BY CountType
<1>2. d \in 0 .. Lines(f) /\ n + 1 < LineAt(d + 1)
  BY CountType
<1> HIDE DEF c, d
<1>3. c \in Nat /\ d \in Nat /\ Lines(f) \in Nat /\ Len(f) \in Nat
  BY <1>1, <1>2, FileLength
<1>4. d < c => LineAt(d) + LineLength <= LineAt(c)
  BY <1>3, LinesLie
<1>5. LineAt(d + 1) = LineAt(d) + LineLength /\ LineAt(c) \in Nat /\ LineAt(d) \in Nat /\ LineLength \in Nat
  BY <1>3, LinesLie
<1>6. c <= d
  BY <1>1, <1>2, <1>3, <1>4, <1>5
<1> QED BY <1>6 DEF c, d

-----------------------------------------------------------------------------
\* The recursive definition of MeaningsOf is one of a function.
LEMMA MeaningsAre ==
    ASSUME NEW f, Len(f) \in Nat
    PROVE  /\ MeaningsOf(f)[0] = Started
           /\ \A n \in 1 .. Len(f) :
                 MeaningsOf(f)[n] = IF EndsRecord(f[n]) THEN Meant(MeaningsOf(f)[n - 1], f[n].record)
                                    ELSE MeaningsOf(f)[n - 1]
<1> DEFINE L == Len(f)
           Behind(state, n) == IF EndsRecord(f[n]) THEN Meant(state, f[n].record) ELSE state
           Rec(g, m) == [n \in 0 .. m |-> IF n = 0 THEN Started
                                          ELSE IF EndsRecord(f[n]) THEN Meant(g[n - 1], f[n].record) ELSE g[n - 1]]
           S == {m \in Nat : \E g : g = Rec(g, m)}
<1>1. 0 \in S
  <2> DEFINE g == [n \in 0 .. 0 |-> Started]
  <2>1. g = Rec(g, 0)
    OBVIOUS
  <2> QED BY <2>1
<1>2. ASSUME NEW m \in 0 .. L - 1, m \in S
      PROVE  m + 1 \in S
  <2>1. m \in Nat /\ m + 1 \in Nat /\ m \in 0 .. m + 1
    OBVIOUS
  <2>2. PICK g : g = Rec(g, m)
    BY <1>2
  <2> DEFINE h == [n \in 0 .. m + 1 |-> IF n = m + 1 THEN Behind(g[m], m + 1) ELSE g[n]]
  <2>3. ASSUME NEW n \in 0 .. m + 1
        PROVE  h[n] = IF n = 0 THEN Started
                      ELSE IF EndsRecord(f[n]) THEN Meant(h[n - 1], f[n].record) ELSE h[n - 1]
    <3>1. CASE n = m + 1
      <4>1. n # 0 /\ n - 1 = m /\ m # m + 1
        BY <2>1, <3>1
      <4>2. h[n] = Behind(g[m], n)
        BY <2>1, <3>1
      <4>3. h[n - 1] = g[m]
        BY <2>1, <4>1
      <4> HIDE DEF h
      <4> QED BY <4>1, <4>2, <4>3
    <3>2. CASE n # m + 1
      <4>1. n \in 0 .. m
        BY <2>1, <3>2
      <4>2. h[n] = g[n]
        BY <3>2
      <4>3. g[n] = IF n = 0 THEN Started ELSE Behind(g[n - 1], n)
        BY <2>2, <4>1
      <4>4. n # 0 => h[n - 1] = g[n - 1]
        <5>1. n # 0 => n - 1 \in 0 .. m + 1 /\ n - 1 # m + 1
          BY <2>1, <4>1
        <5> QED BY <5>1
      <4> HIDE DEF h
      <4> QED BY <4>2, <4>3, <4>4
    <3> QED BY <3>1, <3>2
  <2>4. h = Rec(h, m + 1)
    <3>1. h = [n \in 0 .. m + 1 |-> h[n]]
      OBVIOUS
    <3> HIDE DEF h
    <3> QED BY <2>3, <3>1, Zenon
  <2> HIDE DEF h, Rec
  <2> QED BY <2>1, <2>4
<1>3. L \in S
  <2> HIDE DEF S, L
  <2>1. L \in Nat /\ 0 \in Nat /\ L \in 0 .. L
    BY DEF L
  <2> QED BY <1>1, <1>2, <2>1, UpTo
<1>4. \E g : g = Rec(g, L)
  BY <1>3
<1> DEFINE a == MeaningsOf(f)
<1>5. a = Rec(a, L)
  <2>1. a = CHOOSE g : g = Rec(g, L)
    BY Zenon DEF MeaningsOf
  <2> HIDE DEF a, Rec
  <2> QED BY <1>4, <2>1, Zenon
<1>6. a[0] = Started
  <2> HIDE DEF a
  <2> QED BY <1>5
<1>7. ASSUME NEW n \in 1 .. L
      PROVE  a[n] = IF EndsRecord(f[n]) THEN Meant(a[n - 1], f[n].record) ELSE a[n - 1]
  <2>1. n \in 0 .. L /\ n # 0
    OBVIOUS
  <2> HIDE DEF a
  <2> QED BY <1>5, <2>1
<1> QED BY <1>6, <1>7

\* Before the last digit of a line the meaning is that of the lines before it, and
\* from there on that of the line, too.
LEMMA MeansInLine ==
    ASSUME NEW f, WellFormed(f), NEW i \in 0 .. Lines(f) - 1
    PROVE  /\ \A o \in 0 .. 2 * RecordBytes : MeaningsOf(f)[LineAt(i) + o] = MeansAt(f, i)
           /\ MeansAt(f, i + 1) = Meant(MeansAt(f, i), RecordAt(f, i))
           /\ MeaningsOf(f)[LineAt(i) + (LineLength - 1)] = MeansAt(f, i + 1)
<1> DEFINE M == MeaningsOf(f)
           S == {o \in 0 .. 2 * RecordBytes : M[LineAt(i) + o] = MeansAt(f, i)}
<1>1. /\ RecordBytes \in Nat /\ RecordBytes >= 1 /\ LineLength = (2 * RecordBytes) + 2 /\ LineAt(i) \in Nat
      /\ LineAt(i + 1) = LineAt(i) + LineLength
  <2>1. i \in Nat
    BY FileLength
  <2> QED BY <2>1, LinesLie
<1>2. \A n \in 1 .. Len(f) : M[n] = IF EndsRecord(f[n]) THEN Meant(M[n - 1], f[n].record) ELSE M[n - 1]
  BY FileLength, MeaningsAre
<1> HIDE DEF M
<1>3. 0 \in S
  <2>1. 0 \in 0 .. 2 * RecordBytes /\ LineAt(i) + 0 = LineAt(i)
    BY <1>1
  <2> QED BY <2>1 DEF MeansAt, M
<1>4. ASSUME NEW o \in 0 .. LineLength - 1
      PROVE  M[LineAt(i) + o + 1] = IF o = 2 * RecordBytes THEN Meant(M[LineAt(i) + o], RecordAt(f, i))
                                    ELSE M[LineAt(i) + o]
  <2> DEFINE n == LineAt(i) + o + 1
  <2>1. n \in 1 .. Len(f)
    BY LineIs
  <2>2. n - 1 = LineAt(i) + o
    BY <1>1
  <2>3. EndsRecord(f[n]) <=> o = 2 * RecordBytes
    <3>1. f[n].type = "digit" <=> o \in 1 .. 2 * RecordBytes
      BY CharTells
    <3>2. o \in 1 .. 2 * RecordBytes => (f[n].last <=> o = 2 * RecordBytes)
      BY LineIs
    <3>3. o = 2 * RecordBytes => o \in 1 .. 2 * RecordBytes
      BY <1>1
    <3> HIDE DEF n
    <3> QED BY <3>1, <3>2, <3>3 DEF EndsRecord
  <2>4. o = 2 * RecordBytes => f[n].record = RecordAt(f, i)
    <3>1. o = 2 * RecordBytes => o \in 1 .. 2 * RecordBytes
      BY <1>1
    <3> QED BY <3>1, LineIs
  <2> HIDE DEF n
  <2>5. M[n] = IF o = 2 * RecordBytes THEN Meant(M[LineAt(i) + o], RecordAt(f, i)) ELSE M[LineAt(i) + o]
    BY <1>2, <2>1, <2>2, <2>3, <2>4
  <2> QED BY <2>5 DEF n
<1>5. ASSUME NEW o \in 0 .. (2 * RecordBytes) - 1, o \in S
      PROVE  o + 1 \in S
  <2>1. o \in 0 .. LineLength - 1 /\ o # 2 * RecordBytes /\ o + 1 \in 0 .. 2 * RecordBytes
        /\ LineAt(i) + o + 1 = LineAt(i) + (o + 1)
    BY <1>1
  <2>2. M[LineAt(i) + (o + 1)] = M[LineAt(i) + o]
    BY <1>4, <2>1
  <2> QED BY <1>5, <2>1, <2>2
<1>6. \A o \in 0 .. 2 * RecordBytes : o \in S
  <2>1. 2 * RecordBytes \in Nat /\ 0 \in Nat
    BY <1>1
  <2> HIDE DEF S
  <2> QED BY <1>3, <1>5, <2>1, UpTo
<1>7. \A o \in 0 .. 2 * RecordBytes : M[LineAt(i) + o] = MeansAt(f, i)
  BY <1>6
<1>8. M[LineAt(i) + (LineLength - 1)] = Meant(MeansAt(f, i), RecordAt(f, i))
  <2> DEFINE o == 2 * RecordBytes
  <2>1. o \in 0 .. LineLength - 1 /\ o \in 0 .. 2 * RecordBytes /\ LineAt(i) + o + 1 = LineAt(i) + (LineLength - 1)
    BY <1>1
  <2>2. M[LineAt(i) + o] = MeansAt(f, i)
    BY <1>7, <2>1
  <2> QED BY <1>4, <2>1, <2>2
<1>9. M[LineAt(i + 1)] = M[LineAt(i) + (LineLength - 1)]
  <2> DEFINE o == LineLength - 1
  <2>1. o \in 0 .. LineLength - 1 /\ o # 2 * RecordBytes /\ LineAt(i) + o + 1 = LineAt(i + 1)
    BY <1>1
  <2> QED BY <1>4, <2>1
<1> QED BY <1>7, <1>8, <1>9 DEF MeansAt, M

\* What some characters mean is what the records of them do.
LEMMA MeaningIs ==
    ASSUME NEW f, WellFormed(f), NEW n \in 0 .. Len(f)
    PROVE  MeaningsOf(f)[n] = MeansAt(f, Count(f, n))
<1>1. Lines(f) \in Nat /\ Len(f) = LineAt(Lines(f)) /\ Len(f) \in Nat
  BY FileLength
<1>2. RecordBytes \in Nat /\ LineLength = (2 * RecordBytes) + 2 /\ LineLength \in Nat
  BY LinesLie
<1>3. CASE n = Len(f)
  <2>1. Lines(f) \in 0 .. Lines(f) /\ 0 \in 0 .. LineLength - 1 /\ 0 # LineLength - 1
        /\ LineAt(Lines(f)) + 0 = n /\ n <= Len(f)
    BY <1>1, <1>2, <1>3
  <2>2. Count(f, LineAt(Lines(f)) + 0) = Lines(f)
    BY <2>1, CountIs
  <2> QED BY <1>1, <1>3, <2>1, <2>2 DEF MeansAt
<1>4. CASE n # Len(f)
  <2>1. n \in 0 .. Len(f) - 1
    BY <1>1, <1>4
  <2>2. PICK i \in 0 .. Lines(f) - 1, o \in 0 .. LineLength - 1 : n = LineAt(i) + o
    BY <2>1, PlaceOf
  <2>3. i \in 0 .. Lines(f) /\ LineAt(i) + o <= Len(f)
    BY <1>1, <2>1, <2>2
  <2>4. Count(f, n) = IF o = LineLength - 1 THEN i + 1 ELSE i
    BY <2>2, <2>3, CountIs
  <2>5. CASE o = LineLength - 1
    BY <2>2, <2>4, <2>5, MeansInLine
  <2>6. CASE o # LineLength - 1
    <3>1. o \in 0 .. 2 * RecordBytes
      BY <1>2, <2>6
    <3>2. MeaningsOf(f)[LineAt(i) + o] = MeansAt(f, i)
      BY <3>1, MeansInLine
    <3> QED BY <2>2, <2>4, <2>6, <3>2
  <2> QED BY <2>5, <2>6
<1> QED BY <1>3, <1>4

\* Nothing has been said before the first record.
LEMMA MeansFirst ==
    ASSUME NEW f, WellFormed(f)
    PROVE  MeansAt(f, 0) = Started
<1>1. LineAt(0) = 0 /\ Len(f) \in Nat
  BY LinesLie, FileLength
<1> QED BY <1>1, MeaningsAre DEF MeansAt

-----------------------------------------------------------------------------
\* A record of a file.
LEMMA RecordIs ==
    ASSUME NEW f, WellFormed(f), NEW i \in 0 .. Lines(f) - 1
    PROVE  /\ RecordAt(f, i).type \in {"data", "eof", "seg", "lin", "meta", "other"}
           /\ RecordAt(f, i).value \in Nat /\ RecordAt(f, i).sound \in BOOLEAN
           /\ RecordAt(f, i).data \in Seq(BytesOf(f))
           /\ BlockAt(f, i) => IsExtended(RecordAt(f, i))
<1> DEFINE r == RecordAt(f, i)
           T == {r.data[k] : k \in DOMAIN r.data}
<1>1. RecordFits(f, i) /\ BlocksFit(f, i)
  BY DEF WellFormed
<1>2. /\ r.type \in {"data", "eof", "seg", "lin", "meta", "other"}
      /\ r.value \in Nat /\ r.sound \in BOOLEAN
      /\ IsSeq(r.data)
  BY <1>1 DEF RecordFits
<1>3. BlockAt(f, i) => IsExtended(r)
  BY <1>1 DEF BlocksFit
<1>4. T \subseteq BytesOf(f)
  BY DEF BytesOf
<1>5. r.data \in Seq(T)
  BY <1>2 DEF IsSeq
<1> HIDE DEF T
<1>6. r.data \in Seq(BytesOf(f))
  BY <1>4, <1>5, SeqMonotonic
<1> QED BY <1>2, <1>3, <1>6

\* Meanings and their types.
MeaningType(f) == [base : Nat, version : Nat, ended : BOOLEAN, bytes : Seq(Cells(f))]

\* A record adds to the bytes of a meaning, and leaves it a meaning.
LEMMA MeantAdds ==
    ASSUME NEW f, WellFormed(f), NEW i \in 0 .. Lines(f) - 1, NEW m \in MeaningType(f)
    PROVE  LET r == RecordAt(f, i)
               n == Meant(m, r)
           IN  /\ n \in MeaningType(f)
               /\ IsPrefix(m.bytes, n.bytes)
<1> DEFINE r == RecordAt(f, i)
           n == Meant(m, r)
           t == Located(m.base + r.value, r.data)
<1>1. r.value \in Nat /\ r.data \in Seq(BytesOf(f))
  BY RecordIs
<1>2. m.base \in Nat /\ m.version \in Nat /\ m.ended \in BOOLEAN /\ m.bytes \in Seq(Cells(f))
  BY DEF MeaningType
<1>3. t \in Seq(Cells(f))
  <2>1. m.base + r.value \in Nat
    BY <1>1, <1>2
  <2> QED BY <1>1, <2>1, LocatedSeq DEF Cells
<1> HIDE DEF t, r
<1>4. m.bytes \o t \in Seq(Cells(f)) /\ IsPrefix(m.bytes, m.bytes \o t)
  BY <1>2, <1>3, ConcatProperties, PrefixOfConcat
<1>5. \/ n = m
      \/ n = [m EXCEPT !.ended = TRUE] \/ n = [m EXCEPT !.version = r.value]
      \/ n = [m EXCEPT !.base = r.value] \/ n = [m EXCEPT !.bytes = @ \o t]
  BY DEF Meant, t
<1>6. IsPrefix(m.bytes, m.bytes)
  BY <1>2, PrefixReflexive
<1>7. n \in MeaningType(f) /\ (n.bytes = m.bytes \/ n.bytes = m.bytes \o t)
  <2> HIDE DEF n
  <2> QED BY <1>1, <1>2, <1>4, <1>5 DEF MeaningType
<1> QED
  <2> HIDE DEF n
  <2>1. IsPrefix(m.bytes, n.bytes)
    BY <1>4, <1>6, <1>7
  <2> QED BY <1>7, <2>1 DEF n, r

\* What the lines of a file mean.
LEMMA MeansType ==
    ASSUME NEW f, WellFormed(f), NEW i \in 0 .. Lines(f)
    PROVE  /\ MeansAt(f, i) \in MeaningType(f)
           /\ MeansAt(f, i).base \in Nat /\ MeansAt(f, i).version \in Nat
           /\ MeansAt(f, i).ended \in BOOLEAN /\ MeansAt(f, i).bytes \in Seq(Cells(f))
<1> DEFINE S == {c \in 0 .. Lines(f) : MeansAt(f, c) \in MeaningType(f)}
<1>1. Lines(f) \in Nat
  BY FileLength
<1>2. 0 \in S
  <2>1. Started \in MeaningType(f)
    <3>1. << >> \in Seq(Cells(f))
      BY EmptySeq
    <3> QED BY <3>1 DEF Started, MeaningType
  <2>2. 0 \in 0 .. Lines(f)
    BY <1>1
  <2> QED BY <2>1, <2>2, MeansFirst
<1>3. ASSUME NEW c \in 0 .. Lines(f) - 1, c \in S
      PROVE  c + 1 \in S
  <2>1. c + 1 \in 0 .. Lines(f)
    BY <1>1
  <2>2. MeansAt(f, c + 1) = Meant(MeansAt(f, c), RecordAt(f, c))
    BY MeansInLine
  <2>3. MeansAt(f, c + 1) \in MeaningType(f)
    BY <1>3, <2>2, MeantAdds
  <2> QED BY <2>1, <2>3
<1>4. i \in S
  <2> HIDE DEF S
  <2>1. 0 \in Nat
    OBVIOUS
  <2> QED BY <1>1, <1>2, <1>3, <2>1, UpTo
<1>5. MeansAt(f, i) \in MeaningType(f)
  BY <1>4
<1> QED BY <1>5 DEF MeaningType

\* More lines, more bytes.
LEMMA MeansGrow ==
    ASSUME NEW f, WellFormed(f), NEW c \in 0 .. Lines(f), NEW d \in 0 .. Lines(f), c <= d
    PROVE  IsPrefix(MeansAt(f, c).bytes, MeansAt(f, d).bytes)
<1> DEFINE S == {e \in c .. Lines(f) : IsPrefix(MeansAt(f, c).bytes, MeansAt(f, e).bytes)}
<1>1. Lines(f) \in Nat /\ c \in Nat /\ d \in Nat /\ d \in c .. d
  BY FileLength
<1>2. c \in S
  <2>1. IsPrefix(MeansAt(f, c).bytes, MeansAt(f, c).bytes)
    BY MeansType, PrefixReflexive
  <2>2. c \in c .. Lines(f)
    BY <1>1
  <2> QED BY <2>1, <2>2
<1>3. ASSUME NEW e \in c .. d - 1, e \in S
      PROVE  e + 1 \in S
  <2>1. e \in 0 .. Lines(f) - 1 /\ e \in 0 .. Lines(f) /\ e + 1 \in 0 .. Lines(f) /\ e + 1 \in c .. Lines(f)
    BY <1>1
  <2>2. MeansAt(f, e + 1) = Meant(MeansAt(f, e), RecordAt(f, e))
    BY <2>1, MeansInLine
  <2>3. IsPrefix(MeansAt(f, e).bytes, MeansAt(f, e + 1).bytes)
    BY <2>1, <2>2, MeansType, MeantAdds
  <2>4. /\ MeansAt(f, c).bytes \in Seq(Cells(f)) /\ MeansAt(f, e).bytes \in Seq(Cells(f))
        /\ MeansAt(f, e + 1).bytes \in Seq(Cells(f))
    BY <2>1, MeansType
  <2>5. IsPrefix(MeansAt(f, c).bytes, MeansAt(f, e).bytes)
    BY <1>3
  <2>6. IsPrefix(MeansAt(f, c).bytes, MeansAt(f, e + 1).bytes)
    BY <2>3, <2>4, <2>5, PrefixTransitive
  <2> QED BY <2>1, <2>6
<1>4. d \in S
  <2> HIDE DEF S
  <2> QED BY <1>1, <1>2, <1>3, UpTo
<1> QED BY <1>4

-----------------------------------------------------------------------------
\* The high part of an address.
LEMMA HighIs ==
    /\ \A a \in Nat : High(a) \in Nat /\ High(a) <= a
    /\ \A a, x \in Nat : x < Low => High(High(a) + x) = High(a)
    /\ \A a \in Nat : a % Low = 0 => High(a) = a
<1>1. Low \in Nat /\ Low > 0
  BY HexAssumption
<1>2. \A a \in Nat : a = Low * (a \div Low) + (a % Low) /\ a \div Low \in Nat /\ a % Low \in 0 .. Low - 1
  BY <1>1
<1>3. \A x, y \in Nat : x * y \in Nat /\ x * (y + 1) = x * y + x
  OBVIOUS
<1>4. \A a \in Nat : High(a) = Low * (a \div Low)
  <2> TAKE a \in Nat
  <2>1. Low * (a \div Low) \in Nat
    BY <1>1, <1>2, <1>3
  <2> HIDE DEF High
  <2> QED BY <1>1, <1>2, <2>1 DEF High
<1>5. \A a \in Nat : High(a) \in Nat /\ High(a) <= a
  <2> TAKE a \in Nat
  <2>1. Low * (a \div Low) \in Nat
    BY <1>1, <1>2, <1>3
  <2> QED BY <1>1, <1>2, <1>4, <2>1
<1>6. \A p, q, r, x \in Nat : Low * p + x = Low * q + r /\ x < Low /\ r < Low => Low * p = Low * q
  <2> SUFFICES ASSUME NEW p \in Nat, NEW q \in Nat, NEW r \in Nat, NEW x \in Nat,
                      Low * p + x = Low * q + r, x < Low, r < Low
               PROVE  Low * p = Low * q
    OBVIOUS
  <2>1. ~(p < q)
    <3> SUFFICES ASSUME p < q PROVE FALSE
      OBVIOUS
    <3> DEFINE d == q - (p + 1)
    <3>1. d \in Nat /\ q = (p + 1) + d
      OBVIOUS
    <3>2. \A x1, y1, z1 \in Nat : x1 * (y1 + z1) = x1 * y1 + x1 * z1
      OBVIOUS
    <3> HIDE DEF d
    <3>3. Low * q = Low * (p + 1) + Low * d
      BY <1>1, <3>1, <3>2
    <3>4. Low * (p + 1) = Low * p + Low /\ Low * p \in Nat /\ Low * d \in Nat
      BY <1>1, <1>3, <3>1
    <3> QED BY <1>1, <3>3, <3>4
  <2>2. ~(q < p)
    <3> SUFFICES ASSUME q < p PROVE FALSE
      OBVIOUS
    <3> DEFINE d == p - (q + 1)
    <3>1. d \in Nat /\ p = (q + 1) + d
      OBVIOUS
    <3>2. \A x1, y1, z1 \in Nat : x1 * (y1 + z1) = x1 * y1 + x1 * z1
      OBVIOUS
    <3> HIDE DEF d
    <3>3. Low * p = Low * (q + 1) + Low * d
      BY <1>1, <3>1, <3>2
    <3>4. Low * (q + 1) = Low * q + Low /\ Low * q \in Nat /\ Low * d \in Nat
      BY <1>1, <1>3, <3>1
    <3> QED BY <1>1, <3>3, <3>4
  <2>3. p = q
    BY <2>1, <2>2
  <2> QED BY <2>3
<1>7. ASSUME NEW a \in Nat, NEW x \in Nat, x < Low
      PROVE  High(High(a) + x) = High(a)
  <2> DEFINE b == High(a) + x
             p == a \div Low
             q == b \div Low
             r == b % Low
  <2>1. b \in Nat /\ b = Low * p + x /\ p \in Nat
    BY <1>2, <1>4, <1>5
  <2>2. b = Low * q + r /\ q \in Nat /\ r \in Nat /\ r < Low
    <3> HIDE DEF b
    <3> QED BY <1>1, <1>2, <2>1
  <2>3. High(b) = Low * q /\ High(a) = Low * p
    <3> HIDE DEF b
    <3> QED BY <1>4, <2>1
  <2> HIDE DEF b, p, q, r
  <2>4. Low * p = Low * q
    BY <1>6, <1>7, <2>1, <2>2
  <2> QED BY <2>3, <2>4 DEF b
<1>8. \A a \in Nat : a % Low = 0 => High(a) = a
  BY DEF High
<1> QED BY <1>5, <1>7, <1>8

-----------------------------------------------------------------------------
\* What a sound record says, by its type.
LEMMA MeantIs ==
    ASSUME NEW f, WellFormed(f), NEW i \in 0 .. Lines(f) - 1,
           ~MeansAt(f, i).ended, RecordAt(f, i).sound, RecordAt(f, i).type # "eof"
    PROVE  LET m == MeansAt(f, i)
               n == MeansAt(f, i + 1)
               r == RecordAt(f, i)
           IN  /\ ~n.ended
               /\ n.version = (IF r.type = "meta" THEN r.value ELSE m.version)
               /\ n.base = (IF IsExtended(r) THEN r.value ELSE m.base)
               /\ n.bytes = (IF r.type = "data" /\ m.version = 0
                             THEN m.bytes \o Located(m.base + r.value, r.data) ELSE m.bytes)
<1> DEFINE m == MeansAt(f, i)
           n == MeansAt(f, i + 1)
           r == RecordAt(f, i)
           t == Located(m.base + r.value, r.data)
<1>1. m \in MeaningType(f)
  <2>1. i \in 0 .. Lines(f)
    BY FileLength
  <2> QED BY <2>1, MeansType
<1>2. n = Meant(m, r)
  BY MeansInLine
<1>3. ~m.ended /\ r.sound /\ r.type # "eof"
  OBVIOUS
<1> HIDE DEF m, n, r, t
<1>4. n = IF r.type = "meta" THEN [m EXCEPT !.version = r.value]
          ELSE IF IsExtended(r) THEN [m EXCEPT !.base = r.value]
          ELSE IF r.type = "data" /\ m.version = 0 THEN [m EXCEPT !.bytes = @ \o t]
          ELSE m
  BY <1>2, <1>3 DEF Meant, IsExtended, t
<1>5. r.type = "meta" => ~IsExtended(r) /\ r.type # "data"
  BY DEF IsExtended
<1>6. IsExtended(r) => r.type # "data"
  BY DEF IsExtended
<1>7. /\ ~n.ended
      /\ n.version = (IF r.type = "meta" THEN r.value ELSE m.version)
      /\ n.base = (IF IsExtended(r) THEN r.value ELSE m.base)
      /\ n.bytes = (IF r.type = "data" /\ m.version = 0 THEN m.bytes \o t ELSE m.bytes)
  BY <1>1, <1>3, <1>4, <1>5, <1>6 DEF MeaningType
<1> QED BY <1>7 DEF m, n, r, t

\* The end of the file adds nothing.
LEMMA EofAdds ==
    ASSUME NEW f, WellFormed(f), NEW i \in 0 .. Lines(f) - 1, RecordAt(f, i).type = "eof"
    PROVE  MeansAt(f, i + 1).bytes = MeansAt(f, i).bytes
<1>1. MeansAt(f, i) \in MeaningType(f)
  <2>1. i \in 0 .. Lines(f)
    BY FileLength
  <2> QED BY <2>1, MeansType
<1>2. MeansAt(f, i + 1) = Meant(MeansAt(f, i), RecordAt(f, i))
  BY MeansInLine
<1> QED BY <1>1, <1>2 DEF Meant, MeaningType

\* A file of several versions is read to its end.
LEMMA NotEnded ==
    ASSUME NEW f, WellFormed(f), HasVersions(f), NEW i \in 0 .. Lines(f) - 1
    PROVE  ~MeansAt(f, i).ended
<1> DEFINE S == {c \in 0 .. Lines(f) - 1 : ~MeansAt(f, c).ended}
<1>1. Lines(f) \in Nat /\ 0 \in 0 .. Lines(f) - 1 /\ i \in Nat /\ i \in 0 .. i
  BY FileLength
<1>2. 0 \in S
  <2>1. ~Started.ended
    BY DEF Started
  <2> QED BY <1>1, <2>1, MeansFirst
<1>3. ASSUME NEW c \in 0 .. i - 1, c \in S
      PROVE  c + 1 \in S
  <2>1. c \in 0 .. Lines(f) - 1 /\ c + 1 \in 0 .. Lines(f) - 1 /\ c + 1 # Lines(f)
    BY <1>1
  <2>2. RecordFits(f, c) /\ BlocksFit(f, c)
    BY <2>1 DEF WellFormed
  <2>3. RecordAt(f, c).sound /\ RecordAt(f, c).type # "eof"
    BY <2>1, <2>2 DEF RecordFits, BlocksFit
  <2>4. ~MeansAt(f, c).ended
    BY <1>3
  <2>5. ~MeansAt(f, c + 1).ended
    BY <2>1, <2>3, <2>4, MeantIs
  <2> QED BY <2>1, <2>5
<1>4. i \in S
  <2> HIDE DEF S
  <2> QED BY <1>1, <1>2, <1>3, UpTo
<1> QED BY <1>4

\* Inside of a block for another version nothing is said for this one.
LEMMA SkippedSays ==
    ASSUME NEW f, WellFormed(f), HasVersions(f), NEW l \in 0 .. Lines(f) - 1, RecordAt(f, l).type = "data",
           MeansAt(f, l + 1).version # 0,
           NEW p \in Nat, ~BlockIn(f, l, p), NEW c \in l + 1 .. Lines(f), LineAt(c) <= p + 1
    PROVE  /\ MeansAt(f, c).version = MeansAt(f, l + 1).version
           /\ MeansAt(f, c).bytes = MeansAt(f, l + 1).bytes
<1> DEFINE P(e) == /\ MeansAt(f, e).version = MeansAt(f, l + 1).version
                   /\ MeansAt(f, e).bytes = MeansAt(f, l + 1).bytes
           S == {e \in l + 1 .. Lines(f) : P(e)}
<1>1. Lines(f) \in Nat /\ l \in Nat /\ l + 1 \in Nat /\ c \in Nat /\ c \in l + 1 .. c
  BY FileLength
<1>2. l + 1 \in S
  BY <1>1
<1>3. ASSUME NEW e \in l + 1 .. c - 1, e \in S
      PROVE  e + 1 \in S
  <2>1. e \in Nat /\ e \in 0 .. Lines(f) - 1 /\ e + 1 \in l + 1 .. Lines(f) /\ e < c
    BY <1>1
  <2>2. RecordFits(f, e) /\ BlocksFit(f, e)
    BY <2>1 DEF WellFormed
  <2>3. RecordAt(f, e).type # "meta"
    <3> SUFFICES ASSUME RecordAt(f, e).type = "meta"
                 PROVE  FALSE
      OBVIOUS
    <3>1. BlockAt(f, e - 1)
      BY <2>2 DEF BlocksFit
    <3>2. e - 1 # l
      <4> SUFFICES ASSUME e - 1 = l
                   PROVE  FALSE
        OBVIOUS
      <4>1. IsExtended(RecordAt(f, l))
        BY <3>1, RecordIs
      <4> QED BY <4>1 DEF IsExtended
    <3>3. e - 1 \in Nat /\ e - 1 \in 0 .. Lines(f) - 1 /\ l < e - 1 /\ e - 1 < c
      BY <1>1, <2>1, <3>2
    <3>4. LineAt(e - 1) + LineLength <= LineAt(c)
      BY <1>1, <3>3, LinesLie
    <3>5. LineAt(e - 1) \in Nat /\ LineAt(c) \in Nat /\ LineLength \in Nat /\ LineLength > 1
      BY <1>1, <3>3, LinesLie
    <3>6. LineAt(e - 1) < p
      BY <3>4, <3>5
    <3> QED BY <3>1, <3>3, <3>6 DEF BlockIn
  <2>4. CASE e + 1 = Lines(f) /\ RecordAt(f, e).type = "eof"
    <3>1. MeansAt(f, e) \in MeaningType(f) /\ MeansAt(f, e + 1) = Meant(MeansAt(f, e), RecordAt(f, e))
      <4>1. e \in 0 .. Lines(f)
        BY <1>1, <2>1
      <4> QED BY <2>1, <4>1, MeansType, MeansInLine
    <3>2. /\ MeansAt(f, e + 1).version = MeansAt(f, e).version
          /\ MeansAt(f, e + 1).bytes = MeansAt(f, e).bytes
      BY <2>4, <3>1 DEF Meant, MeaningType
    <3>3. P(e + 1)
      BY <1>3, <3>2
    <3> QED BY <2>1, <3>3
  <2>5. CASE RecordAt(f, e).type # "eof"
    <3>1. ~MeansAt(f, e).ended /\ RecordAt(f, e).sound
      BY <2>1, <2>2, NotEnded DEF BlocksFit
    <3>2. MeansAt(f, e).version # 0
      BY <1>3
    <3>3. /\ MeansAt(f, e + 1).version = MeansAt(f, e).version
          /\ MeansAt(f, e + 1).bytes = MeansAt(f, e).bytes
      BY <2>1, <2>3, <2>5, <3>1, <3>2, MeantIs
    <3>4. P(e + 1)
      BY <1>3, <3>3
    <3> QED BY <2>1, <3>4
  <2> QED BY <2>2, <2>4, <2>5 DEF RecordFits
<1>4. c \in S
  <2> HIDE DEF S
  <2> QED BY <1>1, <1>2, <1>3, UpTo
<1> QED BY <1>4

-----------------------------------------------------------------------------
\* What the types say of a state.
LEMMA TypesAre ==
    ASSUME AllWellFormed, HexTypes, BlobState
    PROVE  /\ WellFormed(file) /\ Lines(file) \in Nat /\ Len(file) \in Nat /\ Len(file) = LineAt(Lines(file))
           /\ pos \in Nat /\ pos <= Len(file) /\ pos \in 0 .. Len(file)
           /\ Len(blob) \in Nat /\ Len(blob) <= pos /\ parsed \in Nat /\ parsed <= Len(blob)
           /\ Consumed \in Nat /\ Consumed = (pos - Len(blob)) + parsed
           /\ parser \in ParserType(file) /\ Next_addr \in Nat /\ start \in Nat
           /\ buf \in Seq(BytesOf(file)) /\ Len(buf) \in Nat
           /\ flashed \in Seq(Cells(file)) /\ aligned \in BOOLEAN
<1>1. file \in Files /\ pos \in 0 .. Len(file) /\ parsed \in 0 .. Len(blob)
  BY DEF HexTypes, HexTypeOK
<1>2. WellFormed(file)
  BY <1>1 DEF AllWellFormed
<1>3. Lines(file) \in Nat /\ Len(file) = LineAt(Lines(file)) /\ Len(file) \in Nat
  BY <1>2, FileLength
<1>4. Len(blob) \in Nat /\ Len(blob) <= pos
  BY LenProperties DEF BlobState, IsSeq
<1>5. parser \in ParserType(file) /\ buf \in Seq(BytesOf(file)) /\ flashed \in Seq(Cells(file)) /\ aligned \in BOOLEAN
      /\ start \in Nat
  BY DEF HexTypes, HexTypeOK
<1>6. Len(buf) \in Nat /\ Next_addr \in Nat
  BY <1>5, LenProperties DEF ParserType, Next_addr
<1>7. Consumed \in Nat
  BY <1>1, <1>3, <1>4 DEF Consumed
<1> QED BY <1>1, <1>2, <1>3, <1>4, <1>5, <1>6, <1>7 DEF Consumed

\* The character to be parsed is the one of the file behind those consumed.
LEMMA AtChar ==
    ASSUME AllWellFormed, HexTypes, BlobState, Scanning,
           NEW i \in 0 .. Lines(file), NEW o \in 0 .. LineLength - 1, LineAt(i) + o = Consumed
    PROVE  /\ i \in 0 .. Lines(file) - 1 /\ LineAt(i) + o < pos
           /\ IsColon(Char) <=> o = 0
           /\ Char.type = "digit" <=> o \in 1 .. 2 * RecordBytes
           /\ IsEnd(Char) <=> o = LineLength - 1
           /\ o \in 1 .. 2 * RecordBytes => Char.record = RecordAt(file, i)
<1>1. /\ WellFormed(file) /\ Lines(file) \in Nat /\ Len(file) \in Nat /\ Len(file) = LineAt(Lines(file))
      /\ pos \in Nat /\ pos <= Len(file)
      /\ Len(blob) \in Nat /\ Len(blob) <= pos /\ parsed \in Nat /\ parsed <= Len(blob)
      /\ Consumed \in Nat /\ Consumed = (pos - Len(blob)) + parsed
  BY TypesAre
<1>2. parsed < Len(blob)
  BY DEF Scanning
<1>3. LineAt(i) + o < pos /\ LineAt(i) + o < Len(file)
  BY <1>1, <1>2
<1>4. i \in 0 .. Lines(file) - 1
  <2>1. i # Lines(file)
    BY <1>1, <1>3
  <2> QED BY <1>1, <2>1
<1>5. Char = file[LineAt(i) + o + 1]
  <2>1. parsed + 1 \in 1 .. Len(blob) /\ (pos - Len(blob)) + (parsed + 1) = LineAt(i) + o + 1
    <3>1. parsed + 1 \in 1 .. Len(blob)
      BY <1>1, <1>2
    <3>2. (pos - Len(blob)) + (parsed + 1) = Consumed + 1
      BY <1>1
    <3> QED BY <3>1, <3>2
  <2>2. blob[parsed + 1] = file[(pos - Len(blob)) + (parsed + 1)]
    BY <2>1 DEF BlobState
  <2> QED BY <2>1, <2>2 DEF Char
<1>6. WellFormed(file) /\ LineAt(i) + o < Len(file)
  BY <1>1, <1>3
<1> HIDE DEF Char
<1>7. /\ IsColon(Char) <=> o = 0
      /\ Char.type = "digit" <=> o \in 1 .. 2 * RecordBytes
      /\ IsEnd(Char) <=> o = LineLength - 1
      /\ o \in 1 .. 2 * RecordBytes => Char.record = RecordAt(file, i)
  <2> USE <1>5
  <2> QED BY <1>4, <1>6, CharTells
<1> QED BY <1>3, <1>4, <1>7

\* What is out is a sequence of cells, and all that is held if no record is pending.
LEMMA OutIs ==
    ASSUME AllWellFormed, HexTypes, BlobState
    PROVE  /\ BufferAt \in Nat /\ Located(BufferAt, buf) \in Seq(Cells(file)) /\ Out \in Seq(Cells(file))
           /\ ~Pending => Held = Out
<1>1. /\ Next_addr \in Nat /\ start \in Nat /\ buf \in Seq(BytesOf(file)) /\ Len(buf) \in Nat
      /\ flashed \in Seq(Cells(file))
  BY TypesAre
<1>2. BufferAt \in Nat
  BY <1>1 DEF BufferAt, HexTypes
<1>3. Located(BufferAt, buf) \in Seq(Cells(file))
  BY <1>1, <1>2, LocatedSeq DEF Cells
<1>4. Out \in Seq(Cells(file))
  BY <1>1, <1>3, ConcatProperties DEF Out
<1>5. Out \o << >> = Out
  BY <1>4, ConcatEmptySeq
<1> QED BY <1>2, <1>3, <1>4, <1>5 DEF Held

\* What justifies bytes goes on to do so when the meaning grows.
LEMMA JustifiedGrows ==
    ASSUME NEW S, NEW s \in Seq(S), NEW t \in Seq(S), IsPrefix(s, t), Justified(s)
    PROVE  Justified(t)
<1>1. \A b : Among(b, s) => Among(b, t)
  BY AmongPrefix
<1> QED BY <1>1 DEF Justified

\* The bytes out are justified.
LEMMA ByLines ==
    ASSUME AllWellFormed, HexTypes, BlobState,
           NEW c \in 0 .. Lines(file), NEW d \in 0 .. Lines(file), c <= d, Justified(MeansAt(file, c).bytes)
    PROVE  Justified(MeansAt(file, d).bytes)
<1>1. WellFormed(file)
  BY TypesAre
<1>2. MeansAt(file, c).bytes \in Seq(Cells(file)) /\ MeansAt(file, d).bytes \in Seq(Cells(file))
  BY <1>1, MeansType
<1>3. IsPrefix(MeansAt(file, c).bytes, MeansAt(file, d).bytes)
  BY <1>1, MeansGrow
<1> QED BY <1>2, <1>3, JustifiedGrows

-----------------------------------------------------------------------------
(***************************************************************************)
(* The steps that consume a character and go on.                           *)
(***************************************************************************)

\* Which parsers there are.
LEMMA ParserIs ==
    ASSUME AllWellFormed, HexTypes, BlobState
    PROVE  /\ parser.line \in Records(file) /\ parser.low_nibble \in BOOLEAN /\ parser.idx \in 0 .. RecordBytes + 1
           /\ parser.record_processed \in BOOLEAN /\ parser.load_unaligned_record \in BOOLEAN
           /\ parser.skip_until_aligned \in BOOLEAN /\ parser.binary_version \in Nat
           /\ parser.next_address_to_write \in Nat
           /\ parser = [line |-> parser.line, next_address_to_write |-> parser.next_address_to_write,
                        low_nibble |-> parser.low_nibble, idx |-> parser.idx,
                        record_processed |-> parser.record_processed,
                        load_unaligned_record |-> parser.load_unaligned_record,
                        skip_until_aligned |-> parser.skip_until_aligned,
                        binary_version |-> parser.binary_version]
<1>1. parser \in ParserType(file)
  BY TypesAre
<1> QED BY <1>1 DEF ParserType

\* A character is consumed, the buffer is left alone.
Moves == Scanning /\ Consume /\ UNCHANGED <<buf, start, status>> /\ pc' = "scan" /\ Quiet

\* Then types and chunk stay what they are, and nothing is held that was not.
LEMMA MovesKeep ==
    ASSUME AllWellFormed, HexTypes, BlobState, Moves, ~Skipping, ~Pending,
           parser' \in ParserType(file), Next_addr' = Next_addr, ~Skipping', ~Pending'
    PROVE  /\ HexTypes' /\ BlobState' /\ ~Failing'
           /\ Consumed' = Consumed + 1 /\ Out' = Out /\ Held' = Out
<1>1. /\ pc = "scan" /\ pc' = "scan" /\ parsed' = parsed + 1 /\ parsed < Len(blob)
      /\ buf' = buf /\ start' = start /\ status' = status /\ blob' = blob /\ flashed' = flashed
      /\ file' = file /\ pos' = pos /\ aligned' = aligned
  BY DEF Moves, Scanning, Consume, Quiet
<1>2. /\ Len(blob) \in Nat /\ parsed \in Nat /\ pos \in Nat /\ Consumed = (pos - Len(blob)) + parsed
      /\ Next_addr \in Nat /\ Len(buf) \in Nat
  BY TypesAre
<1>3. HexTypes'
  <2>1. parser'.idx \in 0 .. RecordBytes + 1
    BY DEF ParserType
  <2>2. parsed' \in 0 .. Len(blob')
    BY <1>1, <1>2
  <2>3. HexTypeOK'
    BY <1>1, <2>1, <2>2 DEF HexTypes, HexTypeOK
  <2>4. Len(buf)' <= Next_addr'
    BY <1>1 DEF HexTypes
  <2> QED BY <1>1, <2>3, <2>4 DEF HexTypes
<1>4. BlobState'
  BY <1>1 DEF BlobState
<1>5. ~Failing'
  BY <1>1 DEF Failing
<1>6. Consumed' = Consumed + 1
  BY <1>1, <1>2 DEF Consumed
<1>7. Out' = Out
  BY <1>1 DEF Out, BufferAt
<1>8. Held' = Out
  <2>1. Out \in Seq(Cells(file))
    BY OutIs
  <2>2. Out \o << >> = Out
    BY <2>1, ConcatEmptySeq
  <2> QED BY <1>7, <2>2 DEF Held
<1> QED BY <1>3, <1>4, <1>5, <1>6, <1>7, <1>8

\* And if the parser is where it says it is, the invariant goes on.
LEMMA Moved ==
    ASSUME AllWellFormed, HexTypes, BlobState, Moves, ~Skipping,
           parser' \in ParserType(file), Next_addr' = Next_addr, ~Skipping', ~Pending', ~Ended',
           NEW i \in 0 .. Lines(file), NEW o \in 0 .. LineLength - 1, NEW c \in 0 .. Lines(file),
           ScanState(i, o, c),
           NEW j \in 0 .. Lines(file), NEW p \in 0 .. LineLength - 1, NEW d \in 0 .. Lines(file),
           LineAt(j) + p = LineAt(i) + o + 1, LineState(j, p, d)',
           MeansAt(file, d).bytes = MeansAt(file, c).bytes, ~MeansAt(file, d).ended,
           aligned \/ parser'.binary_version = 0 => parser'.binary_version = MeansAt(file, d).version,
           parser'.binary_version # 0 => HasVersions(file),
           aligned => Based(file, Next_addr, MeansAt(file, d), d)
    PROVE  HexIInv'
<1>1. ~Pending
  BY DEF ScanState, PendingIs, Moves, Scanning
<1>2. /\ HexTypes' /\ BlobState' /\ ~Failing'
      /\ Consumed' = Consumed + 1 /\ Out' = Out /\ Held' = Out
  BY <1>1, MovesKeep
<1>3. /\ pc = "scan" /\ pc' = "scan" /\ buf' = buf /\ flashed' = flashed /\ file' = file /\ aligned' = aligned
  BY DEF Moves, Scanning, Quiet
<1>4. LineAt(i) + o = Consumed /\ HeldIs(MeansAt(file, c).bytes)
  BY DEF ScanState
<1>5. LineAt(j) + p = Consumed'
  BY <1>2, <1>4
<1>6. PICK m : m = MeansAt(file, d)
  OBVIOUS
<1>7. Justified(m.bytes)' /\ (aligned' => Held' = m.bytes)
  <2>1. Justified(m.bytes)
    BY <1>4, <1>6 DEF HeldIs
  <2>2. aligned => Held = m.bytes
    BY <1>4, <1>6 DEF HeldIs
  <2>3. Held = Out
    BY <1>1, OutIs
  <2>4. Justified(m.bytes)'
    BY <1>3, <2>1 DEF Justified
  <2> QED BY <1>2, <1>3, <2>2, <2>3, <2>4
<1>8. MeansAt(file, d)' = m
  BY <1>3, <1>6
<1>9. ScanState(j, p, d)'
  <2>1. VersionIs(MeansAt(file, d))'
    BY <1>3, <1>6, <1>8 DEF VersionIs
  <2>2. PendingIs(MeansAt(file, d), d)'
    BY DEF PendingIs
  <2>3. HeldIs(MeansAt(file, d).bytes)'
    BY <1>7, <1>8 DEF HeldIs
  <2>4. aligned' => Based(file', Next_addr', MeansAt(file, d)', d)
    BY <1>3
  <2>5. ~MeansAt(file, d).ended'
    BY <1>3
  <2>6. pc' # "parsed"
    BY <1>3
  <2> QED BY <1>5, <2>1, <2>2, <2>3, <2>4, <2>5, <2>6 DEF ScanState
<1>10. Scans'
  BY <1>3, <1>9 DEF Scans
<1> QED BY <1>2, <1>10 DEF HexIInv

\* Behind the end of the file there is but a line end.
LEMMA AtTheEnd ==
    ASSUME AllWellFormed, HexTypes, BlobState, EndState, Scanning
    PROVE  IsEnd(Char) /\ ~IsColon(Char) /\ Char.type # "digit"
<1>1. /\ WellFormed(file) /\ Lines(file) \in Nat /\ Len(file) \in Nat /\ Len(file) = LineAt(Lines(file))
      /\ pos \in Nat /\ pos <= Len(file) /\ Len(blob) \in Nat /\ parsed \in Nat
      /\ Consumed \in Nat /\ Consumed = (pos - Len(blob)) + parsed
  BY TypesAre
<1>2. Consumed = Len(file) - 1
  BY <1>1 DEF EndState, Scanning
<1>3. PICK i \in 0 .. Lines(file) - 1 : i + 1 = Lines(file)
  BY <1>1 DEF EndState
<1>4. LineAt(Lines(file)) = LineAt(i) + LineLength /\ LineLength \in Nat /\ LineLength > 1 /\ LineAt(i) \in Nat
  BY <1>1, <1>3, LinesLie
<1>5. LineAt(i) + (LineLength - 1) = Consumed /\ LineLength - 1 \in 0 .. LineLength - 1 /\ i \in 0 .. Lines(file)
  <2>1. Len(file) = LineAt(i) + LineLength
    BY <1>1, <1>4
  <2>2. LineAt(i) + (LineLength - 1) = Consumed
    BY <1>2, <1>4, <2>1
  <2>3. LineLength - 1 \in 0 .. LineLength - 1
    BY <1>4
  <2>4. i \in 0 .. Lines(file)
    BY <1>1, <1>3
  <2> QED BY <2>2, <2>3, <2>4
<1>6. IsEnd(Char)
  BY <1>5, AtChar
<1> QED BY <1>6 DEF IsEnd, IsColon

\* At any other character the parser is in a line.
LEMMA InLine ==
    ASSUME AllWellFormed, HexIInv, Scanning, ~IsEnd(Char)
    PROVE  /\ HexTypes /\ BlobState /\ ~Skipping /\ ~Ended /\ ~Failing /\ WellFormed(file)
           /\ \E i \in 0 .. Lines(file) - 1, o \in 0 .. 2 * RecordBytes, c \in 0 .. Lines(file) :
                 /\ ScanState(i, o, c)
                 /\ i \in 0 .. Lines(file) /\ i + 1 \in 0 .. Lines(file)
                 /\ o \in 0 .. LineLength - 1 /\ o + 1 \in 0 .. LineLength - 1
                 /\ IsColon(Char) <=> o = 0
                 /\ Char.type = "digit" <=> o # 0
                 /\ o # 0 => Char.record = RecordAt(file, i)
                 /\ LineAt(i) + (o + 1) = LineAt(i) + o + 1
                 /\ LineAt(i) + o < pos
<1>1. pc = "scan" /\ ~Failing
  BY DEF Scanning, Failing
<1>2. HexTypes /\ BlobState
  BY DEF HexIInv
<1>3. ~Skipping
  BY <1>1 DEF HexIInv, SkipState
<1>4. ~Ended
  BY <1>1, <1>2, <1>3, AtTheEnd DEF HexIInv
<1>5. PICK i \in 0 .. Lines(file), o \in 0 .. LineLength - 1, c \in 0 .. Lines(file) : ScanState(i, o, c)
  BY <1>1, <1>3, <1>4 DEF HexIInv, Scans
<1>6. LineAt(i) + o = Consumed
  BY <1>5 DEF ScanState
<1>7. /\ i \in 0 .. Lines(file) - 1 /\ LineAt(i) + o < pos
      /\ IsColon(Char) <=> o = 0
      /\ Char.type = "digit" <=> o \in 1 .. 2 * RecordBytes
      /\ IsEnd(Char) <=> o = LineLength - 1
      /\ o \in 1 .. 2 * RecordBytes => Char.record = RecordAt(file, i)
  BY <1>2, <1>6, AtChar
<1>8. RecordBytes \in Nat /\ LineLength = (2 * RecordBytes) + 2 /\ LineAt(i) \in Nat /\ Lines(file) \in Nat
  <2>1. i \in Nat /\ Lines(file) \in Nat
    BY <1>2, TypesAre
  <2> QED BY <2>1, LinesLie
<1>9. o \in 0 .. 2 * RecordBytes /\ (o \in 1 .. 2 * RecordBytes <=> o # 0)
  BY <1>7, <1>8
<1>10. /\ i \in 0 .. Lines(file) /\ i + 1 \in 0 .. Lines(file)
       /\ o \in 0 .. LineLength - 1 /\ o + 1 \in 0 .. LineLength - 1
       /\ LineAt(i) + (o + 1) = LineAt(i) + o + 1
  BY <1>7, <1>8, <1>9
<1>11. WellFormed(file)
  BY <1>2, TypesAre
<1> QED BY <1>1, <1>2, <1>3, <1>4, <1>5, <1>7, <1>9, <1>10, <1>11

\* A line end changes nothing.
LEMMA LineEndKeeps ==
    ASSUME AllWellFormed, HexIInv, LineEnd
    PROVE  HexIInv'
<1>1. Moves /\ Scanning /\ IsEnd(Char) /\ parser' = parser /\ pc = "scan" /\ pc' = "scan"
  BY DEF LineEnd, Moves, Continue, Scanning
<1>2. HexTypes /\ BlobState /\ ~Failing /\ ~Skipping
  BY <1>1 DEF HexIInv, Failing, SkipState
<1>3. parser' \in ParserType(file) /\ Next_addr' = Next_addr /\ ~Skipping' /\ Ended' = Ended /\ Pending' = Pending
  <2>1. parser' \in ParserType(file)
    BY <1>1, <1>2, TypesAre
  <2> QED BY <1>1, <1>2, <2>1 DEF Next_addr, Skipping, Ended, Pending
<1>4. CASE Ended
  <2>1. EndState /\ ~Pending
    BY <1>2, <1>4 DEF HexIInv, EndState
  <2>2. /\ HexTypes' /\ BlobState' /\ ~Failing'
        /\ Consumed' = Consumed + 1 /\ Out' = Out /\ Held' = Out
    BY <1>1, <1>2, <1>3, <2>1, MovesKeep
  <2>3. file' = file /\ pos' = pos /\ aligned' = aligned /\ buf' = buf /\ flashed' = flashed
    BY <1>1 DEF Moves, Quiet
  <2>4. PICK m : m = MeansAt(file, Lines(file)).bytes
    OBVIOUS
  <2>5. Justified(m) /\ (aligned => Out = m)
    BY <1>2, <2>1, <2>4, OutIs DEF EndState, HeldIs
  <2>6. HeldIs(m)'
    BY <1>1, <2>1, <2>2, <2>3, <2>5 DEF HeldIs, Justified, Pending
  <2>7. HeldIs(MeansAt(file, Lines(file)).bytes)'
    BY <2>3, <2>4, <2>6 DEF HeldIs, Justified
  <2>8. Consumed \in Nat /\ Len(file) \in Nat
    BY <1>2, TypesAre
  <2>9. EndState'
    BY <1>1, <1>3, <2>1, <2>2, <2>3, <2>7, <2>8 DEF EndState
  <2> QED BY <1>3, <1>4, <2>2, <2>9 DEF HexIInv
<1>5. CASE ~Ended
  <2>1. PICK i \in 0 .. Lines(file), o \in 0 .. LineLength - 1, c \in 0 .. Lines(file) : ScanState(i, o, c)
    BY <1>2, <1>5 DEF HexIInv, Scans
  <2>2. LineAt(i) + o = Consumed
    BY <2>1 DEF ScanState
  <2>3. i \in 0 .. Lines(file) - 1 /\ o = LineLength - 1
    BY <1>1, <1>2, <2>2, AtChar
  <2>4. RecordBytes \in Nat /\ RecordBytes >= 1 /\ LineLength = (2 * RecordBytes) + 2
        /\ LineAt(i) \in Nat /\ LineAt(i + 1) = LineAt(i) + LineLength /\ Lines(file) \in Nat
    <3>1. i \in Nat /\ Lines(file) \in Nat
      BY <1>2, TypesAre
    <3> QED BY <3>1, LinesLie
  <2>5. c = i + 1
    BY <2>1, <2>3, <2>4 DEF ScanState, LineState
  <2>6. c \in 0 .. Lines(file) /\ 0 \in 0 .. LineLength - 1 /\ LineAt(c) + 0 = LineAt(i) + o + 1
    BY <2>3, <2>4, <2>5
  <2>7. LineState(c, 0, c)'
    BY DEF LineState
  <2>8. ~Pending
    BY <1>1, <2>1 DEF ScanState, PendingIs
  <2>9. /\ ~MeansAt(file, c).ended
        /\ aligned \/ parser'.binary_version = 0 => parser'.binary_version = MeansAt(file, c).version
        /\ parser'.binary_version # 0 => HasVersions(file)
        /\ aligned => Based(file, Next_addr, MeansAt(file, c), c)
    BY <1>1, <2>1 DEF ScanState, VersionIs
  <2> QED BY <1>1, <1>2, <1>3, <1>5, <2>1, <2>6, <2>7, <2>8, <2>9, Moved
<1> QED BY <1>4, <1>5

\* A colon begins a record.
LEMMA ColonKeeps ==
    ASSUME AllWellFormed, HexIInv, Colon
    PROVE  HexIInv'
<1>1. /\ Moves /\ Scanning /\ IsColon(Char) /\ pc = "scan"
      /\ parser' = [parser EXCEPT !.line = NoRecord, !.low_nibble = FALSE, !.idx = 0, !.record_processed = FALSE]
  BY DEF Colon, Moves, Continue, Scanning
<1>2. ~IsEnd(Char)
  BY <1>1 DEF IsColon, IsEnd
<1>3. HexTypes /\ BlobState /\ ~Skipping /\ ~Ended /\ ~Failing
  BY <1>1, <1>2, InLine
<1>4. PICK i \in 0 .. Lines(file) - 1, o \in 0 .. 2 * RecordBytes, c \in 0 .. Lines(file) :
         /\ ScanState(i, o, c)
         /\ i \in 0 .. Lines(file) /\ i + 1 \in 0 .. Lines(file)
         /\ o \in 0 .. LineLength - 1 /\ o + 1 \in 0 .. LineLength - 1
         /\ IsColon(Char) <=> o = 0
         /\ LineAt(i) + (o + 1) = LineAt(i) + o + 1
  BY <1>1, <1>2, InLine
<1>5. RecordBytes \in Nat /\ RecordBytes >= 1 /\ LineLength = (2 * RecordBytes) + 2
  BY LinesLie
<1>6. c = i
  BY <1>1, <1>4, <1>5 DEF ScanState, LineState
<1>7. ~Pending
  BY <1>1, <1>4 DEF ScanState, PendingIs
<1>8. /\ parser'.line = NoRecord /\ parser'.low_nibble = FALSE /\ parser'.idx = 0
      /\ parser'.record_processed = FALSE /\ parser'.binary_version = parser.binary_version
      /\ Next_addr' = Next_addr /\ ~Skipping' /\ ~Pending'
      /\ parser' \in ParserType(file)
  <2>1. /\ parser.low_nibble \in BOOLEAN /\ parser.record_processed \in BOOLEAN
        /\ parser.load_unaligned_record \in BOOLEAN
        /\ parser.skip_until_aligned \in BOOLEAN /\ parser.binary_version \in Nat
        /\ parser.next_address_to_write \in Nat /\ parser \in ParserType(file)
    BY <1>3, ParserIs, TypesAre
  <2>2. NoRecord \in Records(file) /\ 0 \in 0 .. RecordBytes + 1
    BY <1>5 DEF Records
  <2>3. parser' \in ParserType(file)
    BY <1>1, <2>1, <2>2 DEF ParserType
  <2>4. /\ parser'.line = NoRecord /\ parser'.low_nibble = FALSE /\ parser'.idx = 0
        /\ parser'.record_processed = FALSE /\ parser'.binary_version = parser.binary_version
        /\ parser'.next_address_to_write = parser.next_address_to_write
        /\ parser'.skip_until_aligned = parser.skip_until_aligned
        /\ parser'.load_unaligned_record = parser.load_unaligned_record
    BY <1>1, <2>1 DEF ParserType
  <2> QED BY <1>3, <1>7, <2>3, <2>4 DEF Next_addr, Skipping, Pending
<1>9. ~Ended'
  BY <1>8 DEF Ended
<1>10. LineState(i, o + 1, i)'
  <2>1. o + 1 = 1
    BY <1>1, <1>4
  <2> QED BY <1>5, <1>8, <2>1 DEF LineState
<1>11. /\ ~MeansAt(file, c).ended
       /\ aligned \/ parser'.binary_version = 0 => parser'.binary_version = MeansAt(file, c).version
       /\ parser'.binary_version # 0 => HasVersions(file)
       /\ aligned => Based(file, Next_addr, MeansAt(file, c), c)
  BY <1>4, <1>8 DEF ScanState, VersionIs
<1> QED BY <1>1, <1>3, <1>4, <1>6, <1>8, <1>9, <1>10, <1>11, Moved

\* At a digit the parser is in a record.
LEMMA AtDigit ==
    ASSUME AllWellFormed, HexIInv, OnDigit
    PROVE  /\ HexTypes /\ BlobState /\ ~Skipping /\ ~Ended /\ ~Failing /\ ~Pending /\ WellFormed(file)
           /\ Scanning /\ pc = "scan" /\ parsed < Len(blob)
           /\ \E i \in 0 .. Lines(file) - 1, o \in 1 .. 2 * RecordBytes, c \in 0 .. Lines(file) :
                 /\ ScanState(i, o, c)
                 /\ i \in 0 .. Lines(file) /\ i + 1 \in 0 .. Lines(file)
                 /\ o \in 0 .. LineLength - 1 /\ o + 1 \in 0 .. LineLength - 1
                 /\ Char.record = RecordAt(file, i)
                 /\ LineAt(i) + (o + 1) = LineAt(i) + o + 1
                 /\ LineAt(i) + o < pos
<1>1. Scanning /\ Char.type = "digit" /\ ~IsEnd(Char) /\ pc = "scan" /\ parsed < Len(blob)
  BY DEF OnDigit, IsEnd, Scanning
<1>2. HexTypes /\ BlobState /\ ~Skipping /\ ~Ended /\ ~Failing /\ WellFormed(file)
  BY <1>1, InLine
<1>3. PICK i \in 0 .. Lines(file) - 1, o \in 0 .. 2 * RecordBytes, c \in 0 .. Lines(file) :
         /\ ScanState(i, o, c)
         /\ i \in 0 .. Lines(file) /\ i + 1 \in 0 .. Lines(file)
         /\ o \in 0 .. LineLength - 1 /\ o + 1 \in 0 .. LineLength - 1
         /\ Char.type = "digit" <=> o # 0
         /\ o # 0 => Char.record = RecordAt(file, i)
         /\ LineAt(i) + (o + 1) = LineAt(i) + o + 1
         /\ LineAt(i) + o < pos
  BY <1>1, InLine
<1>4. RecordBytes \in Nat
  BY LinesLie
<1>5. o \in 1 .. 2 * RecordBytes /\ Char.record = RecordAt(file, i)
  BY <1>1, <1>3, <1>4
<1>6. ~Pending
  BY <1>1, <1>3 DEF ScanState, PendingIs
<1> QED BY <1>1, <1>2, <1>3, <1>5, <1>6

\* A new parser differs from the old one in what is assigned.
LEMMA Toggled ==
    ASSUME AllWellFormed, HexTypes, BlobState, ~Skipping, ~Pending,
           NEW q, q = [parser EXCEPT !.line = q.line, !.idx = q.idx, !.record_processed = q.record_processed,
                                     !.binary_version = q.binary_version],
           q.line \in Records(file), q.idx \in 0 .. RecordBytes + 1, q.record_processed \in BOOLEAN,
           q.binary_version \in Nat,
           parser' = Toggle(q)
    PROVE  /\ parser' \in ParserType(file) /\ Next_addr' = Next_addr /\ ~Skipping' /\ ~Pending'
           /\ parser'.line = q.line /\ parser'.idx = q.idx /\ parser'.record_processed = q.record_processed
           /\ parser'.low_nibble = ~parser.low_nibble /\ parser'.binary_version = q.binary_version
<1>1. /\ parser.low_nibble \in BOOLEAN
      /\ parser.load_unaligned_record \in BOOLEAN
      /\ parser.skip_until_aligned \in BOOLEAN
      /\ parser.next_address_to_write \in Nat /\ parser \in ParserType(file)
  BY ParserIs, TypesAre
<1>2. /\ q = [line |-> q.line, next_address_to_write |-> parser.next_address_to_write,
              low_nibble |-> parser.low_nibble, idx |-> q.idx, record_processed |-> q.record_processed,
              load_unaligned_record |-> parser.load_unaligned_record,
              skip_until_aligned |-> parser.skip_until_aligned, binary_version |-> q.binary_version]
  BY <1>1 DEF ParserType
<1>3. parser' = [line |-> q.line, next_address_to_write |-> parser.next_address_to_write,
                 low_nibble |-> ~parser.low_nibble, idx |-> q.idx, record_processed |-> q.record_processed,
                 load_unaligned_record |-> parser.load_unaligned_record,
                 skip_until_aligned |-> parser.skip_until_aligned, binary_version |-> q.binary_version]
  BY <1>2 DEF Toggle
<1>4. /\ parser'.line = q.line /\ parser'.idx = q.idx /\ parser'.record_processed = q.record_processed
      /\ parser'.low_nibble = ~parser.low_nibble /\ parser'.binary_version = q.binary_version
      /\ parser'.next_address_to_write = parser.next_address_to_write
      /\ parser'.skip_until_aligned = parser.skip_until_aligned
      /\ parser'.load_unaligned_record = parser.load_unaligned_record
  BY <1>3
<1>5. parser' \in ParserType(file)
  BY <1>1, <1>3 DEF ParserType
<1> QED BY <1>4, <1>5 DEF Next_addr, Skipping, Pending

\* The first digit of a byte.
LEMMA HighDigitKeeps ==
    ASSUME AllWellFormed, HexIInv, HighDigit
    PROVE  HexIInv'
<1>1. OnDigit /\ ~parser.low_nibble /\ Moves /\ parser' = Toggle([parser EXCEPT !.line = Char.record])
  BY DEF HighDigit, OnDigit, Moves, Continue
<1>2. HexTypes /\ BlobState /\ ~Skipping /\ ~Ended /\ ~Pending /\ WellFormed(file)
  BY <1>1, AtDigit
<1>3. PICK i \in 0 .. Lines(file) - 1, o \in 1 .. 2 * RecordBytes, c \in 0 .. Lines(file) :
         /\ ScanState(i, o, c)
         /\ i \in 0 .. Lines(file) /\ i + 1 \in 0 .. Lines(file)
         /\ o \in 0 .. LineLength - 1 /\ o + 1 \in 0 .. LineLength - 1
         /\ Char.record = RecordAt(file, i)
         /\ LineAt(i) + (o + 1) = LineAt(i) + o + 1
  BY <1>1, AtDigit
<1>4. RecordBytes \in Nat /\ RecordBytes >= 1 /\ LineLength = (2 * RecordBytes) + 2
  BY LinesLie
<1>5. /\ parser.line \in Records(file) /\ parser.low_nibble \in BOOLEAN /\ parser.idx \in 0 .. RecordBytes + 1
      /\ parser.record_processed \in BOOLEAN /\ parser.binary_version \in Nat /\ parser \in ParserType(file)
  BY <1>2, ParserIs, TypesAre
<1>6. /\ c = i /\ ~parser.record_processed /\ 2 * parser.idx = o - 1
  <2>1. LineState(i, o, c)
    BY <1>3 DEF ScanState
  <2>2. ~parser.low_nibble /\ o # 0 /\ o # LineLength - 1
    BY <1>1, <1>4
  <2>3. /\ c = i /\ ~parser.record_processed
        /\ (2 * parser.idx) + (IF parser.low_nibble THEN 1 ELSE 0) = o - 1
    BY <2>1, <2>2 DEF LineState
  <2>4. 2 * parser.idx \in Nat
    BY <1>4, <1>5
  <2> QED BY <2>2, <2>3, <2>4
<1> DEFINE q == [parser EXCEPT !.line = Char.record]
<1>7. /\ q = [parser EXCEPT !.line = q.line, !.idx = q.idx, !.record_processed = q.record_processed,
                            !.binary_version = q.binary_version]
      /\ q.line = RecordAt(file, i) /\ q.idx = parser.idx /\ q.record_processed = parser.record_processed
      /\ q.binary_version = parser.binary_version
  BY <1>3, <1>5 DEF ParserType
<1>8. RecordAt(file, i) \in Records(file)
  BY DEF Records
<1>9. parser' = Toggle(q)
  BY <1>1
<1> HIDE DEF q
<1>10. /\ parser' \in ParserType(file) /\ Next_addr' = Next_addr /\ ~Skipping' /\ ~Pending'
       /\ parser'.line = RecordAt(file, i) /\ parser'.idx = parser.idx
       /\ parser'.record_processed = parser.record_processed
       /\ parser'.low_nibble = ~parser.low_nibble /\ parser'.binary_version = parser.binary_version
  BY <1>2, <1>5, <1>7, <1>8, <1>9, Toggled
<1>11. LineState(i, o + 1, i)'
  <2>1. 1 <= o + 1 /\ o + 1 <= 2 * RecordBytes /\ (2 * parser.idx) + 1 = (o + 1) - 1
    BY <1>4, <1>5, <1>6
  <2>2. file' = file
    BY <1>1 DEF Moves, Quiet
  <2> QED BY <1>1, <1>6, <1>10, <2>1, <2>2 DEF LineState
<1>12. ~Ended'
  BY <1>6, <1>10 DEF Ended
<1>13. /\ ~MeansAt(file, c).ended
       /\ aligned \/ parser'.binary_version = 0 => parser'.binary_version = MeansAt(file, c).version
       /\ parser'.binary_version # 0 => HasVersions(file)
       /\ aligned => Based(file, Next_addr, MeansAt(file, c), c)
  BY <1>3, <1>10 DEF ScanState, VersionIs
<1> QED BY <1>1, <1>2, <1>3, <1>6, <1>10, <1>11, <1>12, <1>13, Moved

\* The second digit of a byte that is not the last.
LEMMA LowDigitKeeps ==
    ASSUME AllWellFormed, HexIInv, LowDigit
    PROVE  HexIInv'
<1>1. OnDigit /\ parser.low_nibble /\ Counted.idx < RecordBytes /\ Moves /\ parser' = Toggle(Counted)
  BY DEF LowDigit, OnDigit, Moves, Continue
<1>2. HexTypes /\ BlobState /\ ~Skipping /\ ~Ended /\ ~Pending /\ WellFormed(file)
  BY <1>1, AtDigit
<1>3. PICK i \in 0 .. Lines(file) - 1, o \in 1 .. 2 * RecordBytes, c \in 0 .. Lines(file) :
         /\ ScanState(i, o, c)
         /\ i \in 0 .. Lines(file) /\ i + 1 \in 0 .. Lines(file)
         /\ o \in 0 .. LineLength - 1 /\ o + 1 \in 0 .. LineLength - 1
         /\ LineAt(i) + (o + 1) = LineAt(i) + o + 1
  BY <1>1, AtDigit
<1>4. RecordBytes \in Nat /\ RecordBytes >= 1 /\ LineLength = (2 * RecordBytes) + 2
  BY LinesLie
<1>5. /\ parser.line \in Records(file) /\ parser.low_nibble \in BOOLEAN /\ parser.idx \in 0 .. RecordBytes + 1
      /\ parser.record_processed \in BOOLEAN /\ parser.binary_version \in Nat /\ parser \in ParserType(file)
  BY <1>2, ParserIs, TypesAre
<1> DEFINE q == Counted
<1>6. /\ q = [parser EXCEPT !.line = q.line, !.idx = q.idx, !.record_processed = q.record_processed,
                            !.binary_version = q.binary_version]
      /\ q.line = parser.line /\ q.idx = parser.idx + 1 /\ q.record_processed = parser.record_processed
      /\ q.binary_version = parser.binary_version
  BY <1>5 DEF ParserType, Counted
<1>7. parser.idx + 1 < RecordBytes /\ parser.idx + 1 \in 0 .. RecordBytes + 1
  <2>1. parser.idx + 1 < RecordBytes
    BY <1>1, <1>6
  <2> QED BY <1>4, <1>5, <2>1
<1>8. c = i /\ ~parser.record_processed /\ (2 * parser.idx) + 1 = o - 1 /\ (o >= 2 => parser.line = RecordAt(file, i))
  BY <1>1, <1>3, <1>4, <1>5, <1>7 DEF ScanState, LineState
<1>9. parser' = Toggle(q)
  BY <1>1
<1> HIDE DEF q
<1>10. /\ parser' \in ParserType(file) /\ Next_addr' = Next_addr /\ ~Skipping' /\ ~Pending'
       /\ parser'.line = parser.line /\ parser'.idx = parser.idx + 1
       /\ parser'.record_processed = parser.record_processed
       /\ parser'.low_nibble = ~parser.low_nibble /\ parser'.binary_version = parser.binary_version
  BY <1>2, <1>5, <1>6, <1>7, <1>9, Toggled
<1>11. LineState(i, o + 1, i)'
  <2>1. 1 <= o + 1 /\ o + 1 <= 2 * RecordBytes /\ 2 * (parser.idx + 1) + 0 = (o + 1) - 1 /\ o >= 2
    BY <1>4, <1>5, <1>7, <1>8
  <2>2. file' = file
    BY <1>1 DEF Moves, Quiet
  <2> QED BY <1>1, <1>8, <1>10, <2>1, <2>2 DEF LineState
<1>12. ~Ended'
  BY <1>8, <1>10 DEF Ended
<1>13. /\ ~MeansAt(file, c).ended
       /\ aligned \/ parser'.binary_version = 0 => parser'.binary_version = MeansAt(file, c).version
       /\ parser'.binary_version # 0 => HasVersions(file)
       /\ aligned => Based(file, Next_addr, MeansAt(file, c), c)
  BY <1>3, <1>10 DEF ScanState, VersionIs
<1> QED BY <1>1, <1>2, <1>3, <1>8, <1>10, <1>11, <1>12, <1>13, Moved

\* At the last digit of a record the parser has the record.
LEMMA AtLast ==
    ASSUME AllWellFormed, HexIInv, Complete
    PROVE  /\ HexTypes /\ BlobState /\ ~Skipping /\ ~Ended /\ ~Failing /\ ~Pending /\ WellFormed(file)
           /\ OnDigit /\ Scanning /\ pc = "scan" /\ parsed < Len(blob)
           /\ \E i \in 0 .. Lines(file) - 1, c \in 0 .. Lines(file) :
                 /\ ScanState(i, 2 * RecordBytes, c)
                 /\ i \in 0 .. Lines(file) /\ i + 1 \in 0 .. Lines(file)
                 /\ 2 * RecordBytes \in 0 .. LineLength - 1 /\ LineLength - 1 \in 0 .. LineLength - 1
                 /\ LineAt(i) + (LineLength - 1) = LineAt(i) + (2 * RecordBytes) + 1
                 /\ LineAt(i) + (2 * RecordBytes) < pos
                 /\ parser.line = RecordAt(file, i) /\ parser.low_nibble
                 /\ IF parser.record_processed
                    THEN c = i + 1 /\ parser.idx = RecordBytes /\ IsExtended(parser.line)
                    ELSE c = i /\ parser.idx + 1 = RecordBytes
<1>1. OnDigit /\ parser.low_nibble /\ Counted.idx >= RecordBytes
  BY DEF Complete
<1>2. /\ HexTypes /\ BlobState /\ ~Skipping /\ ~Ended /\ ~Failing /\ ~Pending /\ WellFormed(file)
      /\ OnDigit /\ Scanning /\ pc = "scan" /\ parsed < Len(blob)
  BY <1>1, AtDigit
<1>3. PICK i \in 0 .. Lines(file) - 1, o \in 1 .. 2 * RecordBytes, c \in 0 .. Lines(file) :
         /\ ScanState(i, o, c)
         /\ i \in 0 .. Lines(file) /\ i + 1 \in 0 .. Lines(file)
         /\ LineAt(i) + o < pos
  BY <1>1, AtDigit
<1>4. RecordBytes \in Nat /\ RecordBytes >= 1 /\ LineLength = (2 * RecordBytes) + 2 /\ LineAt(i) \in Nat
  <2>1. i \in Nat
    BY <1>2, TypesAre
  <2> QED BY <2>1, LinesLie
<1>5. parser.idx \in 0 .. RecordBytes + 1 /\ parser \in ParserType(file)
  BY <1>2, ParserIs, TypesAre
<1>6. parser.idx + 1 >= RecordBytes
  <2>1. Counted.idx = parser.idx + 1
    BY <1>5 DEF Counted, ParserType
  <2> QED BY <1>1, <2>1
<1>7. /\ o = 2 * RecordBytes
      /\ parser.line = RecordAt(file, i)
      /\ IF parser.record_processed
         THEN c = i + 1 /\ parser.idx = RecordBytes /\ IsExtended(parser.line)
         ELSE c = i /\ parser.idx + 1 = RecordBytes
  <2>1. LineState(i, o, c) /\ o # 0 /\ o # LineLength - 1
    BY <1>3, <1>4 DEF ScanState
  <2>2. CASE /\ 1 <= o /\ o <= 2 * RecordBytes /\ c = i
             /\ ~parser.record_processed
             /\ (2 * parser.idx) + (IF parser.low_nibble THEN 1 ELSE 0) = o - 1
             /\ o >= 2 => parser.line = RecordAt(file, i)
    <3>1. (2 * parser.idx) + 1 = o - 1 /\ o \in Nat
      BY <1>1, <1>4, <2>2
    <3>2. o = 2 * RecordBytes /\ parser.idx + 1 = RecordBytes /\ o >= 2
      BY <1>4, <1>5, <1>6, <2>2, <3>1
    <3> QED BY <2>2, <3>2
  <2>3. CASE /\ o = 2 * RecordBytes /\ c = i + 1
             /\ parser.record_processed /\ parser.low_nibble /\ parser.idx = RecordBytes
             /\ parser.line = RecordAt(file, i) /\ parser.line.sound /\ IsExtended(parser.line)
    BY <2>3
  <2> QED BY <2>1, <2>2, <2>3 DEF LineState
<1>8. /\ 2 * RecordBytes \in 0 .. LineLength - 1 /\ LineLength - 1 \in 0 .. LineLength - 1
      /\ LineAt(i) + (LineLength - 1) = LineAt(i) + (2 * RecordBytes) + 1
  BY <1>4
<1> QED BY <1>1, <1>2, <1>3, <1>7, <1>8

\* A digit of an extended address that is read once more.
LEMMA AgainKeeps ==
    ASSUME AllWellFormed, HexIInv, Again
    PROVE  HexIInv'
<1>1. Complete /\ parser.record_processed /\ Moves /\ parser' = Toggle(Counted)
  BY DEF Again, Complete, OnDigit, Moves, Continue
<1>2. HexTypes /\ BlobState /\ ~Skipping /\ ~Ended /\ ~Pending /\ WellFormed(file)
  BY <1>1, AtLast
<1>3. PICK i \in 0 .. Lines(file) - 1, c \in 0 .. Lines(file) :
         /\ ScanState(i, 2 * RecordBytes, c)
         /\ i \in 0 .. Lines(file) /\ i + 1 \in 0 .. Lines(file)
         /\ 2 * RecordBytes \in 0 .. LineLength - 1 /\ LineLength - 1 \in 0 .. LineLength - 1
         /\ LineAt(i) + (LineLength - 1) = LineAt(i) + (2 * RecordBytes) + 1
         /\ c = i + 1 /\ parser.idx = RecordBytes /\ IsExtended(parser.line)
  BY <1>1, AtLast
<1>4. RecordBytes \in Nat
  BY LinesLie
<1>5. /\ parser.line \in Records(file) /\ parser.low_nibble \in BOOLEAN
      /\ parser.record_processed \in BOOLEAN /\ parser.binary_version \in Nat /\ parser \in ParserType(file)
  BY <1>2, ParserIs, TypesAre
<1> DEFINE q == Counted
<1>6. /\ q = [parser EXCEPT !.line = q.line, !.idx = q.idx, !.record_processed = q.record_processed,
                            !.binary_version = q.binary_version]
      /\ q.line = parser.line /\ q.idx = parser.idx + 1 /\ q.record_processed = parser.record_processed
      /\ q.binary_version = parser.binary_version
  BY <1>5 DEF ParserType, Counted
<1>7. parser.idx + 1 \in 0 .. RecordBytes + 1
  BY <1>3, <1>4
<1>8. parser' = Toggle(q)
  BY <1>1
<1> HIDE DEF q
<1>9. /\ parser' \in ParserType(file) /\ Next_addr' = Next_addr /\ ~Skipping' /\ ~Pending'
      /\ parser'.line = parser.line /\ parser'.binary_version = parser.binary_version
  BY <1>2, <1>5, <1>6, <1>7, <1>8, Toggled
<1>10. LineState(i, LineLength - 1, c)'
  BY <1>3 DEF LineState
<1>11. ~Ended'
  BY <1>3, <1>9 DEF Ended, IsExtended
<1>12. /\ ~MeansAt(file, c).ended
       /\ aligned \/ parser'.binary_version = 0 => parser'.binary_version = MeansAt(file, c).version
       /\ parser'.binary_version # 0 => HasVersions(file)
       /\ aligned => Based(file, Next_addr, MeansAt(file, c), c)
  BY <1>3, <1>9 DEF ScanState, VersionIs
<1> QED BY <1>1, <1>2, <1>3, <1>9, <1>10, <1>11, <1>12, Moved

\* What Processed changes.
LEMMA ProcessedIs ==
    ASSUME AllWellFormed, HexTypes, BlobState, parser.idx + 1 = RecordBytes
    PROVE  /\ Processed = [parser EXCEPT !.line = Processed.line, !.idx = Processed.idx,
                                         !.record_processed = Processed.record_processed,
                                         !.binary_version = Processed.binary_version]
           /\ Processed.line = parser.line /\ Processed.idx = RecordBytes /\ Processed.record_processed = TRUE
           /\ Processed.low_nibble = parser.low_nibble
           /\ Processed.load_unaligned_record = parser.load_unaligned_record
           /\ Processed.skip_until_aligned = parser.skip_until_aligned
           /\ Processed.binary_version = parser.binary_version
           /\ Processed.next_address_to_write = parser.next_address_to_write
           /\ Processed \in ParserType(file)
<1>1. parser \in ParserType(file) /\ RecordBytes \in Nat
  BY TypesAre, LinesLie
<1>2. RecordBytes \in 0 .. RecordBytes + 1
  BY <1>1
<1> QED BY <1>1, <1>2 DEF ParserType, Processed, Counted

\* A fresh record is that of the line; what it means is said by MeantIs.
LEMMA AtFresh ==
    ASSUME AllWellFormed, HexIInv, NEW types, Fresh(types)
    PROVE  /\ HexTypes /\ BlobState /\ ~Skipping /\ ~Ended /\ ~Failing /\ ~Pending /\ WellFormed(file)
           /\ Scanning /\ pc = "scan" /\ parsed < Len(blob)
           /\ parser.line.type \in types /\ parser.line.sound /\ parser.idx + 1 = RecordBytes /\ parser.low_nibble
           /\ \E i \in 0 .. Lines(file) - 1 :
                 /\ ScanState(i, 2 * RecordBytes, i)
                 /\ i \in 0 .. Lines(file) /\ i + 1 \in 0 .. Lines(file)
                 /\ 2 * RecordBytes \in 0 .. LineLength - 1 /\ LineLength - 1 \in 0 .. LineLength - 1
                 /\ LineAt(i) + (LineLength - 1) = LineAt(i) + (2 * RecordBytes) + 1
                 /\ LineAt(i) + (2 * RecordBytes) < pos
                 /\ parser.line = RecordAt(file, i)
                 /\ RecordFits(file, i) /\ BlocksFit(file, i)
<1>1. Complete /\ parser.line.sound /\ ~parser.record_processed /\ parser.line.type \in types /\ parser.low_nibble
  BY DEF Fresh, Complete
<1>2. /\ HexTypes /\ BlobState /\ ~Skipping /\ ~Ended /\ ~Failing /\ ~Pending /\ WellFormed(file)
      /\ Scanning /\ pc = "scan" /\ parsed < Len(blob)
  BY <1>1, AtLast
<1>3. PICK i \in 0 .. Lines(file) - 1, c \in 0 .. Lines(file) :
         /\ ScanState(i, 2 * RecordBytes, c)
         /\ i \in 0 .. Lines(file) /\ i + 1 \in 0 .. Lines(file)
         /\ 2 * RecordBytes \in 0 .. LineLength - 1 /\ LineLength - 1 \in 0 .. LineLength - 1
         /\ LineAt(i) + (LineLength - 1) = LineAt(i) + (2 * RecordBytes) + 1
         /\ LineAt(i) + (2 * RecordBytes) < pos
         /\ parser.line = RecordAt(file, i)
         /\ c = i /\ parser.idx + 1 = RecordBytes
  BY <1>1, AtLast
<1>4. RecordFits(file, i) /\ BlocksFit(file, i)
  BY <1>2 DEF WellFormed
<1> QED BY <1>1, <1>2, <1>3, <1>4

\* The record that says the version of a block.
LEMMA MetadataKeeps ==
    ASSUME AllWellFormed, HexIInv, Metadata
    PROVE  HexIInv'
<1> DEFINE q == [Processed EXCEPT !.binary_version = parser.line.value]
<1>1. Fresh({"meta"}) /\ parser' = Toggle(q)
  BY DEF Metadata, Continue
<1>2. /\ HexTypes /\ BlobState /\ ~Skipping /\ ~Ended /\ ~Pending /\ WellFormed(file) /\ Scanning
      /\ parser.line.type \in {"meta"} /\ parser.line.sound /\ parser.idx + 1 = RecordBytes
  BY <1>1, AtFresh
<1>3. PICK i \in 0 .. Lines(file) - 1 :
         /\ ScanState(i, 2 * RecordBytes, i)
         /\ i \in 0 .. Lines(file) /\ i + 1 \in 0 .. Lines(file)
         /\ 2 * RecordBytes \in 0 .. LineLength - 1 /\ LineLength - 1 \in 0 .. LineLength - 1
         /\ LineAt(i) + (LineLength - 1) = LineAt(i) + (2 * RecordBytes) + 1
         /\ parser.line = RecordAt(file, i)
         /\ RecordFits(file, i) /\ BlocksFit(file, i)
  BY <1>1, AtFresh
<1>4. Moves
  BY <1>2 DEF Metadata, Moves, Continue
<1>5. RecordBytes \in 0 .. RecordBytes + 1
  <2>1. RecordBytes \in Nat
    BY LinesLie
  <2> QED BY <2>1
<1>6. parser.line \in Records(file)
  BY <1>2, ParserIs
<1>7. parser.line.value \in Nat
  BY <1>2, <1>3, RecordIs
<1>8. /\ q = [parser EXCEPT !.line = q.line, !.idx = q.idx, !.record_processed = q.record_processed,
                            !.binary_version = q.binary_version]
      /\ q.line = parser.line /\ q.idx = RecordBytes /\ q.record_processed = TRUE
      /\ q.binary_version = parser.line.value
  <2>1. parser \in ParserType(file) /\ parser.idx + 1 = RecordBytes
    BY <1>2, TypesAre
  <2> QED BY <2>1 DEF ParserType, Processed, Counted
<1> HIDE DEF q
<1>9. /\ parser' \in ParserType(file) /\ Next_addr' = Next_addr /\ ~Skipping' /\ ~Pending'
      /\ parser'.line = parser.line /\ parser'.binary_version = parser.line.value
  <2>1. q.line \in Records(file) /\ q.idx \in 0 .. RecordBytes + 1 /\ q.record_processed \in BOOLEAN
        /\ q.binary_version \in Nat
    BY <1>5, <1>6, <1>7, <1>8
  <2>2. q = [parser EXCEPT !.line = q.line, !.idx = q.idx, !.record_processed = q.record_processed,
                           !.binary_version = q.binary_version]
    BY <1>8
  <2>3. /\ parser' \in ParserType(file) /\ Next_addr' = Next_addr /\ ~Skipping' /\ ~Pending'
        /\ parser'.line = q.line /\ parser'.binary_version = q.binary_version
    BY <1>1, <1>2, <2>1, <2>2, Toggled
  <2> QED BY <1>8, <2>3
<1>10. LineState(i, LineLength - 1, i + 1)'
  BY DEF LineState
<1>11. ~Ended'
  BY <1>2, <1>9 DEF Ended
<1>12. /\ ~MeansAt(file, i).ended
       /\ aligned => Based(file, Next_addr, MeansAt(file, i), i)
  BY <1>3 DEF ScanState
<1>13. /\ ~MeansAt(file, i + 1).ended
       /\ MeansAt(file, i + 1).version = parser.line.value
       /\ MeansAt(file, i + 1).base = MeansAt(file, i).base
       /\ MeansAt(file, i + 1).bytes = MeansAt(file, i).bytes
  BY <1>2, <1>3, <1>12, MeantIs DEF IsExtended
<1>14. parser'.binary_version # 0 => HasVersions(file)
  BY <1>2, <1>3, <1>9 DEF HasVersions
<1>15. aligned => Based(file, Next_addr, MeansAt(file, i + 1), i + 1)
  <2>1. i > 0 /\ BlockAt(file, i - 1)
    BY <1>2, <1>3 DEF BlocksFit
  <2>2. i < Lines(file)
    BY <1>2, FileLength
  <2>3. aligned => High(Next_addr) = MeansAt(file, i).base
    BY <1>2, <1>3, <1>12, <2>1, <2>2 DEF Based
  <2> QED BY <1>13, <2>3 DEF Based
<1> QED BY <1>2, <1>3, <1>4, <1>9, <1>10, <1>11, <1>13, <1>14, <1>15, Moved

\* A record of another type says nothing.
LEMMA OtherRecordKeeps ==
    ASSUME AllWellFormed, HexIInv, OtherRecord
    PROVE  HexIInv'
<1>1. Fresh({"other"}) /\ parser' = Toggle(Processed)
  BY DEF OtherRecord, Continue
<1>2. /\ HexTypes /\ BlobState /\ ~Skipping /\ ~Ended /\ ~Pending /\ WellFormed(file) /\ Scanning
      /\ parser.line.type \in {"other"} /\ parser.line.sound /\ parser.idx + 1 = RecordBytes
  BY <1>1, AtFresh
<1>3. PICK i \in 0 .. Lines(file) - 1 :
         /\ ScanState(i, 2 * RecordBytes, i)
         /\ i \in 0 .. Lines(file) /\ i + 1 \in 0 .. Lines(file)
         /\ 2 * RecordBytes \in 0 .. LineLength - 1 /\ LineLength - 1 \in 0 .. LineLength - 1
         /\ LineAt(i) + (LineLength - 1) = LineAt(i) + (2 * RecordBytes) + 1
         /\ parser.line = RecordAt(file, i)
         /\ RecordFits(file, i) /\ BlocksFit(file, i)
  BY <1>1, AtFresh
<1>4. Moves
  BY <1>2 DEF OtherRecord, Moves, Continue
<1>5. RecordBytes \in 0 .. RecordBytes + 1
  <2>1. RecordBytes \in Nat
    BY LinesLie
  <2> QED BY <2>1
<1>6. parser.line \in Records(file) /\ parser.binary_version \in Nat
  BY <1>2, ParserIs
<1> DEFINE q == Processed
<1>7. /\ q = [parser EXCEPT !.line = q.line, !.idx = q.idx, !.record_processed = q.record_processed,
                            !.binary_version = q.binary_version]
      /\ q.line = parser.line /\ q.idx = RecordBytes /\ q.record_processed = TRUE
      /\ q.binary_version = parser.binary_version
  BY <1>2, ProcessedIs
<1>8. parser' = Toggle(q)
  BY <1>1
<1> HIDE DEF q
<1>9. /\ parser' \in ParserType(file) /\ Next_addr' = Next_addr /\ ~Skipping' /\ ~Pending'
      /\ parser'.line = parser.line /\ parser'.binary_version = parser.binary_version
  <2>1. q.line \in Records(file) /\ q.idx \in 0 .. RecordBytes + 1 /\ q.record_processed \in BOOLEAN
        /\ q.binary_version \in Nat
    BY <1>5, <1>6, <1>7
  <2>2. q = [parser EXCEPT !.line = q.line, !.idx = q.idx, !.record_processed = q.record_processed,
                           !.binary_version = q.binary_version]
    BY <1>7
  <2>3. /\ parser' \in ParserType(file) /\ Next_addr' = Next_addr /\ ~Skipping' /\ ~Pending'
        /\ parser'.line = q.line /\ parser'.binary_version = q.binary_version
    BY <1>2, <1>8, <2>1, <2>2, Toggled
  <2> QED BY <1>7, <2>3
<1>10. LineState(i, LineLength - 1, i + 1)'
  BY DEF LineState
<1>11. ~Ended'
  BY <1>2, <1>9 DEF Ended
<1>12. /\ ~MeansAt(file, i).ended
       /\ aligned \/ parser.binary_version = 0 => parser.binary_version = MeansAt(file, i).version
       /\ parser.binary_version # 0 => HasVersions(file)
       /\ aligned => Based(file, Next_addr, MeansAt(file, i), i)
  BY <1>3 DEF ScanState, VersionIs
<1>13. /\ ~MeansAt(file, i + 1).ended
       /\ MeansAt(file, i + 1).version = MeansAt(file, i).version
       /\ MeansAt(file, i + 1).base = MeansAt(file, i).base
       /\ MeansAt(file, i + 1).bytes = MeansAt(file, i).bytes
  BY <1>2, <1>3, <1>12, MeantIs DEF IsExtended
<1>14. aligned => Based(file, Next_addr, MeansAt(file, i + 1), i + 1)
  <2>1. ~BlockAt(file, (i + 1) - 1)
    <3>1. ~BlockAt(file, i)
      BY <1>2, <1>3 DEF BlocksFit, IsExtended
    <3>2. (i + 1) - 1 = i
      OBVIOUS
    <3> QED BY <3>1, <3>2
  <2>2. i < Lines(file)
    BY <1>2, FileLength
  <2>3. aligned => High(Next_addr) = MeansAt(file, i).base \/ MeansAt(file, i).version # 0
    BY <1>2, <1>3, <1>12, <2>2 DEF Based
  <2> QED BY <1>13, <2>1, <2>3 DEF Based
<1>15. /\ aligned \/ parser'.binary_version = 0 => parser'.binary_version = MeansAt(file, i + 1).version
       /\ parser'.binary_version # 0 => HasVersions(file)
  BY <1>9, <1>12, <1>13
<1> QED BY <1>2, <1>3, <1>4, <1>9, <1>10, <1>11, <1>13, <1>14, <1>15, Moved

-----------------------------------------------------------------------------
(***************************************************************************)
(* Data.                                                                   *)
(***************************************************************************)

\* Behind the data of a record the address is still in its high part, or what comes
\* is an extended address, or no data.
LEMMA DataBased ==
    ASSUME NEW f, WellFormed(f), NEW i \in 0 .. Lines(f) - 1, RecordAt(f, i).type = "data",
           NEW a \in Nat, NEW meant, High(a) = meant.base
    PROVE  Based(f, High(a) + RecordAt(f, i).value + Len(RecordAt(f, i).data), meant, i + 1)
<1> DEFINE r == RecordAt(f, i)
           n == Len(r.data)
<1>1. RecordFits(f, i)
  BY DEF WellFormed
<1>2. r.value \in Nat /\ n \in Nat
  BY RecordIs, LenProperties
<1>3. /\ r.value + n <= Low
      /\ r.value + n = Low /\ i + 1 < Lines(f) => RecordAt(f, i + 1).type \in {"eof", "seg", "lin"}
  BY <1>1 DEF RecordFits
<1>4. Low \in Nat /\ High(a) \in Nat
  BY HexAssumption, HighIs
<1> HIDE DEF n, r
<1>5. High(a) + r.value + n = High(a) + (r.value + n) /\ r.value + n \in Nat
  BY <1>2, <1>4
<1>6. r.value + n < Low => High(High(a) + r.value + n) = meant.base
  BY <1>5, HighIs
<1>7. r.value + n < Low \/ r.value + n = Low
  BY <1>2, <1>3, <1>4
<1>8. Based(f, High(a) + r.value + n, meant, i + 1)
  BY <1>3, <1>6, <1>7 DEF Based
<1> QED BY <1>8 DEF n, r

\* The data that follow the buffer extend it.
LEMMA DataKeeps ==
    ASSUME AllWellFormed, HexIInv, Data
    PROVE  HexIInv'
<1> DEFINE d == parser.line.data
           q == After(Processed)
<1>1. /\ Fresh({"data"}) /\ parser.binary_version = 0 /\ RecordAddr(parser) = Next_addr
      /\ parsed' = parsed + 1 /\ buf' = buf \o d
      /\ parser' = Toggle(q) /\ pc' = "scan" /\ start' = start /\ status' = status
      /\ blob' = blob /\ flashed' = flashed /\ file' = file /\ pos' = pos /\ aligned' = aligned
  BY DEF Data, Continue, Consume, Quiet, IsContiguous, Next_addr
<1>2. /\ HexTypes /\ BlobState /\ ~Skipping /\ ~Ended /\ ~Pending /\ WellFormed(file)
      /\ pc = "scan" /\ parsed < Len(blob)
      /\ parser.line.type \in {"data"} /\ parser.line.sound /\ parser.idx + 1 = RecordBytes
  BY <1>1, AtFresh
<1>3. PICK i \in 0 .. Lines(file) - 1 :
         /\ ScanState(i, 2 * RecordBytes, i)
         /\ i \in 0 .. Lines(file) /\ i + 1 \in 0 .. Lines(file)
         /\ LineLength - 1 \in 0 .. LineLength - 1
         /\ LineAt(i) + (LineLength - 1) = LineAt(i) + (2 * RecordBytes) + 1
         /\ parser.line = RecordAt(file, i)
         /\ RecordFits(file, i) /\ BlocksFit(file, i)
  BY <1>1, AtFresh
<1>4. d \in Seq(BytesOf(file)) /\ Len(d) \in Nat /\ parser.line.value \in Nat
  <2>1. d \in Seq(BytesOf(file)) /\ parser.line.value \in Nat
    BY <1>2, <1>3, RecordIs
  <2> QED BY <2>1, LenProperties
<1>5. /\ Next_addr \in Nat /\ buf \in Seq(BytesOf(file)) /\ Len(buf) \in Nat /\ Len(buf) <= Next_addr
      /\ Len(blob) \in Nat /\ parsed \in Nat /\ pos \in Nat /\ Consumed = (pos - Len(blob)) + parsed
      /\ flashed \in Seq(Cells(file)) /\ aligned \in BOOLEAN /\ Consumed \in Nat
  BY <1>2, TypesAre DEF HexTypes
<1>6. buf' \in Seq(BytesOf(file)) /\ Len(buf') = Len(buf) + Len(d)
  BY <1>1, <1>4, <1>5, ConcatProperties
<1> HIDE DEF d
<1>7. /\ parser'.line = parser.line /\ parser'.binary_version = 0 /\ parser'.record_processed
      /\ Next_addr' = Next_addr + Len(d) /\ ~Skipping' /\ ~Pending'
      /\ parser' \in ParserType(file)
  <2> DEFINE pr == Processed
  <2>1. /\ pr.line = parser.line /\ pr.idx = RecordBytes /\ pr.record_processed = TRUE
        /\ pr.low_nibble = parser.low_nibble
        /\ pr.load_unaligned_record = parser.load_unaligned_record
        /\ pr.skip_until_aligned = parser.skip_until_aligned
        /\ pr.binary_version = parser.binary_version
        /\ pr.next_address_to_write = parser.next_address_to_write
        /\ pr \in ParserType(file)
    BY <1>2, ProcessedIs
  <2>2. RecordAddr(pr) = RecordAddr(parser)
    BY <2>1 DEF RecordAddr
  <2>3. q = [pr EXCEPT !.next_address_to_write = Next_addr + Len(d)]
    BY <1>1, <2>1, <2>2 DEF After, d
  <2> HIDE DEF q, pr
  <2>4. parser' = [line |-> parser.line, next_address_to_write |-> Next_addr + Len(d),
                   low_nibble |-> ~parser.low_nibble, idx |-> RecordBytes, record_processed |-> TRUE,
                   load_unaligned_record |-> parser.load_unaligned_record,
                   skip_until_aligned |-> parser.skip_until_aligned, binary_version |-> 0]
    BY <1>1, <2>1, <2>3 DEF Toggle, ParserType
  <2>5. /\ parser.line \in Records(file) /\ parser.low_nibble \in BOOLEAN /\ RecordBytes \in 0 .. RecordBytes + 1
        /\ parser.load_unaligned_record \in BOOLEAN /\ parser.skip_until_aligned \in BOOLEAN
        /\ Next_addr + Len(d) \in Nat
    <3>1. RecordBytes \in 0 .. RecordBytes + 1
      <4>1. RecordBytes \in Nat
        BY LinesLie
      <4> QED BY <4>1
    <3>2. /\ parser.line \in Records(file) /\ parser.low_nibble \in BOOLEAN
          /\ parser.load_unaligned_record \in BOOLEAN /\ parser.skip_until_aligned \in BOOLEAN
      BY <1>2, ParserIs
    <3>3. Next_addr + Len(d) \in Nat
      BY <1>4, <1>5
    <3> QED BY <3>1, <3>2, <3>3
  <2>6. parser' \in ParserType(file)
    BY <2>4, <2>5 DEF ParserType
  <2>7. /\ parser'.line = parser.line /\ parser'.binary_version = 0 /\ parser'.record_processed = TRUE
        /\ parser'.next_address_to_write = Next_addr + Len(d)
        /\ parser'.load_unaligned_record = parser.load_unaligned_record
        /\ parser'.skip_until_aligned = parser.skip_until_aligned
    BY <2>4
  <2> QED BY <1>2, <2>6, <2>7 DEF Next_addr, Skipping, Pending
<1> HIDE DEF q
<1>8. HexTypes'
  <2>1. parser'.idx \in 0 .. RecordBytes + 1
    BY <1>7 DEF ParserType
  <2>2. parsed' \in 0 .. Len(blob')
    BY <1>1, <1>2, <1>5
  <2>3. HexTypeOK'
    BY <1>1, <1>2, <2>1, <2>2 DEF HexTypes, HexTypeOK
  <2>4. Len(buf') <= Next_addr'
    BY <1>4, <1>5, <1>6, <1>7
  <2> QED BY <1>1, <1>2, <1>6, <1>7, <2>3, <2>4 DEF HexTypes
<1>9. BlobState'
  BY <1>1, <1>2 DEF BlobState
<1>10. ~Failing' /\ ~Ended'
  BY <1>1, <1>2, <1>7 DEF Failing, Ended
<1>11. /\ ~MeansAt(file, i).ended /\ MeansAt(file, i).version = 0
       /\ aligned => Based(file, Next_addr, MeansAt(file, i), i)
       /\ HeldIs(MeansAt(file, i).bytes) /\ LineAt(i) + (2 * RecordBytes) = Consumed
  BY <1>1, <1>3 DEF ScanState, VersionIs
<1> DEFINE m == MeansAt(file, i)
           n == MeansAt(file, i + 1)
<1>12. /\ m.base \in Nat /\ m.bytes \in Seq(Cells(file)) /\ n.bytes \in Seq(Cells(file))
  BY <1>2, <1>3, MeansType
<1>13. /\ ~n.ended /\ n.version = 0 /\ n.base = m.base
       /\ n.bytes = m.bytes \o Located(m.base + parser.line.value, d)
  <2> DEFINE r == RecordAt(file, i)
  <2>1. r.sound /\ r.type = "data" /\ r.type # "eof" /\ r.type # "meta" /\ ~IsExtended(r)
        /\ r.value = parser.line.value /\ r.data = d
    BY <1>2, <1>3 DEF IsExtended, d
  <2>2. /\ ~n.ended
        /\ n.version = (IF r.type = "meta" THEN r.value ELSE m.version)
        /\ n.base = (IF IsExtended(r) THEN r.value ELSE m.base)
        /\ n.bytes = (IF r.type = "data" /\ m.version = 0
                      THEN m.bytes \o Located(m.base + r.value, r.data) ELSE m.bytes)
    BY <1>2, <1>11, <2>1, MeantIs
  <2> HIDE DEF m, n, r
  <2>3. m.version = 0
    BY <1>11 DEF m
  <2> QED BY <2>1, <2>2, <2>3
<1>14. aligned => High(Next_addr) = m.base
  <2>1. i < Lines(file)
    BY <1>2, FileLength
  <2> QED BY <1>2, <1>3, <1>11, <2>1 DEF Based
<1>15. aligned => Based(file, Next_addr + Len(d), n, i + 1)
  <2> SUFFICES ASSUME aligned
               PROVE  Based(file, Next_addr + Len(d), n, i + 1)
    OBVIOUS
  <2>1. High(Next_addr) = n.base
    BY <1>13, <1>14
  <2>2. High(Next_addr) + RecordAt(file, i).value = Next_addr
    BY <1>1, <1>3 DEF RecordAddr, Next_addr
  <2>3. Len(d) = Len(RecordAt(file, i).data) /\ RecordAt(file, i).type = "data"
    BY <1>2, <1>3 DEF d
  <2> HIDE DEF n
  <2>4. Based(file, High(Next_addr) + RecordAt(file, i).value + Len(RecordAt(file, i).data), n, i + 1)
    BY <1>2, <1>5, <2>1, <2>3, DataBased
  <2> QED BY <2>2, <2>3, <2>4
<1>16. Out' = Out \o Located(Next_addr, d)
  <2>1. BufferAt = Next_addr - Len(buf) /\ BufferAt' = Next_addr - Len(buf)
    <3>1. BufferAt' = (Next_addr + Len(d)) - (Len(buf) + Len(d))
      BY <1>1, <1>6, <1>7 DEF BufferAt
    <3> QED BY <1>2, <1>4, <1>5, <3>1 DEF BufferAt
  <2>2. BufferAt \in Nat /\ BufferAt + Len(buf) = Next_addr
    BY <1>5, <2>1
  <2>3. Located(BufferAt, buf \o d) = Located(BufferAt, buf) \o Located(BufferAt + Len(buf), d)
    <3>1. BufferAt \in Nat /\ d \in Seq(BytesOf(file)) /\ buf \in Seq(BytesOf(file))
      BY <1>4, <1>5, <2>2
    <3>2. Located(BufferAt, Cat(buf, d)) = Cat(Located(BufferAt, buf), Located(BufferAt + Len(buf), d))
      BY <3>1, LocatedConcat
    <3> QED BY <3>2 DEF Cat
  <2>4. Located(BufferAt, buf) \in Seq(Cells(file)) /\ Located(Next_addr, d) \in Seq(Cells(file))
    BY <1>4, <1>5, <2>2, LocatedSeq DEF Cells
  <2>5. Out' = flashed \o (Located(BufferAt, buf) \o Located(Next_addr, d))
    BY <1>1, <2>1, <2>2, <2>3 DEF Out
  <2>6. (flashed \o Located(BufferAt, buf)) \o Located(Next_addr, d) = flashed \o (Located(BufferAt, buf) \o Located(Next_addr, d))
    <3>1. flashed \in Seq(Cells(file))
      BY <1>5
    <3>2. Cat(Cat(flashed, Located(BufferAt, buf)), Located(Next_addr, d))
            = Cat(flashed, Cat(Located(BufferAt, buf), Located(Next_addr, d)))
      BY <2>4, <3>1, CatAssociative
    <3> QED BY <3>2 DEF Cat
  <2> QED BY <2>5, <2>6 DEF Out
<1>17. aligned => Out' = n.bytes
  <2>1. aligned => Out = m.bytes
    BY <1>2, <1>11, OutIs DEF HeldIs
  <2>2. aligned => m.base + parser.line.value = Next_addr
    BY <1>1, <1>14 DEF RecordAddr, Next_addr
  <2> QED BY <1>13, <1>16, <2>1, <2>2
<1>18. Out' \in Seq(Cells(file)) /\ Held' = Out'
  <2>1. Out' \in Seq(Cells(file))
    <3>1. Out \in Seq(Cells(file)) /\ Located(Next_addr, d) \in Seq(Cells(file))
      BY <1>2, <1>4, <1>5, OutIs, LocatedSeq DEF Cells
    <3> QED BY <1>16, <3>1, ConcatProperties
  <2>2. Out' \o << >> = Out'
    BY <2>1, ConcatEmptySeq
  <2> QED BY <1>7, <2>1, <2>2 DEF Held
<1>19. PICK s : s = n.bytes
  OBVIOUS
<1>20. Justified(s)'
  <2>1. Justified(m.bytes)
    BY <1>11 DEF HeldIs
  <2>2. IsPrefix(m.bytes, n.bytes)
    <3>1. i <= i + 1
      OBVIOUS
    <3> QED BY <1>2, <1>3, <3>1, MeansGrow
  <2>3. Justified(s)
    <3> HIDE DEF m, n
    <3> QED BY <1>12, <1>19, <2>1, <2>2, JustifiedGrows
  <2>4. \A k \in DOMAIN d : Among(d[k], s)
    <3> HIDE DEF n, m
    <3>1. m.base + parser.line.value \in Nat /\ m.bytes \in Seq(Nat \X BytesOf(file))
      BY <1>4, <1>12 DEF Cells
    <3>2. \A k \in DOMAIN d : Among(d[k], m.bytes \o Located(m.base + parser.line.value, d))
      BY <1>4, <3>1, AmongLocated
    <3> QED BY <1>13, <1>19, <3>2
  <2>5. ASSUME NEW k \in DOMAIN buf'
        PROVE  Among(buf'[k], s)
    <3>1. k \in 1 .. Len(buf) + Len(d)
      BY <1>6, <2>5, LenProperties
    <3>2. (buf \o d)[k] = IF k <= Len(buf) THEN buf[k] ELSE d[k - Len(buf)]
      BY <1>4, <1>5, <3>1, ConcatProperties
    <3>3. CASE k <= Len(buf)
      <4>1. k \in DOMAIN buf
        BY <1>5, <3>1, <3>3, LenProperties
      <4> QED BY <1>1, <2>3, <3>2, <3>3, <4>1 DEF Justified
    <3>4. CASE ~(k <= Len(buf))
      <4>1. k - Len(buf) \in 1 .. Len(d) /\ DOMAIN d = 1 .. Len(d)
        BY <1>4, <1>5, <3>1, <3>4, LenProperties
      <4> QED BY <1>1, <2>4, <3>2, <3>4, <4>1
    <3> QED BY <3>3, <3>4
  <2>6. \A k \in DOMAIN flashed' : Among(flashed'[k][2], s)
    BY <1>1, <2>3 DEF Justified
  <2> QED BY <1>7, <2>5, <2>6 DEF Justified
<1>21. ScanState(i, LineLength - 1, i + 1)'
  <2>1. MeansAt(file, i + 1)' = MeansAt(file, i + 1)
    BY <1>1
  <2>2. Consumed' = Consumed + 1
    BY <1>1, <1>5 DEF Consumed
  <2>3. LineAt(i) + (LineLength - 1) = Consumed'
    BY <1>3, <1>11, <2>2
  <2>4. LineState(i, LineLength - 1, i + 1)'
    BY DEF LineState
  <2>5. VersionIs(MeansAt(file, i + 1))'
    BY <1>1, <1>7, <1>13, <2>1 DEF VersionIs
  <2>6. PendingIs(MeansAt(file, i + 1), i + 1)'
    BY <1>7 DEF PendingIs
  <2>7. HeldIs(MeansAt(file, i + 1).bytes)'
    <3>1. HeldIs(s)'
      BY <1>1, <1>17, <1>18, <1>19, <1>20 DEF HeldIs
    <3> QED BY <1>19, <2>1, <3>1 DEF HeldIs, Justified
  <2>8. aligned' => Based(file', Next_addr', MeansAt(file, i + 1)', i + 1)
    BY <1>1, <1>7, <1>15, <2>1
  <2>9. ~MeansAt(file, i + 1).ended'
    BY <1>13, <2>1
  <2>10. pc' # "parsed"
    BY <1>1
  <2> HIDE DEF n, m
  <2> QED BY <2>3, <2>4, <2>5, <2>6, <2>7, <2>8, <2>9, <2>10 DEF ScanState
<1>22. Scans'
  BY <1>1, <1>3, <1>21 DEF Scans
<1> QED BY <1>7, <1>8, <1>9, <1>10, <1>22 DEF HexIInv

-----------------------------------------------------------------------------
(***************************************************************************)
(* The exits of the parser.                                                *)
(***************************************************************************)

\* The parser returns, and start is where the data of the buffer begin.
Returns ==
    /\ pc = "scan" /\ pc' = "parsed" /\ parsed' \in 0 .. Len(blob)
    /\ buf' = buf /\ start' = Next_addr - Len(buf) /\ Quiet
    /\ status' \in {"OK", "EOF", "UNALIGNED", "CKSUM_FAIL"}

\* Then types and chunk stay what they are, and what is out stays out.
LEMMA ReturnsKeep ==
    ASSUME AllWellFormed, HexTypes, BlobState, Returns, parser' \in ParserType(file)
    PROVE  /\ HexTypes' /\ BlobState' /\ Out' = Out
           /\ ~Pending' => Held' = Out
           /\ Failing' <=> status' = "CKSUM_FAIL"
<1>1. /\ pc = "scan" /\ pc' = "parsed" /\ parsed' \in 0 .. Len(blob)
      /\ buf' = buf /\ start' = Next_addr - Len(buf)
      /\ blob' = blob /\ flashed' = flashed /\ file' = file /\ pos' = pos /\ aligned' = aligned
      /\ status' \in {"OK", "EOF", "UNALIGNED", "CKSUM_FAIL"}
  BY DEF Returns, Quiet
<1>2. Next_addr \in Nat /\ Len(buf) \in Nat /\ Len(buf) <= Next_addr
  BY <1>1, TypesAre DEF HexTypes
<1>3. HexTypes'
  <2>1. parser'.idx \in 0 .. RecordBytes + 1
    BY DEF ParserType
  <2>2. start' \in Nat
    BY <1>1, <1>2
  <2>3. HexTypeOK'
    BY <1>1, <2>1, <2>2 DEF HexTypeOK
  <2> QED BY <1>1, <2>3 DEF HexTypes
<1>4. BlobState'
  BY <1>1 DEF BlobState
<1>5. Out' = Out
  BY <1>1 DEF Out, BufferAt
<1>6. ~Pending' => Held' = Out
  <2>1. Out \in Seq(Cells(file))
    BY OutIs
  <2>2. Out \o << >> = Out
    BY <2>1, ConcatEmptySeq
  <2> QED BY <1>5, <2>2 DEF Held
<1>7. Failing' <=> status' = "CKSUM_FAIL"
  BY <1>1 DEF Failing
<1> QED BY <1>3, <1>4, <1>5, <1>6, <1>7

\* The end of what has been fed.
LEMMA EndOfBlobKeeps ==
    ASSUME AllWellFormed, HexIInv, EndOfBlob
    PROVE  HexIInv'
<1>1. /\ pc = "scan" /\ pc' = "parsed" /\ parsed = Len(blob) /\ parsed' = parsed /\ buf' = buf
      /\ parser' = parser /\ status' = "OK" /\ start' = Next_addr - Len(buf)
      /\ blob' = blob /\ flashed' = flashed /\ file' = file /\ pos' = pos /\ aligned' = aligned
  BY DEF EndOfBlob, Leave, Exit, Quiet, Next_addr
<1>2. HexTypes /\ BlobState /\ ~Failing /\ ~Skipping
  BY <1>1 DEF HexIInv, Failing, SkipState
<1>3. parser' \in ParserType(file) /\ Skipping' = Skipping /\ Ended' = Ended /\ Pending' = Pending
  <2>1. parser \in ParserType(file)
    BY <1>2, TypesAre
  <2> QED BY <1>1, <2>1 DEF Skipping, Ended, Pending
<1>4. Returns
  <2>1. parsed' \in 0 .. Len(blob)
    BY <1>1, <1>2 DEF HexTypes, HexTypeOK
  <2> QED BY <1>1, <2>1 DEF Returns, Quiet
<1>5. HexTypes' /\ BlobState' /\ Out' = Out /\ (~Pending' => Held' = Out) /\ ~Failing'
  BY <1>1, <1>2, <1>3, <1>4, ReturnsKeep
<1>6. ASSUME NEW s, HeldIs(s), ~Pending
      PROVE  HeldIs(s)'
  <2>1. Held = Out
    BY <1>2, <1>6, OutIs
  <2> QED BY <1>1, <1>3, <1>5, <1>6, <2>1 DEF HeldIs, Justified, Pending
<1>7. CASE Ended
  <2>1. EndState
    BY <1>2, <1>7 DEF HexIInv
  <2>2. PICK s : s = MeansAt(file, Lines(file)).bytes
    OBVIOUS
  <2>3. HeldIs(s)'
    BY <1>6, <2>1, <2>2 DEF EndState
  <2>4. HeldIs(MeansAt(file, Lines(file)).bytes)'
    BY <1>1, <2>2, <2>3 DEF HeldIs, Justified
  <2>5. EndState'
    BY <1>1, <1>3, <2>1, <2>4 DEF EndState
  <2> QED BY <1>2, <1>3, <1>5, <1>7, <2>5 DEF HexIInv
<1>8. CASE ~Ended
  <2>1. PICK i \in 0 .. Lines(file), o \in 0 .. LineLength - 1, c \in 0 .. Lines(file) : ScanState(i, o, c)
    BY <1>2, <1>8 DEF HexIInv, Scans
  <2>2. ~Pending
    BY <1>1, <2>1 DEF ScanState, PendingIs
  <2>3. PICK s : s = MeansAt(file, c).bytes
    OBVIOUS
  <2>4. HeldIs(s)'
    BY <1>6, <2>1, <2>2, <2>3 DEF ScanState
  <2>5. ScanState(i, o, c)'
    <3>1. LineAt(i) + o = Consumed'
      BY <1>1, <2>1 DEF ScanState, Consumed
    <3>2. LineState(i, o, c)'
      <4>1. ~(parsed < Len(blob))
        BY <1>1, <1>2, TypesAre
      <4> QED BY <1>1, <2>1, <4>1 DEF ScanState, LineState
    <3>3. parsed' = Len(blob')
      BY <1>1
    <3>4. VersionIs(MeansAt(file, c))' /\ ~MeansAt(file, c).ended'
          /\ (aligned' => Based(file', Next_addr', MeansAt(file, c)', c))
      BY <1>1, <2>1 DEF ScanState, VersionIs, Next_addr
    <3>5. PendingIs(MeansAt(file, c), c)'
      BY <1>3, <2>2 DEF PendingIs
    <3>6. HeldIs(MeansAt(file, c).bytes)'
      BY <1>1, <2>3, <2>4 DEF HeldIs, Justified
    <3> QED BY <3>1, <3>2, <3>3, <3>4, <3>5, <3>6 DEF ScanState
  <2>6. Scans'
    BY <1>1, <2>1, <2>5 DEF Scans
  <2> QED BY <1>2, <1>3, <1>5, <1>8, <2>6 DEF HexIInv
<1> QED BY <1>7, <1>8

\* The line of the parser is a record, with its address.
LEMMA LineTypes ==
    ASSUME AllWellFormed, HexTypes, BlobState
    PROVE  /\ parser.line.value \in Nat /\ parser.line.data \in Seq(BytesOf(file))
           /\ RecordAddr(parser) \in Nat
<1>1. WellFormed(file) /\ Next_addr \in Nat
  BY TypesAre
<1>2. parser.line.value \in Nat /\ parser.line.data \in Seq(BytesOf(file))
  <2>1. CASE parser.line = NoRecord
    BY <2>1 DEF NoRecord
  <2>2. CASE parser.line # NoRecord
    <3>1. PICK i \in 0 .. Lines(file) - 1 : parser.line = RecordAt(file, i)
      BY <2>2, ParserIs DEF Records
    <3> QED BY <1>1, <3>1, RecordIs
  <2> QED BY <2>1, <2>2
<1>3. High(Next_addr) \in Nat
  BY <1>1, HighIs
<1>4. RecordAddr(parser) = High(Next_addr) + parser.line.value
  BY DEF RecordAddr, Next_addr
<1> QED BY <1>2, <1>3, <1>4

\* What is held is a sequence of cells, and the flash has the first of them.
LEMMA HeldTypes ==
    ASSUME AllWellFormed, HexTypes, BlobState
    PROVE  Held \in Seq(Cells(file)) /\ IsPrefix(Out, Held) /\ IsPrefix(flashed, Held)
<1>1. WellFormed(file) /\ flashed \in Seq(Cells(file)) /\ Next_addr \in Nat
  BY TypesAre
<1>2. Out \in Seq(Cells(file)) /\ Located(BufferAt, buf) \in Seq(Cells(file))
  BY OutIs
<1>3. parser.line.value \in Nat /\ parser.line.data \in Seq(BytesOf(file)) /\ RecordAddr(parser) \in Nat
  BY LineTypes
<1> DEFINE t == IF Pending THEN Located(RecordAddr(parser), parser.line.data) ELSE << >>
<1>4. t \in Seq(Cells(file))
  <2>1. Located(RecordAddr(parser), parser.line.data) \in Seq(Cells(file))
    BY <1>3, LocatedSeq DEF Cells
  <2> QED BY <2>1
<1>5. Held = Out \o t
  BY DEF Held
<1> HIDE DEF t
<1>6. Held \in Seq(Cells(file)) /\ IsPrefix(Out, Held)
  BY <1>2, <1>4, <1>5, ConcatProperties, PrefixOfConcat
<1>7. IsPrefix(flashed, Out)
  BY <1>1, <1>2, PrefixOfConcat DEF Out
<1>8. IsPrefix(flashed, Held)
  BY <1>1, <1>2, <1>6, <1>7, PrefixTransitive
<1> QED BY <1>6, <1>8

\* If lines that have been fed say what is held, the flash has a part of what the
\* characters say.
LEMMA FlashedIsPrefix ==
    ASSUME AllWellFormed, HexTypes, BlobState, NEW c \in 0 .. Lines(file), c <= Count(file, pos),
           Justified(MeansAt(file, Count(file, pos)).bytes), aligned => Held = MeansAt(file, c).bytes
    PROVE  FailState
<1>1. WellFormed(file) /\ pos \in 0 .. Len(file) /\ flashed \in Seq(Cells(file))
  BY TypesAre
<1>2. Count(file, pos) \in 0 .. Lines(file)
  BY <1>1, CountType
<1>3. Meaning(pos) = MeansAt(file, Count(file, pos)).bytes
  BY <1>1, MeaningIs DEF Meaning
<1>4. \A k \in DOMAIN flashed : Among(flashed[k][2], Meaning(pos))
  BY <1>3 DEF Justified
<1>5. aligned => IsPrefix(flashed, Meaning(pos))
  <2> SUFFICES ASSUME aligned
               PROVE  IsPrefix(flashed, Meaning(pos))
    OBVIOUS
  <2>1. IsPrefix(Held, Meaning(pos))
    BY <1>1, <1>2, <1>3, MeansGrow
  <2>2. Held \in Seq(Cells(file)) /\ IsPrefix(flashed, Held) /\ Meaning(pos) \in Seq(Cells(file))
    BY <1>1, <1>2, <1>3, HeldTypes, MeansType
  <2> QED BY <1>1, <2>1, <2>2, PrefixTransitive
<1> QED BY <1>4, <1>5 DEF FailState

\* So it is when they justify it.
LEMMA HeldIsMeant ==
    ASSUME AllWellFormed, HexTypes, BlobState, NEW c \in 0 .. Lines(file), c <= Count(file, pos),
           HeldIs(MeansAt(file, c).bytes)
    PROVE  FailState
<1>1. Count(file, pos) \in 0 .. Lines(file)
  BY TypesAre, CountType
<1>2. Justified(MeansAt(file, c).bytes) /\ (aligned => Held = MeansAt(file, c).bytes)
  BY DEF HeldIs
<1>3. Justified(MeansAt(file, Count(file, pos)).bytes)
  BY <1>1, <1>2, ByLines
<1> QED BY <1>2, <1>3, FlashedIsPrefix

\* Behind a character of a line the lines before it have been counted.
LEMMA CountOf ==
    ASSUME AllWellFormed, HexTypes, BlobState, NEW i \in 0 .. Lines(file), NEW o \in 0 .. LineLength - 1,
           LineAt(i) + o <= pos
    PROVE  /\ i <= Count(file, pos) /\ Count(file, pos) \in 0 .. Lines(file)
           /\ LineAt(i) + (2 * RecordBytes) < pos => i + 1 <= Count(file, pos)
           /\ o = LineLength - 1 => i + 1 <= Count(file, pos)
<1>1. WellFormed(file) /\ pos \in 0 .. Len(file) /\ Lines(file) \in Nat /\ i \in Nat /\ i + 1 \in Nat /\ pos \in Nat
  BY TypesAre
<1> DEFINE d == Count(file, pos)
<1>2. d \in 0 .. Lines(file) /\ pos + 1 < LineAt(d + 1)
  BY <1>1, CountType
<1> HIDE DEF d
<1>3. /\ LineLength = (2 * RecordBytes) + 2 /\ LineLength \in Nat /\ RecordBytes \in Nat
      /\ LineAt(i) \in Nat /\ LineAt(i + 1) = LineAt(i) + LineLength
      /\ d \in Nat /\ LineAt(d) \in Nat /\ LineAt(d + 1) = LineAt(d) + LineLength
  <2>1. d \in Nat
    BY <1>1, <1>2
  <2> QED BY <1>1, <2>1, LinesLie
<1>4. d < i => LineAt(d) + LineLength <= LineAt(i)
  BY <1>1, <1>3, LinesLie
<1>5. d < i + 1 => LineAt(d) + LineLength <= LineAt(i + 1)
  BY <1>1, <1>3, LinesLie
<1>6. i <= d
  BY <1>1, <1>2, <1>3, <1>4
<1>7. LineAt(i + 1) <= pos + 1 => i + 1 <= d
  <2> SUFFICES ASSUME LineAt(i + 1) <= pos + 1, d < i + 1
               PROVE  FALSE
    BY <1>1, <1>3
  <2>1. LineAt(d + 1) <= LineAt(i + 1)
    BY <1>3, <1>5
  <2> QED BY <1>1, <1>2, <1>3, <2>1
<1>8. LineAt(i) + (2 * RecordBytes) < pos => LineAt(i + 1) <= pos + 1
  <2>1. LineAt(i + 1) = (LineAt(i) + (2 * RecordBytes)) + 2
    BY <1>3
  <2>2. LineAt(i) + (2 * RecordBytes) \in Nat
    BY <1>3
  <2> QED BY <1>1, <2>1, <2>2
<1>9. o = LineLength - 1 => LineAt(i + 1) <= pos + 1
  BY <1>1, <1>3
<1> QED BY <1>2, <1>6, <1>7, <1>8, <1>9 DEF d

\* A record that is garbled ends the programming of the file.
LEMMA ChecksumFailsKeeps ==
    ASSUME AllWellFormed, HexIInv, ChecksumFails
    PROVE  HexIInv'
<1>1. /\ Complete /\ pc' = "parsed" /\ parsed' = parsed /\ buf' = buf
      /\ parser' = Counted /\ status' = "CKSUM_FAIL"
      /\ blob' = blob /\ flashed' = flashed /\ file' = file /\ pos' = pos /\ aligned' = aligned
      /\ start' = Counted.next_address_to_write - Len(buf)
  BY DEF ChecksumFails, Leave, Exit, Quiet
<1>2. HexTypes /\ BlobState /\ ~Pending /\ WellFormed(file) /\ pc = "scan" /\ parsed < Len(blob)
  BY <1>1, AtLast
<1>3. PICK i \in 0 .. Lines(file) - 1, c \in 0 .. Lines(file) :
         /\ ScanState(i, 2 * RecordBytes, c)
         /\ i \in 0 .. Lines(file) /\ i + 1 \in 0 .. Lines(file) /\ 2 * RecordBytes \in 0 .. LineLength - 1
         /\ LineAt(i) + (2 * RecordBytes) < pos
         /\ IF parser.record_processed
            THEN c = i + 1 /\ parser.idx = RecordBytes
            ELSE c = i /\ parser.idx + 1 = RecordBytes
  BY <1>1, AtLast
<1>4. parser \in ParserType(file) /\ parser.idx + 1 \in 0 .. RecordBytes + 1
  <2>1. RecordBytes \in Nat
    BY LinesLie
  <2>2. parser.idx \in 0 .. RecordBytes + 1 /\ parser \in ParserType(file)
    BY <1>2, ParserIs, TypesAre
  <2>3. parser.idx = RecordBytes \/ parser.idx + 1 = RecordBytes
    BY <1>3
  <2> QED BY <2>1, <2>2, <2>3
<1>5. /\ Counted \in ParserType(file)
      /\ Counted.next_address_to_write = Next_addr
      /\ Counted.load_unaligned_record = parser.load_unaligned_record
  BY <1>4 DEF Counted, ParserType, Next_addr
<1>6. Returns
  <2>1. parsed' \in 0 .. Len(blob)
    BY <1>1, <1>2 DEF HexTypes, HexTypeOK
  <2> QED BY <1>1, <1>2, <1>5, <2>1 DEF Returns, Quiet
<1>7. HexTypes' /\ BlobState' /\ Failing'
  BY <1>1, <1>2, <1>5, <1>6, ReturnsKeep
<1>8. c <= Count(file, pos)
  <2>1. LineAt(i) + (2 * RecordBytes) <= pos
    <3>1. pos \in Nat /\ LineAt(i) \in Nat /\ RecordBytes \in Nat
      <4>1. i \in Nat /\ pos \in Nat
        BY <1>2, TypesAre
      <4> QED BY <4>1, LinesLie
    <3> QED BY <1>3, <3>1
  <2> QED BY <1>2, <1>3, <2>1, CountOf
<1>9. FailState
  <2>1. HeldIs(MeansAt(file, c).bytes)
    BY <1>3 DEF ScanState
  <2> QED BY <1>2, <1>8, <2>1, HeldIsMeant
<1>10. FailState'
  BY <1>1, <1>9 DEF FailState, Meaning
<1> QED BY <1>7, <1>10 DEF HexIInv

\* Data that do not follow the buffer are loaded by the next call.
LEMMA DataUnalignedKeeps ==
    ASSUME AllWellFormed, HexIInv, DataUnaligned
    PROVE  HexIInv'
<1> DEFINE d == parser.line.data
           q == [Processed EXCEPT !.load_unaligned_record = TRUE]
<1>1. /\ Fresh({"data"}) /\ parser.binary_version = 0
      /\ parsed' = parsed + 1 /\ buf' = buf
      /\ parser' = q /\ pc' = "parsed" /\ status' = "UNALIGNED"
      /\ start' = q.next_address_to_write - Len(buf)
      /\ blob' = blob /\ flashed' = flashed /\ file' = file /\ pos' = pos /\ aligned' = aligned
  BY DEF DataUnaligned, Leave, Exit, Consume, Quiet
<1>2. /\ HexTypes /\ BlobState /\ ~Skipping /\ ~Ended /\ ~Pending /\ WellFormed(file)
      /\ pc = "scan" /\ parsed < Len(blob)
      /\ parser.line.type \in {"data"} /\ parser.line.sound /\ parser.idx + 1 = RecordBytes
  BY <1>1, AtFresh
<1>3. PICK i \in 0 .. Lines(file) - 1 :
         /\ ScanState(i, 2 * RecordBytes, i)
         /\ i \in 0 .. Lines(file) /\ i + 1 \in 0 .. Lines(file)
         /\ LineLength - 1 \in 0 .. LineLength - 1
         /\ LineAt(i) + (LineLength - 1) = LineAt(i) + (2 * RecordBytes) + 1
         /\ parser.line = RecordAt(file, i)
         /\ RecordFits(file, i) /\ BlocksFit(file, i)
  BY <1>1, AtFresh
<1>4. d \in Seq(BytesOf(file)) /\ parser.line.value \in Nat
  BY <1>2, <1>3, RecordIs
<1>5. /\ Next_addr \in Nat /\ Len(blob) \in Nat /\ parsed \in Nat /\ pos \in Nat
      /\ Consumed = (pos - Len(blob)) + parsed
      /\ aligned \in BOOLEAN /\ Consumed \in Nat
  BY <1>2, TypesAre
<1>6. /\ q.line = parser.line /\ q.record_processed = TRUE /\ q.binary_version = 0
      /\ q.skip_until_aligned = parser.skip_until_aligned /\ q.load_unaligned_record = TRUE
      /\ q.next_address_to_write = Next_addr /\ q \in ParserType(file)
  <2> DEFINE pr == Processed
  <2>1. /\ pr.line = parser.line /\ pr.record_processed = TRUE
        /\ pr.skip_until_aligned = parser.skip_until_aligned
        /\ pr.binary_version = parser.binary_version
        /\ pr.next_address_to_write = parser.next_address_to_write
        /\ pr \in ParserType(file)
    BY <1>2, ProcessedIs
  <2> HIDE DEF pr
  <2>2. q = [pr EXCEPT !.load_unaligned_record = TRUE]
    BY DEF pr
  <2> QED BY <1>1, <2>1, <2>2 DEF ParserType, Next_addr
<1> HIDE DEF q
<1>7. /\ parser'.line = parser.line /\ parser'.binary_version = 0
      /\ ~Skipping' /\ Pending' /\ ~Ended' /\ Next_addr' = Next_addr
  BY <1>1, <1>2, <1>6 DEF Skipping, Pending, Ended, Next_addr
<1>8. Returns
  <2>1. parsed' \in 0 .. Len(blob)
    BY <1>1, <1>2, <1>5
  <2> QED BY <1>1, <1>2, <1>6, <2>1 DEF Returns, Quiet
<1>9. HexTypes' /\ BlobState' /\ Out' = Out /\ ~Failing'
  BY <1>1, <1>2, <1>6, <1>8, ReturnsKeep
<1> DEFINE m == MeansAt(file, i)
           n == MeansAt(file, i + 1)
<1>10. /\ ~m.ended /\ m.version = 0
       /\ aligned => Based(file, Next_addr, m, i)
       /\ HeldIs(m.bytes) /\ LineAt(i) + (2 * RecordBytes) = Consumed
  BY <1>1, <1>3 DEF ScanState, VersionIs
<1>11. m.base \in Nat /\ m.bytes \in Seq(Cells(file)) /\ n.bytes \in Seq(Cells(file))
  BY <1>2, <1>3, MeansType
<1>12. /\ ~n.ended /\ n.version = 0 /\ n.base = m.base
       /\ n.bytes = m.bytes \o Located(m.base + parser.line.value, d)
  <2> DEFINE r == RecordAt(file, i)
  <2>1. r.sound /\ r.type = "data" /\ r.type # "eof" /\ r.type # "meta" /\ ~IsExtended(r)
        /\ r.value = parser.line.value /\ r.data = d
    BY <1>2, <1>3 DEF IsExtended
  <2>2. /\ ~n.ended
        /\ n.version = (IF r.type = "meta" THEN r.value ELSE m.version)
        /\ n.base = (IF IsExtended(r) THEN r.value ELSE m.base)
        /\ n.bytes = (IF r.type = "data" /\ m.version = 0
                      THEN m.bytes \o Located(m.base + r.value, r.data) ELSE m.bytes)
    BY <1>2, <1>10, <2>1, MeantIs
  <2> HIDE DEF m, n, r, d
  <2> QED BY <1>10, <2>1, <2>2
<1>13. aligned => High(Next_addr) = m.base
  <2>1. i < Lines(file)
    BY <1>2, FileLength
  <2> QED BY <1>2, <1>3, <1>10, <2>1 DEF Based
<1>14. aligned => Held' = n.bytes
  <2> SUFFICES ASSUME aligned
               PROVE  Held' = n.bytes
    OBVIOUS
  <2>1. Out = m.bytes
    BY <1>2, <1>10, OutIs DEF HeldIs
  <2>2. RecordAddr(parser)' = m.base + parser.line.value /\ parser'.line.data = d
    BY <1>1, <1>6, <1>13 DEF RecordAddr
  <2>3. Held' = Out' \o Located(RecordAddr(parser)', parser'.line.data)
    BY <1>7 DEF Held
  <2> HIDE DEF m, n, d
  <2> QED BY <1>9, <1>12, <2>1, <2>2, <2>3
<1>15. PICK s : s = n.bytes
  OBVIOUS
<1>16. Justified(s)'
  <2>1. Justified(s)
    <3>1. i <= i + 1 /\ Justified(m.bytes)
      BY <1>10 DEF HeldIs
    <3>2. Justified(n.bytes)
      BY <1>2, <1>3, <3>1, ByLines
    <3> QED BY <1>15, <3>2
  <2>2. \A k \in DOMAIN d : Among(d[k], s)
    <3> HIDE DEF n, m, d
    <3>1. m.base + parser.line.value \in Nat /\ m.bytes \in Seq(Nat \X BytesOf(file))
      BY <1>4, <1>11 DEF Cells
    <3>2. \A k \in DOMAIN d : Among(d[k], m.bytes \o Located(m.base + parser.line.value, d))
      BY <1>4, <3>1, AmongLocated
    <3> QED BY <1>12, <1>15, <3>2
  <2> QED BY <1>1, <1>7, <2>1, <2>2 DEF Justified
<1>17. ScanState(i, LineLength - 1, i + 1)'
  <2>1. MeansAt(file, i + 1)' = MeansAt(file, i + 1)
    BY <1>1
  <2>2. LineAt(i) + (LineLength - 1) = Consumed'
    <3>1. Consumed' = Consumed + 1
      BY <1>1, <1>5 DEF Consumed
    <3> QED BY <1>3, <1>10, <3>1
  <2>3. LineState(i, LineLength - 1, i + 1)'
    BY DEF LineState
  <2>4. VersionIs(MeansAt(file, i + 1))'
    BY <1>1, <1>7, <1>12, <2>1 DEF VersionIs
  <2>5. PendingIs(MeansAt(file, i + 1), i + 1)'
    <3>1. i + 1 > 0 /\ (i + 1) - 1 = i
      BY <1>2, FileLength
    <3>2. parser'.line = RecordAt(file', (i + 1) - 1) /\ parser'.line.type = "data"
      BY <1>1, <1>2, <1>3, <1>7, <3>1
    <3>3. aligned' => High(Next_addr') = MeansAt(file, i + 1)'.base
      BY <1>1, <1>7, <1>12, <1>13, <2>1
    <3> QED BY <1>1, <1>7, <3>1, <3>2, <3>3 DEF PendingIs
  <2>6. HeldIs(MeansAt(file, i + 1).bytes)'
    <3>1. HeldIs(s)'
      BY <1>1, <1>14, <1>15, <1>16 DEF HeldIs
    <3> QED BY <1>15, <2>1, <3>1 DEF HeldIs, Justified
  <2>7. aligned' => Based(file', Next_addr', MeansAt(file, i + 1)', i + 1)
    BY <1>1, <1>7, <1>12, <1>13, <2>1 DEF Based
  <2>8. ~MeansAt(file, i + 1).ended'
    BY <1>12, <2>1
  <2> HIDE DEF n, m
  <2> QED BY <1>1, <2>2, <2>3, <2>4, <2>5, <2>6, <2>7, <2>8 DEF ScanState
<1>18. Scans'
  BY <1>1, <1>3, <1>17 DEF Scans
<1> QED BY <1>7, <1>9, <1>18 DEF HexIInv

\* At the end of the file all is said.
LEMMA EndOfFileKeeps ==
    ASSUME AllWellFormed, HexIInv, EndOfFile
    PROVE  HexIInv'
<1> DEFINE q == Processed
<1>1. /\ Fresh({"eof"}) /\ parsed' = parsed /\ buf' = buf
      /\ parser' = q /\ pc' = "parsed" /\ status' = "EOF"
      /\ start' = q.next_address_to_write - Len(buf)
      /\ blob' = blob /\ flashed' = flashed /\ file' = file /\ pos' = pos /\ aligned' = aligned
  BY DEF EndOfFile, Leave, Exit, Quiet
<1>2. /\ HexTypes /\ BlobState /\ ~Skipping /\ ~Ended /\ ~Pending /\ WellFormed(file)
      /\ pc = "scan" /\ parsed < Len(blob)
      /\ parser.line.type \in {"eof"} /\ parser.line.sound /\ parser.idx + 1 = RecordBytes
  BY <1>1, AtFresh
<1>3. PICK i \in 0 .. Lines(file) - 1 :
         /\ ScanState(i, 2 * RecordBytes, i)
         /\ LineAt(i) + (2 * RecordBytes) < pos
         /\ parser.line = RecordAt(file, i)
         /\ RecordFits(file, i)
  BY <1>1, AtFresh
<1>4. /\ q.line = parser.line /\ q.record_processed = TRUE
      /\ q.skip_until_aligned = parser.skip_until_aligned
      /\ q.load_unaligned_record = parser.load_unaligned_record
      /\ q.next_address_to_write = Next_addr /\ q \in ParserType(file)
  BY <1>2, ProcessedIs DEF Next_addr
<1> HIDE DEF q
<1>5. ~Skipping' /\ ~Pending' /\ Ended'
  BY <1>1, <1>2, <1>4 DEF Skipping, Pending, Ended
<1>6. Returns
  <2>1. parsed' \in 0 .. Len(blob)
    BY <1>1, <1>2 DEF HexTypes, HexTypeOK
  <2> QED BY <1>1, <1>2, <1>4, <2>1 DEF Returns, Quiet
<1>7. HexTypes' /\ BlobState' /\ Out' = Out /\ Held' = Out /\ ~Failing'
  BY <1>1, <1>2, <1>4, <1>5, <1>6, ReturnsKeep
<1>8. i + 1 = Lines(file)
  BY <1>2, <1>3 DEF RecordFits
<1>9. MeansAt(file, Lines(file)).bytes = MeansAt(file, i).bytes
  BY <1>2, <1>3, <1>8, EofAdds
<1>10. HeldIs(MeansAt(file, Lines(file)).bytes)
  BY <1>3, <1>9 DEF ScanState
<1>11. PICK s : s = MeansAt(file, Lines(file)).bytes
  OBVIOUS
<1>12. HeldIs(s)'
  <2>1. HeldIs(s)
    BY <1>10, <1>11
  <2>2. Held = Out
    BY <1>2, OutIs
  <2> QED BY <1>1, <1>5, <1>7, <2>1, <2>2 DEF HeldIs, Justified
<1>13. HeldIs(MeansAt(file, Lines(file)).bytes)'
  BY <1>1, <1>11, <1>12 DEF HeldIs, Justified
<1>14. pos >= Len(file) - 1 /\ Lines(file) > 0
  <2>1. /\ LineAt(i + 1) = LineAt(i) + LineLength /\ LineLength = (2 * RecordBytes) + 2
        /\ LineAt(i) \in Nat /\ RecordBytes \in Nat /\ pos \in Nat
        /\ Len(file) = LineAt(Lines(file)) /\ Lines(file) \in Nat /\ i \in Nat
    <3>1. i \in Nat /\ pos \in Nat /\ Len(file) = LineAt(Lines(file)) /\ Lines(file) \in Nat
      BY <1>2, TypesAre
    <3> QED BY <3>1, LinesLie
  <2> QED BY <1>3, <1>8, <2>1
<1>15. EndState'
  BY <1>1, <1>5, <1>13, <1>14 DEF EndState
<1> QED BY <1>5, <1>7, <1>15 DEF HexIInv

\* What is decoded is programmed before the high part of the address changes.
LEMMA ExtendedAddrKeeps ==
    ASSUME AllWellFormed, HexIInv, ExtendedAddr
    PROVE  HexIInv'
<1> DEFINE q == [Processed EXCEPT !.next_address_to_write = parser.line.value]
<1>1. /\ Fresh({"seg", "lin"}) /\ parsed' = parsed /\ buf' = buf
      /\ parser' = q /\ pc' = "parsed" /\ status' = "UNALIGNED"
      /\ start' = Next_addr - Len(buf)
      /\ blob' = blob /\ flashed' = flashed /\ file' = file /\ pos' = pos /\ aligned' = aligned
  BY DEF ExtendedAddr, Exit, Quiet, Next_addr
<1>2. /\ HexTypes /\ BlobState /\ ~Skipping /\ ~Ended /\ ~Pending /\ WellFormed(file)
      /\ pc = "scan" /\ parsed < Len(blob) /\ parser.low_nibble
      /\ parser.line.type \in {"seg", "lin"} /\ parser.line.sound /\ parser.idx + 1 = RecordBytes
  BY <1>1, AtFresh
<1>3. PICK i \in 0 .. Lines(file) - 1 :
         /\ ScanState(i, 2 * RecordBytes, i)
         /\ i \in 0 .. Lines(file) /\ i + 1 \in 0 .. Lines(file)
         /\ 2 * RecordBytes \in 0 .. LineLength - 1
         /\ parser.line = RecordAt(file, i)
         /\ RecordFits(file, i) /\ BlocksFit(file, i)
  BY <1>1, AtFresh
<1>4. parser.line.value \in Nat /\ High(parser.line.value) = parser.line.value
  <2>1. parser.line.value \in Nat
    BY <1>2, <1>3, RecordIs
  <2>2. parser.line.value % Low = 0
    BY <1>2, <1>3 DEF RecordFits, IsExtended
  <2> QED BY <2>1, <2>2, HighIs
<1>5. /\ q.line = parser.line /\ q.record_processed = TRUE /\ q.idx = RecordBytes /\ q.low_nibble
      /\ q.skip_until_aligned = parser.skip_until_aligned /\ q.binary_version = parser.binary_version
      /\ q.load_unaligned_record = parser.load_unaligned_record
      /\ q.next_address_to_write = parser.line.value /\ q \in ParserType(file)
  <2> DEFINE pr == Processed
  <2>1. /\ pr.line = parser.line /\ pr.record_processed = TRUE /\ pr.idx = RecordBytes
        /\ pr.low_nibble = parser.low_nibble
        /\ pr.skip_until_aligned = parser.skip_until_aligned
        /\ pr.load_unaligned_record = parser.load_unaligned_record
        /\ pr.binary_version = parser.binary_version
        /\ pr \in ParserType(file)
    BY <1>2, ProcessedIs
  <2> HIDE DEF pr
  <2>2. q = [pr EXCEPT !.next_address_to_write = parser.line.value]
    BY DEF pr
  <2> QED BY <1>2, <1>4, <2>1, <2>2 DEF ParserType
<1> HIDE DEF q
<1>6. ~Skipping' /\ ~Pending' /\ ~Ended' /\ Next_addr' = parser.line.value
  BY <1>1, <1>2, <1>5 DEF Skipping, Pending, Ended, Next_addr
<1>7. Returns
  <2>1. parsed' \in 0 .. Len(blob)
    BY <1>1, <1>2 DEF HexTypes, HexTypeOK
  <2> QED BY <1>1, <1>2, <2>1 DEF Returns, Quiet
<1>8. HexTypes' /\ BlobState' /\ Out' = Out /\ Held' = Out /\ ~Failing'
  BY <1>1, <1>2, <1>5, <1>6, <1>7, ReturnsKeep
<1>9. /\ ~MeansAt(file, i).ended
      /\ aligned \/ parser.binary_version = 0 => parser.binary_version = MeansAt(file, i).version
      /\ parser.binary_version # 0 => HasVersions(file)
      /\ HeldIs(MeansAt(file, i).bytes) /\ LineAt(i) + (2 * RecordBytes) = Consumed
  BY <1>3 DEF ScanState, VersionIs
<1>10. /\ ~MeansAt(file, i + 1).ended
       /\ MeansAt(file, i + 1).version = MeansAt(file, i).version
       /\ MeansAt(file, i + 1).base = parser.line.value
       /\ MeansAt(file, i + 1).bytes = MeansAt(file, i).bytes
  <2> DEFINE r == RecordAt(file, i)
             m == MeansAt(file, i)
             n == MeansAt(file, i + 1)
  <2>1. r.sound /\ r.type # "data" /\ r.type # "eof" /\ r.type # "meta" /\ IsExtended(r)
        /\ r.value = parser.line.value
    BY <1>2, <1>3 DEF IsExtended
  <2>2. /\ ~n.ended
        /\ n.version = (IF r.type = "meta" THEN r.value ELSE m.version)
        /\ n.base = (IF IsExtended(r) THEN r.value ELSE m.base)
        /\ n.bytes = (IF r.type = "data" /\ m.version = 0
                      THEN m.bytes \o Located(m.base + r.value, r.data) ELSE m.bytes)
    BY <1>2, <1>9, <2>1, MeantIs
  <2> HIDE DEF m, n, r
  <2>3. ~n.ended /\ n.version = m.version /\ n.base = parser.line.value /\ n.bytes = m.bytes
    BY <2>1, <2>2
  <2> QED BY <2>3 DEF m, n
<1>11. PICK s : s = MeansAt(file, i + 1).bytes
  OBVIOUS
<1>12. HeldIs(s)'
  <2>1. HeldIs(s)
    BY <1>9, <1>10, <1>11
  <2>2. Held = Out
    BY <1>2, OutIs
  <2> QED BY <1>1, <1>6, <1>8, <2>1, <2>2 DEF HeldIs, Justified
<1>13. ScanState(i, 2 * RecordBytes, i + 1)'
  <2>1. MeansAt(file, i + 1)' = MeansAt(file, i + 1)
    BY <1>1
  <2>2. LineAt(i) + (2 * RecordBytes) = Consumed'
    BY <1>1, <1>9 DEF Consumed
  <2>3. LineState(i, 2 * RecordBytes, i + 1)'
    BY <1>1, <1>2, <1>3, <1>5 DEF LineState, IsExtended
  <2>4. VersionIs(MeansAt(file, i + 1))'
    BY <1>1, <1>5, <1>9, <1>10, <2>1 DEF VersionIs
  <2>5. PendingIs(MeansAt(file, i + 1), i + 1)'
    BY <1>6 DEF PendingIs
  <2>6. HeldIs(MeansAt(file, i + 1).bytes)'
    BY <1>11, <1>12, <2>1 DEF HeldIs, Justified
  <2>7. aligned' => Based(file', Next_addr', MeansAt(file, i + 1)', i + 1)
    BY <1>4, <1>6, <1>10, <2>1 DEF Based
  <2>8. ~MeansAt(file, i + 1).ended'
    BY <1>10, <2>1
  <2> QED BY <1>1, <2>2, <2>3, <2>4, <2>5, <2>6, <2>7, <2>8 DEF ScanState
<1>14. Scans'
  BY <1>1, <1>3, <1>13 DEF Scans
<1> QED BY <1>6, <1>8, <1>14 DEF HexIInv

-----------------------------------------------------------------------------
(***************************************************************************)
(* The data of another version, which are skipped.                         *)
(***************************************************************************)

\* If the blocks begin their chunks, none begins behind the first character.
LEMMA BlocksBegin ==
    ASSUME AllWellFormed, HexTypes, BlobState, aligned,
           NEW m \in 0 .. Lines(file) - 1, BlockAt(file, m), LineAt(m) < pos
    PROVE  /\ LineAt(m) <= pos - Len(blob)
           /\ LineAt(m) = pos - Len(blob) => IsColon(blob[1])
<1>1. WellFormed(file) /\ pos \in Nat /\ Len(blob) \in Nat /\ Len(blob) <= pos /\ Lines(file) \in Nat
  BY TypesAre
<1>2. LineAt(m) \in Nat
  BY <1>1, LinesLie
<1>3. IsColon(file[LineAt(m) + 1]) /\ file[LineAt(m) + 1].block
  BY <1>1, LineIs
<1> DEFINE k == (LineAt(m) + 1) - (pos - Len(blob))
<1>4. ASSUME LineAt(m) >= pos - Len(blob)
      PROVE  IsColon(blob[k]) /\ blob[k].block /\ k \in 1 .. Len(blob)
  <2>1. k \in 1 .. Len(blob) /\ (pos - Len(blob)) + k = LineAt(m) + 1
    BY <1>1, <1>2, <1>4
  <2> HIDE DEF k
  <2>2. blob[k] = file[(pos - Len(blob)) + k]
    BY <2>1 DEF BlobState
  <2> QED BY <1>3, <2>1, <2>2
<1>5. ASSUME LineAt(m) > pos - Len(blob)
      PROVE  FALSE
  <2>1. k \in 2 .. Len(blob)
    BY <1>1, <1>2, <1>4, <1>5
  <2>2. LineAt(m) >= pos - Len(blob)
    BY <1>1, <1>2, <1>5
  <2>3. IsColon(blob[k]) /\ blob[k].block
    BY <1>4, <2>2
  <2> HIDE DEF k
  <2> QED BY <2>1, <2>3 DEF BlobState
<1>6. LineAt(m) = pos - Len(blob) => k = 1 /\ LineAt(m) >= pos - Len(blob)
  BY <1>1, <1>2
<1>7. LineAt(m) = pos - Len(blob) => IsColon(blob[1])
  BY <1>4, <1>6
<1> QED BY <1>1, <1>2, <1>5, <1>7

\* From a line of data for another version on, the parser skips.
LEMMA DataOfOtherKeeps ==
    ASSUME AllWellFormed, HexIInv, DataOfOther
    PROVE  HexIInv'
<1> DEFINE q == [Processed EXCEPT !.skip_until_aligned = TRUE]
<1>1. /\ Fresh({"data"}) /\ parser.binary_version # 0 /\ parsed' = parsed /\ buf' = buf
      /\ parser' = q /\ pc' = "parsed" /\ status' = "OK"
      /\ start' = q.next_address_to_write - Len(buf)
      /\ blob' = blob /\ flashed' = flashed /\ file' = file /\ pos' = pos /\ aligned' = aligned
  BY DEF DataOfOther, Leave, Exit, Quiet
<1>2. /\ HexTypes /\ BlobState /\ ~Skipping /\ ~Ended /\ ~Pending /\ WellFormed(file)
      /\ pc = "scan" /\ parsed < Len(blob)
      /\ parser.line.type \in {"data"} /\ parser.line.sound /\ parser.idx + 1 = RecordBytes
  BY <1>1, AtFresh
<1>3. PICK i \in 0 .. Lines(file) - 1 :
         /\ ScanState(i, 2 * RecordBytes, i)
         /\ i \in 0 .. Lines(file) /\ i + 1 \in 0 .. Lines(file)
         /\ 2 * RecordBytes \in 0 .. LineLength - 1
         /\ LineAt(i) + (2 * RecordBytes) < pos
         /\ parser.line = RecordAt(file, i)
  BY <1>1, AtFresh
<1>4. /\ q.line = parser.line /\ q.record_processed = TRUE
      /\ q.skip_until_aligned = TRUE /\ q.binary_version = parser.binary_version
      /\ q.load_unaligned_record = parser.load_unaligned_record
      /\ q.next_address_to_write = Next_addr /\ q \in ParserType(file)
  <2> DEFINE pr == Processed
  <2>1. /\ pr.line = parser.line /\ pr.record_processed = TRUE
        /\ pr.load_unaligned_record = parser.load_unaligned_record
        /\ pr.binary_version = parser.binary_version
        /\ pr.next_address_to_write = parser.next_address_to_write
        /\ pr \in ParserType(file)
    BY <1>2, ProcessedIs
  <2> HIDE DEF pr
  <2>2. q = [pr EXCEPT !.skip_until_aligned = TRUE]
    BY DEF pr
  <2> QED BY <2>1, <2>2 DEF ParserType, Next_addr
<1> HIDE DEF q
<1>5. Skipping' /\ ~Pending' /\ ~Ended' /\ parser'.binary_version = parser.binary_version
  BY <1>1, <1>2, <1>4 DEF Skipping, Pending, Ended
<1>6. Returns
  <2>1. parsed' \in 0 .. Len(blob)
    BY <1>1, <1>2 DEF HexTypes, HexTypeOK
  <2> QED BY <1>1, <1>2, <1>4, <2>1 DEF Returns, Quiet
<1>7. HexTypes' /\ BlobState' /\ Out' = Out /\ Held' = Out /\ ~Failing'
  BY <1>1, <1>2, <1>4, <1>5, <1>6, ReturnsKeep
<1>8. /\ ~MeansAt(file, i).ended
      /\ aligned => parser.binary_version = MeansAt(file, i).version
      /\ HasVersions(file)
      /\ HeldIs(MeansAt(file, i).bytes) /\ LineAt(i) + (2 * RecordBytes) = Consumed
  BY <1>1, <1>3 DEF ScanState, VersionIs
<1>9. /\ pos \in Nat /\ Len(blob) \in Nat /\ Len(blob) <= pos /\ parsed \in Nat
      /\ Consumed = (pos - Len(blob)) + parsed /\ i \in Nat /\ Lines(file) \in Nat
      /\ LineAt(i) \in Nat /\ RecordBytes \in Nat /\ LineLength = (2 * RecordBytes) + 2
  <2>1. /\ pos \in Nat /\ Len(blob) \in Nat /\ Len(blob) <= pos /\ parsed \in Nat
        /\ Consumed = (pos - Len(blob)) + parsed /\ Lines(file) \in Nat /\ i \in Nat
    BY <1>2, TypesAre
  <2> QED BY <2>1, LinesLie
<1>10. i + 1 <= Count(file, pos) /\ i <= Count(file, pos) /\ Count(file, pos) \in 0 .. Lines(file)
  <2>1. LineAt(i) + (2 * RecordBytes) <= pos
    BY <1>3, <1>9
  <2> QED BY <1>2, <1>3, <2>1, CountOf
<1>11. SkippedTo' = pos
  BY <1>1 DEF SkippedTo
<1> DEFINE C == Count(file, pos)
<1>12. Count(file, SkippedTo)' = C
  BY <1>1, <1>11
<1>13. Justified(MeansAt(file, C).bytes)'
  <2>1. Justified(MeansAt(file, i).bytes)
    BY <1>8 DEF HeldIs
  <2>2. Justified(MeansAt(file, C).bytes)
    BY <1>2, <1>3, <1>10, <2>1, ByLines
  <2> QED BY <1>1, <1>5, <2>2 DEF Justified
<1>14. aligned =>
         /\ RecordAt(file, i).type = "data"
         /\ MeansAt(file, i + 1).version = parser.binary_version
         /\ Out = MeansAt(file, i + 1).bytes
         /\ ~BlockIn(file, i, pos)
  <2> SUFFICES ASSUME aligned
               PROVE  /\ RecordAt(file, i).type = "data"
                      /\ MeansAt(file, i + 1).version = parser.binary_version
                      /\ Out = MeansAt(file, i + 1).bytes
                      /\ ~BlockIn(file, i, pos)
    OBVIOUS
  <2> DEFINE r == RecordAt(file, i)
             m == MeansAt(file, i)
             n == MeansAt(file, i + 1)
  <2>1. r.sound /\ r.type = "data" /\ r.type # "eof" /\ r.type # "meta"
    BY <1>2, <1>3
  <2>2. /\ n.version = (IF r.type = "meta" THEN r.value ELSE m.version)
        /\ n.bytes = (IF r.type = "data" /\ m.version = 0
                      THEN m.bytes \o Located(m.base + r.value, r.data) ELSE m.bytes)
    BY <1>2, <1>8, <2>1, MeantIs
  <2>3. m.version = parser.binary_version /\ m.version # 0
    BY <1>1, <1>8
  <2>4. Out = m.bytes
    BY <1>2, <1>8, OutIs DEF HeldIs
  <2>5. n.version = parser.binary_version /\ Out = n.bytes
    <3> HIDE DEF m, n, r
    <3> QED BY <2>1, <2>2, <2>3, <2>4
  <2>6. ASSUME NEW x \in 0 .. Lines(file) - 1, i < x, LineAt(x) < pos, BlockAt(file, x)
        PROVE  FALSE
    <3>1. LineAt(x) <= pos - Len(blob)
      BY <1>2, <2>6, BlocksBegin
    <3>2. x \in Nat
      BY <1>9
    <3>3. LineAt(i) + LineLength <= LineAt(x) /\ LineAt(x) \in Nat
      BY <1>9, <2>6, <3>2, LinesLie
    <3>4. Consumed < LineAt(i) + LineLength
      BY <1>8, <1>9
    <3>5. pos - Len(blob) <= Consumed /\ pos - Len(blob) \in Nat /\ Consumed \in Nat
      BY <1>9
    <3>6. LineAt(i) + LineLength \in Nat
      BY <1>9
    <3> QED BY <3>1, <3>3, <3>4, <3>5, <3>6
  <2>7. ~BlockIn(file, i, pos)
    BY <2>6 DEF BlockIn
  <2> QED BY <2>1, <2>5, <2>7
<1>15. SkipState'
  <2>1. aligned' =>
         \E l \in 0 .. Lines(file') - 1 :
            /\ RecordAt(file', l).type = "data"
            /\ MeansAt(file', l + 1).version = parser'.binary_version
            /\ Held' = MeansAt(file', l + 1).bytes
            /\ l + 1 <= Count(file, SkippedTo)'
            /\ ~BlockIn(file', l, SkippedTo')
    BY <1>1, <1>3, <1>5, <1>7, <1>10, <1>11, <1>12, <1>14
  <2>2. Justified(MeansAt(file, Count(file, SkippedTo)).bytes)'
    BY <1>1, <1>12, <1>13 DEF Justified
  <2> QED BY <1>1, <1>5, <1>8, <2>1, <2>2 DEF SkipState
<1> QED BY <1>5, <1>7, <1>15 DEF HexIInv

\* A chunk that does not begin with a record is skipped.
LEMMA SkipBlobKeeps ==
    ASSUME AllWellFormed, HexIInv, SkipBlob
    PROVE  HexIInv'
<1>1. /\ pc = "parse" /\ Skipping /\ ~IsColon(blob[1]) /\ parsed' = 0 /\ buf' = << >>
      /\ parser' = parser /\ pc' = "parsed" /\ status' = "OK"
      /\ start' = Next_addr - Len(buf')
      /\ blob' = blob /\ flashed' = flashed /\ file' = file /\ pos' = pos /\ aligned' = aligned
  BY DEF SkipBlob, Leave, Exit, Quiet, Skipping, Next_addr
<1>2. HexTypes /\ BlobState /\ ~Failing /\ SkipState
  BY <1>1 DEF HexIInv, Failing
<1>3. /\ WellFormed(file) /\ pos \in Nat /\ pos \in 0 .. Len(file) /\ Len(blob) \in Nat /\ Len(blob) <= pos
      /\ parser \in ParserType(file) /\ Next_addr \in Nat /\ Lines(file) \in Nat /\ pos <= Len(file)
      /\ aligned \in BOOLEAN /\ Len(file) \in Nat
  BY <1>2, TypesAre
<1>4. buf = << >> /\ parsed = 0 /\ Len(<< >>) = 0
  BY <1>1, <1>2 DEF BlobState
<1>5. start' = Next_addr
  BY <1>1, <1>3, <1>4
<1>6. HexTypes'
  <2>1. HexTypeOK'
    BY <1>1, <1>2, <1>3, <1>5 DEF HexTypes, HexTypeOK
  <2>2. buf' \in Seq(BytesOf(file')) /\ parser' \in ParserType(file')
    BY <1>1, <1>2, <1>3, <1>4 DEF HexTypes
  <2>3. /\ file' \in Files /\ pos' \in 0 .. Len(file') /\ aligned' \in BOOLEAN
        /\ flashed' \in Seq(Cells(file'))
    BY <1>1, <1>2 DEF HexTypes
  <2>4. pc' = "parsed"
    BY <1>1
  <2> QED BY <2>1, <2>2, <2>3, <2>4 DEF HexTypes
<1>7. BlobState' /\ ~Failing' /\ Skipping' /\ ~Pending' /\ ~Ended'
  BY <1>1, <1>2 DEF BlobState, Failing, Skipping, SkipState, Pending, Ended
<1>8. Held' = Held
  <2>1. BufferAt' = start' /\ BufferAt = Next_addr - Len(buf)
    BY <1>1 DEF BufferAt
  <2>2. BufferAt' = BufferAt
    BY <1>3, <1>4, <1>5, <2>1
  <2>3. Out' = Out
    BY <1>1, <1>4, <2>2 DEF Out
  <2> QED BY <1>1, <2>3 DEF Held, Pending, RecordAddr
<1> DEFINE C == Count(file, pos - Len(blob))
           D == Count(file, pos)
<1>9. SkippedTo = pos - Len(blob) /\ SkippedTo' = pos
  BY <1>1 DEF SkippedTo
<1>10. C \in 0 .. Lines(file) /\ D \in 0 .. Lines(file) /\ C <= D
  <2>1. pos - Len(blob) \in 0 .. Len(file) /\ pos - Len(blob) <= pos
    BY <1>3
  <2> QED BY <1>3, <2>1, CountType, CountGrows
<1>11. Count(file, SkippedTo)' = D
  BY <1>1, <1>9
<1>12. Justified(MeansAt(file, D).bytes)'
  <2>1. Justified(MeansAt(file, C).bytes)
    BY <1>2, <1>9 DEF SkipState
  <2>2. Justified(MeansAt(file, D).bytes)
    <3> HIDE DEF C, D
    <3> QED BY <1>2, <1>10, <2>1, ByLines
  <2>3. PICK s : s = MeansAt(file, D).bytes
    OBVIOUS
  <2>4. Justified(s)'
    BY <1>1, <1>4, <1>7, <2>2, <2>3 DEF Justified
  <2> QED BY <1>1, <2>3, <2>4 DEF Justified
<1>13. aligned =>
         \E l \in 0 .. Lines(file) - 1 :
            /\ RecordAt(file, l).type = "data"
            /\ MeansAt(file, l + 1).version = parser.binary_version
            /\ Held = MeansAt(file, l + 1).bytes
            /\ l + 1 <= D
            /\ ~BlockIn(file, l, pos)
  <2> SUFFICES ASSUME aligned
               PROVE  \E l \in 0 .. Lines(file) - 1 :
                        /\ RecordAt(file, l).type = "data"
                        /\ MeansAt(file, l + 1).version = parser.binary_version
                        /\ Held = MeansAt(file, l + 1).bytes
                        /\ l + 1 <= D
                        /\ ~BlockIn(file, l, pos)
    OBVIOUS
  <2>1. PICK l \in 0 .. Lines(file) - 1 :
            /\ RecordAt(file, l).type = "data"
            /\ MeansAt(file, l + 1).version = parser.binary_version
            /\ Held = MeansAt(file, l + 1).bytes
            /\ l + 1 <= C
            /\ ~BlockIn(file, l, pos - Len(blob))
    BY <1>2, <1>9 DEF SkipState
  <2>2. l + 1 <= D
    <3> HIDE DEF C, D
    <3> QED BY <1>3, <1>10, <2>1
  <2>3. ASSUME NEW x \in 0 .. Lines(file) - 1, l < x, LineAt(x) < pos, BlockAt(file, x)
        PROVE  FALSE
    <3>1. LineAt(x) <= pos - Len(blob) /\ LineAt(x) # pos - Len(blob)
      BY <1>1, <1>2, <2>3, BlocksBegin
    <3>2. x \in Nat
      BY <1>3
    <3>3. LineAt(x) \in Nat
      BY <3>2, LinesLie
    <3>4. LineAt(x) < pos - Len(blob)
      BY <1>3, <3>1, <3>3
    <3> QED BY <2>1, <2>3, <3>4 DEF BlockIn
  <2>4. ~BlockIn(file, l, pos)
    BY <2>3 DEF BlockIn
  <2> QED BY <2>1, <2>2, <2>4
<1>14. SkipState'
  <2>1. aligned' =>
         \E l \in 0 .. Lines(file') - 1 :
            /\ RecordAt(file', l).type = "data"
            /\ MeansAt(file', l + 1).version = parser'.binary_version
            /\ Held' = MeansAt(file', l + 1).bytes
            /\ l + 1 <= Count(file, SkippedTo)'
            /\ ~BlockIn(file', l, SkippedTo')
    BY <1>1, <1>8, <1>9, <1>11, <1>13
  <2>2. Justified(MeansAt(file, Count(file, SkippedTo)).bytes)'
    BY <1>1, <1>11, <1>12 DEF Justified
  <2>3. parser.binary_version # 0 /\ HasVersions(file)
    BY <1>2 DEF SkipState
  <2> QED BY <1>1, <1>7, <2>1, <2>2, <2>3 DEF SkipState
<1> QED BY <1>6, <1>7, <1>14 DEF HexIInv

-----------------------------------------------------------------------------
(***************************************************************************)
(* What write_hex does with what the parser returns.                       *)
(***************************************************************************)

\* How much of the file has been counted where the parser is.
LEMMA ScannedIsFed ==
    ASSUME AllWellFormed, HexTypes, BlobState,
           NEW i \in 0 .. Lines(file), NEW o \in 0 .. LineLength - 1, NEW c \in 0 .. Lines(file),
           ScanState(i, o, c)
    PROVE  c <= Count(file, pos)
<1>1. LineAt(i) + o = Consumed /\ LineState(i, o, c)
  BY DEF ScanState
<1>2. /\ pos \in Nat /\ Len(blob) \in Nat /\ parsed \in Nat /\ parsed <= Len(blob)
      /\ Consumed = (pos - Len(blob)) + parsed
  BY TypesAre
<1>3. Consumed <= pos /\ (parsed < Len(blob) => Consumed < pos)
  BY <1>2
<1>4. LineAt(i) + o <= pos
  BY <1>1, <1>3
<1>5. /\ i <= Count(file, pos)
      /\ LineAt(i) + (2 * RecordBytes) < pos => i + 1 <= Count(file, pos)
      /\ o = LineLength - 1 => i + 1 <= Count(file, pos)
  BY <1>4, CountOf
<1> QED BY <1>1, <1>3, <1>5 DEF LineState

\* At the end of the file all of it has been counted.
LEMMA EndIsFed ==
    ASSUME AllWellFormed, HexTypes, BlobState, EndState
    PROVE  Lines(file) <= Count(file, pos)
<1> DEFINE d == Count(file, pos)
           n == Lines(file)
<1>1. WellFormed(file) /\ pos \in Nat /\ pos \in 0 .. Len(file) /\ n \in Nat /\ Len(file) = LineAt(n)
  BY TypesAre
<1>2. d \in 0 .. n /\ pos + 1 < LineAt(d + 1)
  BY <1>1, CountType
<1>3. pos >= Len(file) - 1
  BY DEF EndState
<1> HIDE DEF d, n
<1>4. d \in Nat
  BY <1>1, <1>2
<1>5. d < n => LineAt(d) + LineLength <= LineAt(n)
  BY <1>1, <1>4, LinesLie
<1>6. LineAt(d + 1) = LineAt(d) + LineLength /\ LineAt(d) \in Nat /\ LineAt(n) \in Nat /\ LineLength \in Nat
  BY <1>1, <1>4, LinesLie
<1>7. n <= d
  BY <1>1, <1>2, <1>3, <1>4, <1>5, <1>6
<1> QED BY <1>7 DEF d, n

\* The flash has a part of what has been fed, wherever the parser is.
LEMMA FlashedIsMeant ==
    ASSUME AllWellFormed, HexIInv
    PROVE  FailState
<1>1. HexTypes /\ BlobState
  BY DEF HexIInv
<1>2. /\ pos \in Nat /\ pos \in 0 .. Len(file) /\ Len(file) \in Nat /\ WellFormed(file) /\ Lines(file) \in Nat
      /\ Len(blob) \in Nat /\ Len(blob) <= pos
  BY <1>1, TypesAre
<1>3. CASE Failing
  BY <1>3 DEF HexIInv
<1>4. CASE ~Failing /\ Skipping
  <2> DEFINE C == Count(file, SkippedTo)
             D == Count(file, pos)
  <2>1. SkipState
    BY <1>4 DEF HexIInv
  <2>2. SkippedTo \in 0 .. Len(file) /\ SkippedTo <= pos
    BY <1>2 DEF SkippedTo
  <2>3. C \in 0 .. Lines(file) /\ D \in 0 .. Lines(file) /\ C <= D
    BY <1>2, <2>2, CountType, CountGrows
  <2>4. Justified(MeansAt(file, C).bytes)
    BY <2>1 DEF SkipState
  <2>5. aligned => \E l \in 0 .. Lines(file) - 1 : Held = MeansAt(file, l + 1).bytes /\ l + 1 <= C
    BY <2>1 DEF SkipState
  <2> HIDE DEF C
  <2>6. Justified(MeansAt(file, D).bytes)
    BY <1>1, <2>3, <2>4, ByLines
  <2>7. CASE aligned
    <3>1. PICK l \in 0 .. Lines(file) - 1 : Held = MeansAt(file, l + 1).bytes /\ l + 1 <= C
      BY <2>5, <2>7
    <3>2. l + 1 \in 0 .. Lines(file) /\ l + 1 <= D
      <4> HIDE DEF D
      <4> QED BY <1>2, <2>3, <3>1
    <3> QED BY <1>1, <2>6, <3>1, <3>2, FlashedIsPrefix
  <2>8. CASE ~aligned
    <3>1. 0 \in 0 .. Lines(file) /\ 0 <= D
      <4> HIDE DEF D
      <4> QED BY <1>2, <2>3
    <3> QED BY <1>1, <2>6, <2>8, <3>1, FlashedIsPrefix
  <2> QED BY <2>7, <2>8
<1>5. CASE ~Failing /\ ~Skipping /\ Ended
  <2>1. EndState
    BY <1>5 DEF HexIInv
  <2>2. Lines(file) <= Count(file, pos) /\ Lines(file) \in 0 .. Lines(file)
    BY <1>1, <1>2, <2>1, EndIsFed
  <2> QED BY <1>1, <2>1, <2>2, HeldIsMeant DEF EndState
<1>6. CASE ~Failing /\ ~Skipping /\ ~Ended
  <2>1. PICK i \in 0 .. Lines(file), o \in 0 .. LineLength - 1, c \in 0 .. Lines(file) : ScanState(i, o, c)
    BY <1>6 DEF HexIInv, Scans
  <2>2. c <= Count(file, pos) /\ HeldIs(MeansAt(file, c).bytes)
    BY <1>1, <2>1, ScannedIsFed DEF ScanState
  <2> QED BY <1>1, <2>2, HeldIsMeant
<1> QED BY <1>3, <1>4, <1>5, <1>6

\* A write that fails leaves a part of what has been fed in the flash.
LEMMA WriteFailsKeeps ==
    ASSUME AllWellFormed, HexIInv, WriteFails
    PROVE  HexIInv'
<1>1. /\ pc = "parsed" /\ pc' = "failed" /\ blob' = << >> /\ buf' = << >> /\ parsed' = 0
      /\ parser' = parser /\ start' = start /\ status' = status
      /\ flashed' = flashed /\ file' = file /\ pos' = pos /\ aligned' = aligned
  BY DEF WriteFails
<1>2. HexTypes /\ BlobState
  BY DEF HexIInv
<1>3. /\ pos \in Nat /\ Next_addr \in Nat /\ Len(<< >>) = 0
      /\ pos \in 0 .. Len(file) /\ WellFormed(file) /\ Lines(file) \in Nat
  BY <1>2, TypesAre
<1>4. HexTypes'
  <2>1. HexTypeOK'
    BY <1>1, <1>2, <1>3 DEF HexTypes, HexTypeOK
  <2>2. buf' \in Seq(BytesOf(file')) /\ parser' \in ParserType(file')
    BY <1>1, <1>2 DEF HexTypes
  <2>3. /\ file' \in Files /\ pos' \in 0 .. Len(file') /\ aligned' \in BOOLEAN
        /\ flashed' \in Seq(Cells(file'))
    BY <1>1, <1>2 DEF HexTypes
  <2>4. Len(buf') <= Next_addr'
    BY <1>1, <1>3 DEF Next_addr
  <2> QED BY <2>1, <2>2, <2>3, <2>4 DEF HexTypes
<1>5. BlobState'
  <2>1. IsSeq(blob')
    BY <1>1 DEF IsSeq
  <2> QED BY <1>1, <1>3, <2>1 DEF BlobState
<1>6. FailState
  BY FlashedIsMeant
<1>7. FailState' /\ Failing'
  BY <1>1, <1>6 DEF FailState, Failing, Meaning
<1> QED BY <1>4, <1>5, <1>7 DEF HexIInv

\* A sequence over any set is one over its elements.
LEMMA SeqIs ==
    ASSUME NEW S, NEW s \in Seq(S)
    PROVE  IsSeq(s)
<1> DEFINE T == {s[k] : k \in DOMAIN s}
           n == Len(s)
<1>1. n \in Nat /\ DOMAIN s = 1 .. n /\ s \in [1 .. n -> S]
  BY LenProperties
<1>2. s = [k \in 1 .. n |-> s[k]] /\ \A k \in 1 .. n : s[k] \in T
  BY <1>1
<1> HIDE DEF n, T
<1>3. s \in [1 .. n -> T]
  BY <1>2
<1>4. s \in Seq(T)
  BY <1>1, <1>3, SeqDef
<1> QED BY <1>4 DEF IsSeq, T

\* The end of a sequence.
LEMMA RestOfSeq ==
    ASSUME NEW s, IsSeq(s), NEW n \in 0 .. Len(s)
    PROVE  /\ IsSeq(SubSeq(s, n + 1, Len(s))) /\ Len(SubSeq(s, n + 1, Len(s))) = Len(s) - n
           /\ \A k \in 1 .. Len(s) - n : SubSeq(s, n + 1, Len(s))[k] = s[n + k]
<1> DEFINE S == {s[k] : k \in DOMAIN s}
           t == SubSeq(s, n + 1, Len(s))
<1>1. s \in Seq(S)
  BY DEF IsSeq
<1> HIDE DEF S
<1>2. Len(s) \in Nat /\ n \in Nat /\ n + 1 \in 1 .. Len(s) + 1 /\ Len(s) \in (n + 1) - 1 .. Len(s)
  BY <1>1, LenProperties
<1>3. /\ t \in Seq(S)
      /\ Len(t) = IF n + 1 <= Len(s) THEN Len(s) - (n + 1) + 1 ELSE 0
      /\ \A k \in 1 .. Len(s) - (n + 1) + 1 : t[k] = s[(n + 1) + k - 1]
  BY <1>1, <1>2, SubSeqProperties
<1>4. Len(t) = Len(s) - n
  BY <1>2, <1>3
<1>5. ASSUME NEW k \in 1 .. Len(s) - n
      PROVE  t[k] = s[n + k]
  <2>1. k \in 1 .. Len(s) - (n + 1) + 1 /\ (n + 1) + k - 1 = n + k
    BY <1>2
  <2> QED BY <1>3, <2>1
<1>6. IsSeq(t)
  BY <1>3, SeqIs
<1> QED BY <1>4, <1>5, <1>6 DEF t

\* The bytes of the buffer go to the flash, and the rest of the chunk is parsed.
LEMMA FlashWriteKeeps ==
    ASSUME AllWellFormed, HexIInv, FlashWrite
    PROVE  HexIInv'
<1>1. /\ pc = "parsed" /\ status # "CKSUM_FAIL" /\ buf' = << >> /\ parsed' = 0
      /\ flashed' = flashed \o Located(start, buf)
      /\ IF status = "UNALIGNED" THEN pc' = "parse" /\ blob' = Rest
                                 ELSE pc' = "idle" /\ blob' = << >>
      /\ parser' = parser /\ start' = start /\ status' = status
      /\ file' = file /\ pos' = pos /\ aligned' = aligned
  BY DEF FlashWrite
<1>2. HexTypes /\ BlobState /\ ~Failing
  BY <1>1 DEF HexIInv, Failing
<1>3. /\ pos \in Nat /\ Next_addr \in Nat /\ Len(<< >>) = 0
      /\ Len(blob) \in Nat /\ Len(blob) <= pos /\ parsed \in Nat /\ parsed <= Len(blob)
      /\ WellFormed(file) /\ Lines(file) \in Nat
      /\ Consumed = (pos - Len(blob)) + parsed
  BY <1>2, TypesAre
<1>4. flashed' = Out /\ Out \in Seq(Cells(file))
  BY <1>1, <1>2, OutIs DEF Out, BufferAt
<1>5. /\ IsSeq(Rest) /\ Len(Rest) = Len(blob) - parsed
      /\ \A k \in 1 .. Len(blob) - parsed : Rest[k] = blob[parsed + k]
  <2>1. IsSeq(blob) /\ parsed \in 0 .. Len(blob)
    BY <1>2 DEF BlobState, HexTypes, HexTypeOK
  <2> QED BY <2>1, RestOfSeq DEF Rest
<1>6. HexTypes'
  <2>1. Len(blob') \in Nat
    BY <1>1, <1>3, <1>5
  <2>2. HexTypeOK'
    BY <1>1, <1>2, <2>1 DEF HexTypes, HexTypeOK
  <2>3. buf' \in Seq(BytesOf(file')) /\ parser' \in ParserType(file')
    BY <1>1, <1>2 DEF HexTypes
  <2>4. /\ file' \in Files /\ pos' \in 0 .. Len(file') /\ aligned' \in BOOLEAN
    BY <1>1, <1>2 DEF HexTypes
  <2>5. flashed' \in Seq(Cells(file'))
    BY <1>1, <1>4
  <2>6. Len(buf') <= Next_addr'
    BY <1>1, <1>3 DEF Next_addr
  <2> QED BY <2>2, <2>3, <2>4, <2>5, <2>6 DEF HexTypes
<1>7. Skipping => status = "OK"
  BY <1>1, <1>2 DEF HexIInv, SkipState
<1>8. BlobState'
  <2>1. CASE status = "UNALIGNED"
    <3>1. blob' = Rest /\ pc' = "parse" /\ ~Skipping'
      BY <1>1, <1>7, <2>1 DEF Skipping
    <3>2. Len(blob') <= pos' /\ pos' - Len(blob') = (pos - Len(blob)) + parsed
      BY <1>1, <1>3, <1>5, <3>1
    <3>3. ASSUME NEW k \in 1 .. Len(blob')
          PROVE  blob'[k] = file'[(pos' - Len(blob')) + k]
      <4>1. blob'[k] = blob[parsed + k] /\ parsed + k \in 1 .. Len(blob)
        BY <1>3, <1>5, <3>1
      <4>2. blob[parsed + k] = file[(pos - Len(blob)) + (parsed + k)]
        BY <1>2, <4>1 DEF BlobState
      <4>3. (pos - Len(blob)) + (parsed + k) = (pos' - Len(blob')) + k
        BY <1>3, <3>2
      <4> QED BY <1>1, <4>1, <4>2, <4>3
    <3>4. ASSUME aligned', NEW k \in 2 .. Len(blob')
          PROVE  ~(IsColon(blob'[k]) /\ blob'[k].block)
      <4>1. blob'[k] = blob[parsed + k] /\ parsed + k \in 2 .. Len(blob)
        BY <1>3, <1>5, <3>1
      <4> QED BY <1>1, <1>2, <3>4, <4>1 DEF BlobState
    <3>5. IsSeq(blob')
      BY <1>5, <3>1
    <3>6. aligned' => \A k \in 2 .. Len(blob') : ~(IsColon(blob'[k]) /\ blob'[k].block)
      BY <3>4
    <3>7. \A k \in 1 .. Len(blob') : blob'[k] = file'[(pos' - Len(blob')) + k]
      BY <3>3
    <3>8. pc' = "parse" /\ parsed' = 0 /\ buf' = << >> /\ ~Skipping' /\ Len(blob') <= pos'
      BY <1>1, <3>1, <3>2
    <3> QED BY <3>5, <3>6, <3>7, <3>8 DEF BlobState
  <2>2. CASE status # "UNALIGNED"
    <3>1. blob' = << >> /\ pc' = "idle" /\ pos' = pos /\ buf' = << >> /\ parsed' = 0
      BY <1>1, <2>2
    <3>2. IsSeq(blob')
      BY <3>1 DEF IsSeq
    <3> QED BY <1>3, <3>1, <3>2 DEF BlobState
  <2> QED BY <2>1, <2>2
<1>9. ~Failing' /\ Skipping' = Skipping /\ Ended' = Ended /\ Pending' = Pending
  BY <1>1 DEF Failing, Skipping, Ended, Pending
<1>10. Out' = Out /\ Held' = Held
  <2>1. Located(BufferAt', << >>) = << >>
    BY NothingLocated
  <2>2. Out' = flashed' \o Located(BufferAt', << >>)
    BY <1>1 DEF Out
  <2>3. Out' = Out
    BY <1>4, <2>1, <2>2, ConcatEmptySeq
  <2>4. Held' = Held
    BY <1>1, <2>3 DEF Held, Pending, RecordAddr
  <2> QED BY <2>3, <2>4
<1>11. ASSUME NEW s, Justified(s)
       PROVE  Justified(s)'
  <2>1. \A k \in DOMAIN flashed' : Among(flashed'[k][2], s)
    <3> DEFINE t == Located(start, buf)
    <3>1. start \in Nat /\ buf \in Seq(BytesOf(file)) /\ flashed \in Seq(Cells(file)) /\ Len(buf) \in Nat
      BY <1>2, TypesAre
    <3>2. /\ t \in Seq(Cells(file)) /\ Len(t) = Len(buf)
          /\ \A k \in 1 .. Len(buf) : t[k] = <<start + k - 1, buf[k]>>
      BY <3>1, LocatedSeq DEF Cells
    <3>3. flashed' = flashed \o t
      BY <1>1
    <3> HIDE DEF t
    <3>4. /\ flashed' \in Seq(Cells(file)) /\ Len(flashed') = Len(flashed) + Len(t)
          /\ \A k \in 1 .. Len(flashed) + Len(t) :
               flashed'[k] = IF k <= Len(flashed) THEN flashed[k] ELSE t[k - Len(flashed)]
      <4>1. /\ flashed \o t \in Seq(Cells(file)) /\ Len(flashed \o t) = Len(flashed) + Len(t)
            /\ \A k \in 1 .. Len(flashed) + Len(t) :
                 (flashed \o t)[k] = IF k <= Len(flashed) THEN flashed[k] ELSE t[k - Len(flashed)]
        BY <3>1, <3>2, ConcatProperties
      <4> QED BY <3>3, <4>1
    <3>5. Len(flashed) \in Nat /\ DOMAIN flashed = 1 .. Len(flashed) /\ DOMAIN buf = 1 .. Len(buf)
      BY <3>1, LenProperties
    <3>6. ASSUME NEW k \in 1 .. Len(flashed) + Len(t)
          PROVE  Among(flashed'[k][2], s)
      <4>1. CASE k <= Len(flashed)
        <5>1. k \in DOMAIN flashed /\ flashed'[k] = flashed[k]
          BY <3>2, <3>4, <3>5, <4>1
        <5> QED BY <1>11, <5>1 DEF Justified
      <4>2. CASE k > Len(flashed)
        <5> DEFINE j == k - Len(flashed)
        <5>1. j \in 1 .. Len(buf) /\ ~(k <= Len(flashed))
          BY <3>1, <3>2, <3>5, <4>2
        <5>2. flashed'[k] = t[j]
          BY <3>4, <5>1
        <5> HIDE DEF j
        <5>3. flashed'[k][2] = buf[j]
          BY <3>2, <5>1, <5>2
        <5> QED BY <1>11, <3>5, <5>1, <5>3 DEF Justified
      <4> QED BY <3>2, <3>1, <3>5, <4>1, <4>2
    <3>7. DOMAIN flashed' = 1 .. Len(flashed) + Len(t)
      BY <3>4, LenProperties
    <3> QED BY <3>6, <3>7
  <2>2. \A k \in DOMAIN buf' : Among(buf'[k], s)
    BY <1>1
  <2>3. Pending' => \A k \in DOMAIN parser'.line.data : Among(parser'.line.data[k], s)
    BY <1>1, <1>9, <1>11 DEF Justified
  <2> QED BY <2>1, <2>2, <2>3 DEF Justified
<1>12. CASE Skipping
  <2>1. SkipState
    BY <1>2, <1>12 DEF HexIInv
  <2>2. pc' = "idle" /\ SkippedTo = pos /\ SkippedTo' = pos
    BY <1>1, <1>7, <1>12 DEF SkippedTo
  <2>3. PICK s : s = MeansAt(file, Count(file, pos)).bytes
    OBVIOUS
  <2>4. Justified(s)'
    BY <1>11, <2>1, <2>2, <2>3 DEF SkipState
  <2>5. Justified(MeansAt(file, Count(file, SkippedTo)).bytes)'
    BY <1>1, <2>2, <2>3, <2>4 DEF Justified
  <2>6. SkipState'
    BY <1>1, <1>9, <1>10, <2>1, <2>2, <2>5 DEF SkipState
  <2> QED BY <1>6, <1>8, <1>9, <1>12, <2>6 DEF HexIInv
<1>13. CASE ~Skipping /\ Ended
  <2>1. EndState
    BY <1>2, <1>13 DEF HexIInv
  <2>2. pc' = "idle" /\ blob' = << >> /\ ~Pending' /\ Lines(file) > 0 /\ pos >= Len(file) - 1
    BY <1>1, <1>9, <2>1 DEF EndState
  <2>3. Consumed' = pos
    BY <1>1, <1>3, <2>2 DEF Consumed
  <2>4. PICK s : s = MeansAt(file, Lines(file)).bytes
    OBVIOUS
  <2>5. Justified(s)' /\ (aligned' => Held' = s)
    BY <1>1, <1>10, <1>11, <2>1, <2>4 DEF EndState, HeldIs
  <2>6. HeldIs(MeansAt(file, Lines(file)).bytes)'
    BY <1>1, <2>4, <2>5 DEF HeldIs, Justified
  <2>7. EndState'
    BY <1>1, <2>2, <2>3, <2>6 DEF EndState
  <2> QED BY <1>6, <1>8, <1>9, <1>13, <2>7 DEF HexIInv
<1>14. CASE ~Skipping /\ ~Ended
  <2>1. PICK i \in 0 .. Lines(file), o \in 0 .. LineLength - 1, c \in 0 .. Lines(file) : ScanState(i, o, c)
    BY <1>2, <1>14 DEF HexIInv, Scans
  <2>2. PICK s : s = MeansAt(file, c).bytes
    OBVIOUS
  <2>3. Justified(s)' /\ (aligned' => Held' = s)
    BY <1>1, <1>10, <1>11, <2>1, <2>2 DEF ScanState, HeldIs
  <2>4. ScanState(i, o, c)'
    <3>1. LineAt(i) + o = Consumed /\ LineState(i, o, c)
          /\ (status = "UNALIGNED" \/ parsed = Len(blob))
      BY <1>1, <2>1 DEF ScanState
    <3>2. LineAt(i) + o = Consumed'
      <4>1. CASE status = "UNALIGNED"
        <5>1. Consumed' = (pos - Len(Rest)) + 0
          BY <1>1, <4>1 DEF Consumed
        <5>2. Consumed' = Consumed
          BY <1>3, <1>5, <5>1
        <5> QED BY <3>1, <5>2
      <4>2. CASE status # "UNALIGNED"
        <5>1. Consumed' = (pos - Len(<< >>)) + 0
          BY <1>1, <4>2 DEF Consumed
        <5>2. Consumed' = Consumed
          BY <1>3, <3>1, <4>2, <5>1
        <5> QED BY <3>1, <5>2
      <4> QED BY <4>1, <4>2
    <3>3. LineState(i, o, c)'
      <4>1. ASSUME parsed < Len(blob)
            PROVE  pc' \in {"parse", "scan", "parsed"} /\ parsed' < Len(blob') /\ pc' # "parsed"
        <5>1. status = "UNALIGNED"
          BY <1>3, <3>1, <4>1
        <5>2. pc' = "parse" /\ blob' = Rest
          BY <1>1, <5>1
        <5> QED BY <1>1, <1>3, <1>5, <4>1, <5>2
      <4> QED BY <1>1, <3>1, <4>1 DEF LineState
    <3>4. VersionIs(MeansAt(file, c))' /\ ~MeansAt(file, c).ended'
          /\ (aligned' => Based(file', Next_addr', MeansAt(file, c)', c))
      BY <1>1, <2>1 DEF ScanState, VersionIs, Next_addr
    <3>5. PendingIs(MeansAt(file, c), c)'
      <4>1. PendingIs(MeansAt(file, c), c)
        BY <2>1 DEF ScanState
      <4>2. MeansAt(file, c)' = MeansAt(file, c) /\ Next_addr' = Next_addr
        BY <1>1 DEF Next_addr
      <4>3. ASSUME Pending
            PROVE  pc' = "parse"
        BY <1>1, <4>1, <4>3 DEF PendingIs
      <4> QED BY <1>1, <1>9, <4>1, <4>2, <4>3 DEF PendingIs
    <3>6. HeldIs(MeansAt(file, c).bytes)'
      BY <1>1, <2>2, <2>3 DEF HeldIs, Justified
    <3>7. pc' # "parsed"
      BY <1>1
    <3> QED BY <3>2, <3>3, <3>4, <3>5, <3>6, <3>7 DEF ScanState
  <2>5. Scans'
    BY <1>1, <2>1, <2>4 DEF Scans
  <2> QED BY <1>6, <1>8, <1>9, <1>14, <2>5 DEF HexIInv
<1> QED BY <1>12, <1>13, <1>14

-----------------------------------------------------------------------------
(***************************************************************************)
(* A file begins, and its chunks come.                                     *)
(***************************************************************************)

\* The state in which a file begins.
Begins ==
    /\ AllWellFormed
    /\ parser = reset_hex_parser
    /\ blob = << >> /\ parsed = 0 /\ buf = << >> /\ start \in Nat
    /\ status \in {"OK", "EOF", "UNALIGNED", "CKSUM_FAIL"} /\ pc = "idle" /\ flashed = << >>
    /\ file \in Files /\ pos = 0 /\ aligned = TRUE

\* The invariant holds in it.
LEMMA BeginsHolds ==
    Begins => HexIInv
<1> SUFFICES ASSUME Begins
             PROVE  HexIInv
  OBVIOUS
<1>1. /\ AllWellFormed
      /\ parser = reset_hex_parser
      /\ blob = << >> /\ parsed = 0 /\ buf = << >> /\ start \in Nat
      /\ status \in {"OK", "EOF", "UNALIGNED", "CKSUM_FAIL"} /\ pc = "idle" /\ flashed = << >>
      /\ file \in Files /\ pos = 0 /\ aligned = TRUE
  BY DEF Begins
<1>2. WellFormed(file)
  BY <1>1 DEF AllWellFormed
<1>3. Lines(file) \in Nat /\ Len(file) \in Nat
  BY <1>2, FileLength
<1>4. RecordBytes \in Nat /\ RecordBytes >= 1 /\ LineLength = (2 * RecordBytes) + 2 /\ LineAt(0) = 0
      /\ Low \in Nat /\ Low >= 1
  BY LinesLie
<1>5. Len(<< >>) = 0
  BY EmptySeq
<1>6. /\ parser.idx = 0 /\ parser.low_nibble = FALSE /\ ~Pending /\ ~Skipping /\ ~Ended
      /\ Next_addr = 0 /\ parser.binary_version = 0 /\ parser \in ParserType(file)
  <2>1. 0 \in 0 .. RecordBytes + 1 /\ NoRecord \in Records(file) /\ NoRecord.type = "none"
    BY <1>4 DEF Records, NoRecord
  <2> HIDE DEF NoRecord
  <2> QED BY <1>1, <2>1 DEF reset_hex_parser, ParserType, Pending, Skipping, Ended, Next_addr
<1>7. HexTypes
  <2>1. HexTypeOK
    BY <1>1, <1>4, <1>5, <1>6 DEF HexTypeOK
  <2>2. pos \in 0 .. Len(file) /\ aligned \in BOOLEAN /\ Len(buf) <= Next_addr
    BY <1>1, <1>3, <1>5, <1>6
  <2>3. buf \in Seq(BytesOf(file)) /\ flashed \in Seq(Cells(file))
    BY <1>1
  <2> QED BY <1>1, <1>6, <2>1, <2>2, <2>3 DEF HexTypes
<1>8. BlobState
  <2>1. IsSeq(blob)
    BY <1>1 DEF IsSeq
  <2> QED BY <1>1, <1>5, <1>6, <2>1 DEF BlobState
<1>9. MeansAt(file, 0) = Started
  BY <1>2, MeansFirst
<1>10. HeldIs(MeansAt(file, 0).bytes)
  <2>1. BufferAt = 0
    <3>1. pc # "parsed" /\ Len(buf) = 0 /\ Next_addr = 0
      <4>1. Len(buf) = Len(<< >>)
        BY <1>1
      <4> QED BY <1>1, <1>5, <1>6, <4>1
    <3>2. Next_addr - Len(buf) = 0
      BY <3>1
    <3> QED BY <3>1, <3>2 DEF BufferAt
  <2>2. Located(0, << >>) = << >>
    BY NothingLocated
  <2>3. Out = << >> \o << >>
    BY <1>1, <2>1, <2>2 DEF Out
  <2>4. Out = << >>
    <3>1. << >> \in Seq(Nat)
      OBVIOUS
    <3> QED BY <2>3, <3>1, ConcatEmptySeq
  <2>5. Held = << >>
    BY <1>1, <1>6, <1>7, <1>8, <2>4, OutIs
  <2>6. Justified(<< >>)
    BY <1>1, <1>6 DEF Justified
  <2> QED BY <1>9, <2>5, <2>6 DEF HeldIs, Started
<1>11. ScanState(0, 0, 0)
  <2>1. LineAt(0) + 0 = Consumed
    BY <1>1, <1>4, <1>5 DEF Consumed
  <2>2. LineState(0, 0, 0)
    BY DEF LineState
  <2>3. VersionIs(MeansAt(file, 0)) /\ ~MeansAt(file, 0).ended
    BY <1>6, <1>9 DEF VersionIs, Started
  <2>4. Based(file, Next_addr, MeansAt(file, 0), 0)
    <3>1. High(0) = 0
      BY <1>4, HighIs
    <3> QED BY <1>6, <1>9, <3>1 DEF Based, Started
  <2>5. PendingIs(MeansAt(file, 0), 0)
    BY <1>6 DEF PendingIs
  <2> QED BY <1>1, <1>10, <2>1, <2>2, <2>3, <2>4, <2>5 DEF ScanState
<1>12. Scans
  <2>1. 0 \in 0 .. Lines(file) /\ 0 \in 0 .. LineLength - 1
    BY <1>3, <1>4
  <2> QED BY <1>11, <2>1 DEF Scans
<1>13. ~Failing
  BY <1>1 DEF Failing
<1> QED BY <1>6, <1>7, <1>8, <1>12, <1>13 DEF HexIInv

\* And in the next state when that is one in which a file begins.
LEMMA BeginsAgain ==
    Begins' => HexIInv'
BY BeginsHolds, PTL

\* The next file, or the same one again.
LEMMA ResetKeeps ==
    ASSUME AllWellFormed, HexIInv, Reset
    PROVE  HexIInv'
<1>1. /\ pc \in {"idle", "failed"} /\ parser' = reset_hex_parser
      /\ file' \in Files /\ pos' = 0 /\ aligned' = TRUE
      /\ flashed' = << >> /\ pc' = "idle"
      /\ blob' = blob /\ parsed' = parsed /\ buf' = buf /\ start' = start /\ status' = status
  BY DEF Reset
<1>2. HexTypes /\ BlobState
  BY DEF HexIInv
<1>3. blob = << >> /\ parsed = 0 /\ buf = << >>
  BY <1>1, <1>2 DEF BlobState
<1>4. start \in Nat /\ status \in {"OK", "EOF", "UNALIGNED", "CKSUM_FAIL"}
  BY <1>2 DEF HexTypes, HexTypeOK
<1>5. Begins'
  <2>1. AllWellFormed'
    BY DEF AllWellFormed
  <2> QED BY <1>1, <1>3, <1>4, <2>1 DEF Begins
<1> QED BY <1>5, BeginsAgain

\* A chunk is some of the characters of the file.
LEMMA ChunkIs ==
    ASSUME AllWellFormed, NEW f \in Files, NEW p \in Nat, NEW n \in Nat \ {0}, p + n <= Len(f)
    PROVE  LET b == SubSeq(f, p + 1, p + n)
           IN  /\ IsSeq(b) /\ Len(b) = n
               /\ \A k \in 1 .. n : b[k] = f[p + k]
<1> DEFINE S == {f[k] : k \in DOMAIN f}
           b == SubSeq(f, p + 1, p + n)
<1>1. WellFormed(f)
  BY DEF AllWellFormed
<1>2. Len(f) \in Nat /\ DOMAIN f = 1 .. Len(f)
  BY <1>1, FileLength
<1>3. \A i \in p + 1 .. p + n : f[i] \in S
  BY <1>2
<1> HIDE DEF S
<1>4. p + 1 \in Int /\ p + n \in Int
  OBVIOUS
<1>5. /\ b \in Seq(S) /\ Len(b) = (IF p + 1 <= p + n THEN (p + n) - (p + 1) + 1 ELSE 0)
      /\ \A k \in 1 .. (p + n) - (p + 1) + 1 : b[k] = f[(p + 1) + k - 1]
  BY <1>3, <1>4, SubSeqProperties
<1>6. IsSeq(b)
  BY <1>5, SeqIs
<1> HIDE DEF b
<1>7. Len(b) = n
  BY <1>5
<1>8. ASSUME NEW k \in 1 .. n
      PROVE  b[k] = f[p + k]
  <2>1. k \in 1 .. (p + n) - (p + 1) + 1 /\ (p + 1) + k - 1 = p + k
    OBVIOUS
  <2> QED BY <1>5, <2>1
<1> QED BY <1>6, <1>7, <1>8 DEF b

\* The next chunk of the file.
LEMMA WriteKeeps ==
    ASSUME AllWellFormed, HexIInv, NEW n \in 1 .. MaxChunk, Write(n)
    PROVE  HexIInv'
<1>1. /\ pc = "idle" /\ pos + n <= Len(file) /\ pc' = "parse"
      /\ blob' = SubSeq(file, pos + 1, pos + n) /\ pos' = pos + n
      /\ aligned' = (aligned /\ \A k \in 2 .. n : ~(IsColon(blob'[k]) /\ blob'[k].block))
      /\ parser' = parser /\ parsed' = parsed /\ buf' = buf /\ start' = start
      /\ status' = status /\ flashed' = flashed /\ file' = file
  BY DEF Write
<1>2. HexTypes /\ BlobState /\ ~Failing
  BY <1>1 DEF HexIInv, Failing
<1>3. /\ blob = << >> /\ parsed = 0 /\ buf = << >> /\ Len(<< >>) = 0
      /\ Len(blob) = 0 /\ Len(buf) = 0
  BY <1>1, <1>2, EmptySeq DEF BlobState
<1>4. /\ pos \in Nat /\ Next_addr \in Nat /\ file \in Files /\ n \in Nat \ {0} /\ n \in Nat
      /\ WellFormed(file) /\ Lines(file) \in Nat /\ Consumed = (pos - Len(blob)) + parsed
      /\ Len(file) \in Nat
  <2>1. n \in Nat \ {0} /\ n \in Nat
    BY HexAssumption
  <2> QED BY <1>2, <2>1, TypesAre DEF HexTypes
<1>5. /\ IsSeq(blob') /\ Len(blob') = n
      /\ \A k \in 1 .. n : blob'[k] = file[pos + k]
  BY <1>1, <1>4, ChunkIs
<1>6. pos' - Len(blob') = pos
  BY <1>1, <1>4, <1>5
<1>7. HexTypes'
  <2>1. parsed' \in 0 .. Len(blob')
    BY <1>1, <1>3, <1>4, <1>5
  <2>2. HexTypeOK'
    BY <1>1, <1>2, <2>1 DEF HexTypes, HexTypeOK
  <2>3. aligned' \in BOOLEAN
    BY <1>1
  <2>4. pos' \in 0 .. Len(file')
    BY <1>1, <1>4
  <2>5. Len(buf') <= Next_addr'
    <3>1. Len(buf') = 0 /\ Next_addr' = Next_addr
      BY <1>1, <1>3 DEF Next_addr
    <3> QED BY <1>4, <3>1
  <2>6. /\ file' \in Files /\ parser' \in ParserType(file') /\ buf' \in Seq(BytesOf(file'))
        /\ flashed' \in Seq(Cells(file'))
    BY <1>1, <1>2 DEF HexTypes
  <2> QED BY <2>2, <2>3, <2>4, <2>5, <2>6 DEF HexTypes
<1>8. BlobState'
  <2>1. Len(blob') <= pos'
    <3>1. pos' = pos + n /\ Len(blob') = n /\ pos \in Nat /\ n \in Nat
      BY <1>1, <1>4, <1>5
    <3> QED BY ONLY <3>1
  <2>2. \A k \in 1 .. Len(blob') : blob'[k] = file'[(pos' - Len(blob')) + k]
    BY <1>1, <1>5, <1>6
  <2>3. parsed' = 0 /\ buf' = << >> /\ pc' = "parse"
    BY <1>1, <1>3
  <2>4. aligned' => \A k \in 2 .. Len(blob') : ~(IsColon(blob'[k]) /\ blob'[k].block)
    BY <1>1, <1>5
  <2>5. blob' # << >>
    BY <1>3, <1>4, <1>5
  <2> QED BY <1>5, <2>1, <2>2, <2>3, <2>4, <2>5 DEF BlobState
<1>9. ~Failing' /\ Skipping' = Skipping /\ Ended' = Ended /\ Pending' = Pending /\ Next_addr' = Next_addr
  BY <1>1 DEF Failing, Skipping, Ended, Pending, Next_addr
<1>10. Held' = Held /\ (aligned' => aligned)
  <2>1. BufferAt' = BufferAt
    BY <1>1 DEF BufferAt, Next_addr
  <2>2. Out' = Out
    BY <1>1, <2>1 DEF Out
  <2> QED BY <1>1, <2>2 DEF Held, Pending, RecordAddr
<1>11. Consumed = pos /\ Consumed' = pos
  <2>1. Consumed = pos
    BY <1>3, <1>4
  <2>2. Consumed' = (pos' - Len(blob')) + parsed'
    BY DEF Consumed
  <2> QED BY <1>1, <1>3, <1>4, <1>6, <2>1, <2>2
<1>12. ASSUME NEW s, Justified(s)
       PROVE  Justified(s)'
  BY <1>1, <1>9, <1>12 DEF Justified
<1>13. CASE Skipping
  <2>1. SkipState
    BY <1>2, <1>13 DEF HexIInv
  <2>2. SkippedTo = pos /\ SkippedTo' = pos
    BY <1>1, <1>6 DEF SkippedTo
  <2>3. PICK s : s = MeansAt(file, Count(file, pos)).bytes
    OBVIOUS
  <2>4. Justified(s)'
    BY <1>12, <2>1, <2>2, <2>3 DEF SkipState
  <2>5. Justified(MeansAt(file, Count(file, SkippedTo)).bytes)'
    BY <1>1, <2>2, <2>3, <2>4 DEF Justified
  <2>6. aligned' =>
         \E l \in 0 .. Lines(file') - 1 :
            /\ RecordAt(file', l).type = "data"
            /\ MeansAt(file', l + 1).version = parser'.binary_version
            /\ Held' = MeansAt(file', l + 1).bytes
            /\ l + 1 <= Count(file, SkippedTo)'
            /\ ~BlockIn(file', l, SkippedTo')
    BY <1>1, <1>10, <2>1, <2>2 DEF SkipState
  <2>7. ~Pending' /\ ~Ended' /\ parser'.binary_version # 0 /\ HasVersions(file') /\ pc' = "parse"
    BY <1>1, <1>9, <2>1 DEF SkipState
  <2>8. SkipState'
    BY <2>5, <2>6, <2>7 DEF SkipState
  <2> QED BY <1>7, <1>8, <1>9, <1>13, <2>8 DEF HexIInv
<1>14. CASE ~Skipping /\ Ended
  <2>1. EndState
    BY <1>2, <1>14 DEF HexIInv
  <2>2. ~Pending' /\ Lines(file) > 0 /\ pos >= Len(file) - 1 /\ Consumed >= Len(file) - 1
    BY <1>1, <1>9, <2>1 DEF EndState
  <2>3. PICK s : s = MeansAt(file, Lines(file)).bytes
    OBVIOUS
  <2>4. Justified(s)' /\ (aligned' => Held' = s)
    BY <1>1, <1>10, <1>12, <2>1, <2>3 DEF EndState, HeldIs
  <2>5. HeldIs(MeansAt(file, Lines(file)).bytes)'
    BY <1>1, <2>3, <2>4 DEF HeldIs, Justified
  <2>6. pos' >= Len(file') - 1 /\ Consumed' >= Len(file') - 1
    BY <1>1, <1>4, <1>11, <2>2
  <2>7. EndState'
    BY <1>1, <2>2, <2>5, <2>6 DEF EndState
  <2> QED BY <1>7, <1>8, <1>9, <1>14, <2>7 DEF HexIInv
<1>15. CASE ~Skipping /\ ~Ended
  <2>1. PICK i \in 0 .. Lines(file), o \in 0 .. LineLength - 1, c \in 0 .. Lines(file) : ScanState(i, o, c)
    BY <1>2, <1>15 DEF HexIInv, Scans
  <2>2. ~Pending
    BY <1>1, <2>1 DEF ScanState, PendingIs
  <2>3. PICK s : s = MeansAt(file, c).bytes
    OBVIOUS
  <2>4. Justified(s)' /\ (aligned' => Held' = s)
    BY <1>1, <1>10, <1>12, <2>1, <2>3 DEF ScanState, HeldIs
  <2>5. ScanState(i, o, c)'
    <3>1. LineAt(i) + o = Consumed' /\ LineState(i, o, c)
      BY <1>11, <2>1 DEF ScanState
    <3>2. LineState(i, o, c)'
      BY <1>1, <3>1 DEF LineState
    <3>3. VersionIs(MeansAt(file, c))'
      BY <1>1, <1>10, <2>1 DEF ScanState, VersionIs
    <3>4. ~MeansAt(file, c).ended' /\ (aligned' => Based(file', Next_addr', MeansAt(file, c)', c))
      BY <1>1, <1>9, <1>10, <2>1 DEF ScanState
    <3>5. PendingIs(MeansAt(file, c), c)'
      BY <1>9, <2>2 DEF PendingIs
    <3>6. HeldIs(MeansAt(file, c).bytes)'
      BY <1>1, <2>3, <2>4 DEF HeldIs, Justified
    <3> QED BY <1>1, <3>1, <3>2, <3>3, <3>4, <3>5, <3>6 DEF ScanState
  <2>6. Scans'
    BY <1>1, <2>1, <2>5 DEF Scans
  <2> QED BY <1>7, <1>8, <1>9, <1>15, <2>6 DEF HexIInv
<1> QED BY <1>13, <1>14, <1>15

\* What leaves the variables alone leaves the invariant alone.
LEMMA StutterKeeps ==
    ASSUME HexIInv, UNCHANGED vars
    PROVE  HexIInv'
<1>1. /\ parser' = parser /\ blob' = blob /\ parsed' = parsed /\ buf' = buf /\ start' = start
      /\ status' = status /\ pc' = pc /\ flashed' = flashed /\ file' = file /\ pos' = pos
      /\ aligned' = aligned
  BY DEF vars
<1>2. /\ Failing' = Failing /\ Skipping' = Skipping /\ Ended' = Ended /\ Pending' = Pending
      /\ Next_addr' = Next_addr /\ Consumed' = Consumed /\ SkippedTo' = SkippedTo
  BY <1>1 DEF Failing, Skipping, Ended, Pending, Next_addr, Consumed, SkippedTo
<1>3. Held' = Held
  BY <1>1, <1>2 DEF Held, Out, BufferAt, RecordAddr, Next_addr, Pending
<1>4. HexTypes' = HexTypes /\ BlobState' = BlobState
  BY <1>1 DEF HexTypes, HexTypeOK, BlobState, Skipping, Next_addr
<1>5. FailState' = FailState
  BY <1>1 DEF FailState, Meaning
<1>6. SkipState' = SkipState
  BY <1>1, <1>2, <1>3 DEF SkipState, Justified
<1>7. EndState' = EndState
  BY <1>1, <1>2, <1>3 DEF EndState, HeldIs, Justified
<1>8. Scans' = Scans
  BY <1>1, <1>2, <1>3 DEF Scans, ScanState, LineState, VersionIs, PendingIs, HeldIs, Justified
<1> QED BY <1>2, <1>4, <1>5, <1>6, <1>7, <1>8 DEF HexIInv

-----------------------------------------------------------------------------
(***************************************************************************)
(* The parser is called.                                                   *)
(***************************************************************************)

\* What is held when no record is pending is what is out: in the next state, too.
LEMMA OutThen ==
    ~Pending' /\ Out' \in Seq(Cells(file))' => Held' = Out'
<1> SUFFICES ASSUME ~Pending', Out' \in Seq(Cells(file))'
             PROVE  Held' = Out'
  OBVIOUS
<1>1. Held' = Out' \o << >>
  BY DEF Held
<1> QED BY <1>1, ConcatEmptySeq

\* The record that is loaded goes into the buffer: nothing is lost or gained.
LEMMA EnterIs ==
    ASSUME AllWellFormed, HexTypes, BlobState, Enter
    PROVE  /\ HexTypes' /\ BlobState' /\ ~Failing' /\ ~Skipping' /\ ~Pending' /\ Ended' = Ended
           /\ Held' = Held /\ Consumed' = Consumed /\ Consumed = pos - Len(blob)
           /\ \A s : Justified(s) => Justified(s)'
           /\ pc = "parse" /\ pc' = "scan" /\ parsed = 0 /\ parsed' = 0
           /\ parser'.line = parser.line /\ parser'.low_nibble = parser.low_nibble
           /\ parser'.idx = parser.idx /\ parser'.record_processed = parser.record_processed
           /\ parser'.binary_version = parser.binary_version
           /\ Next_addr' = IF Pending THEN High(Next_addr) + parser.line.value + Len(parser.line.data)
                           ELSE Next_addr
<1> DEFINE p == [parser EXCEPT !.skip_until_aligned = FALSE, !.load_unaligned_record = FALSE]
           d == parser.line.data
<1>1. /\ pc = "parse" /\ pc' = "scan" /\ parsed' = 0
      /\ start' = start /\ status' = status /\ blob' = blob /\ flashed' = flashed
      /\ file' = file /\ pos' = pos /\ aligned' = aligned
      /\ IF Pending THEN buf' = p.line.data /\ parser' = After(p) ELSE buf' = << >> /\ parser' = p
  BY DEF Enter, Continue, Quiet, Pending
<1>2. buf = << >> /\ parsed = 0 /\ Len(<< >>) = 0 /\ Len(buf) = 0
  BY <1>1, EmptySeq DEF BlobState
<1>3. /\ parser \in ParserType(file) /\ Next_addr \in Nat /\ pos \in Nat /\ Len(blob) \in Nat /\ Len(blob) <= pos
      /\ Consumed = (pos - Len(blob)) + parsed
  BY TypesAre
<1>4. /\ parser.line.value \in Nat /\ d \in Seq(BytesOf(file)) /\ RecordAddr(parser) \in Nat /\ Len(d) \in Nat
  BY LineTypes, LenProperties
<1>5. /\ p \in ParserType(file) /\ p.line = parser.line
      /\ p.low_nibble = parser.low_nibble /\ p.idx = parser.idx
      /\ p.record_processed = parser.record_processed /\ p.binary_version = parser.binary_version
      /\ p.next_address_to_write = Next_addr /\ p.skip_until_aligned = FALSE /\ p.load_unaligned_record = FALSE
  BY <1>3 DEF ParserType, Next_addr
<1> HIDE DEF p
<1>6. RecordAddr(p) = RecordAddr(parser)
  BY <1>5 DEF RecordAddr, Next_addr
<1>7. /\ After(p) \in ParserType(file) /\ After(p).line = parser.line
      /\ After(p).low_nibble = parser.low_nibble /\ After(p).idx = parser.idx
      /\ After(p).record_processed = parser.record_processed /\ After(p).binary_version = parser.binary_version
      /\ After(p).next_address_to_write = RecordAddr(parser) + Len(d)
      /\ After(p).skip_until_aligned = FALSE /\ After(p).load_unaligned_record = FALSE
  <2> DEFINE a == RecordAddr(parser) + Len(d)
  <2>1. a \in Nat
    BY <1>4
  <2>2. After(p) = [p EXCEPT !.next_address_to_write = a]
    BY <1>5, <1>6 DEF After
  <2> HIDE DEF a
  <2>3. /\ After(p) \in ParserType(file) /\ After(p).line = parser.line
        /\ After(p).low_nibble = parser.low_nibble /\ After(p).idx = parser.idx
        /\ After(p).record_processed = parser.record_processed /\ After(p).binary_version = parser.binary_version
        /\ After(p).next_address_to_write = a
        /\ After(p).skip_until_aligned = FALSE /\ After(p).load_unaligned_record = FALSE
    BY <1>5, <2>1, <2>2 DEF ParserType
  <2> QED BY <2>3 DEF a
<1>8. /\ parser' \in ParserType(file) /\ parser'.line = parser.line
      /\ parser'.low_nibble = parser.low_nibble /\ parser'.idx = parser.idx
      /\ parser'.record_processed = parser.record_processed /\ parser'.binary_version = parser.binary_version
      /\ parser'.skip_until_aligned = FALSE /\ parser'.load_unaligned_record = FALSE
      /\ parser'.next_address_to_write = (IF Pending THEN RecordAddr(parser) + Len(d) ELSE Next_addr)
      /\ buf' = (IF Pending THEN d ELSE << >>)
  BY <1>1, <1>5, <1>7
<1>9. ~Failing' /\ ~Skipping' /\ ~Pending' /\ Ended' = Ended
  BY <1>1, <1>8 DEF Failing, Skipping, Pending, Ended
<1>10. Next_addr' = (IF Pending THEN RecordAddr(parser) + Len(d) ELSE Next_addr)
  BY <1>8 DEF Next_addr
<1>11. HexTypes'
  <2>1. parser'.idx \in 0 .. RecordBytes + 1
    BY <1>8 DEF ParserType
  <2>2. parsed' \in 0 .. Len(blob')
    BY <1>1, <1>3
  <2>3. HexTypeOK'
    BY <1>1, <2>1, <2>2 DEF HexTypes, HexTypeOK
  <2>4. buf' \in Seq(BytesOf(file'))
    BY <1>1, <1>4, <1>8
  <2>5. Len(buf') <= Next_addr'
    <3>1. CASE Pending
      BY <1>4, <1>8, <1>10, <3>1
    <3>2. CASE ~Pending
      BY <1>2, <1>3, <1>8, <1>10, <3>2
    <3> QED BY <3>1, <3>2
  <2>6. /\ file' \in Files /\ pos' \in 0 .. Len(file') /\ aligned' \in BOOLEAN
        /\ flashed' \in Seq(Cells(file')) /\ parser' \in ParserType(file')
    BY <1>1, <1>8 DEF HexTypes
  <2> QED BY <2>3, <2>4, <2>5, <2>6 DEF HexTypes
<1>12. BlobState'
  BY <1>1, <1>9 DEF BlobState
<1>13. Consumed' = Consumed /\ Consumed = pos - Len(blob)
  BY <1>1, <1>2, <1>3 DEF Consumed
<1>14. Out = flashed
  <2>1. Located(BufferAt, << >>) = << >>
    BY NothingLocated
  <2>2. flashed \in Seq(Cells(file))
    BY TypesAre
  <2> QED BY <1>2, <2>1, <2>2, ConcatEmptySeq DEF Out
<1>15. Held' = Held
  <2>1. Out' = flashed \o Located(BufferAt', buf')
    BY <1>1 DEF Out
  <2>2. CASE Pending
    <3>1. pc' # "parsed" /\ Next_addr' - Len(buf') = RecordAddr(parser)
      <4>1. Next_addr' = RecordAddr(parser) + Len(d) /\ buf' = d
        BY <1>8, <1>10, <2>2
      <4> QED BY <1>1, <1>4, <4>1
    <3>2. BufferAt' = RecordAddr(parser)
      BY <3>1 DEF BufferAt
    <3>3. buf' = d
      BY <1>8, <2>2
    <3>4. Held = Out \o Located(RecordAddr(parser), d)
      BY <2>2 DEF Held
    <3>5. Out' = Held
      BY <1>14, <2>1, <3>2, <3>3, <3>4
    <3> QED BY <1>1, <1>9, <3>5, HeldTypes, OutThen
  <2>3. CASE ~Pending
    <3>1. Located(BufferAt', << >>) = << >> /\ buf' = << >>
      BY <1>8, <2>3, NothingLocated
    <3>2. flashed \in Seq(Cells(file))
      BY TypesAre
    <3>3. Out' = flashed
      BY <2>1, <3>1, <3>2, ConcatEmptySeq
    <3>4. Held = Out
      BY <2>3, OutIs
    <3> QED BY <1>1, <1>9, <1>14, <3>2, <3>3, <3>4, OutThen
  <2> QED BY <2>2, <2>3
<1>16. ASSUME NEW s, Justified(s)
       PROVE  Justified(s)'
  <2>1. \A k \in DOMAIN buf' : Among(buf'[k], s)
    BY <1>8, <1>16 DEF Justified
  <2> QED BY <1>1, <1>9, <1>16, <2>1 DEF Justified
<1>17. RecordAddr(parser) + Len(d) = High(Next_addr) + parser.line.value + Len(parser.line.data)
  BY DEF RecordAddr, Next_addr
<1> QED BY <1>1, <1>2, <1>8, <1>9, <1>10, <1>11, <1>12, <1>13, <1>15, <1>16, <1>17

\* A call of the parser: it begins with the next block, loads a record, or goes on.
LEMMA EnterKeeps ==
    ASSUME AllWellFormed, HexIInv, Enter
    PROVE  HexIInv'
<1>1. /\ pc = "parse" /\ blob' = blob /\ flashed' = flashed
      /\ file' = file /\ pos' = pos /\ aligned' = aligned
      /\ Skipping => IsColon(blob[1])
  BY DEF Enter, Continue, Quiet, Skipping
<1>2. HexTypes /\ BlobState /\ ~Failing
  BY <1>1 DEF HexIInv, Failing
<1>3. /\ HexTypes' /\ BlobState' /\ ~Failing' /\ ~Skipping' /\ ~Pending' /\ Ended' = Ended
      /\ Held' = Held /\ Consumed' = Consumed /\ Consumed = pos - Len(blob)
      /\ \A s : Justified(s) => Justified(s)'
      /\ pc' = "scan" /\ parsed = 0 /\ parsed' = 0
      /\ parser'.line = parser.line /\ parser'.low_nibble = parser.low_nibble
      /\ parser'.idx = parser.idx /\ parser'.record_processed = parser.record_processed
      /\ parser'.binary_version = parser.binary_version
      /\ Next_addr' = IF Pending THEN High(Next_addr) + parser.line.value + Len(parser.line.data)
                      ELSE Next_addr
  BY <1>2, EnterIs
<1>4. /\ WellFormed(file) /\ Lines(file) \in Nat /\ Len(file) \in Nat /\ Next_addr \in Nat
      /\ pos \in Nat /\ pos <= Len(file) /\ Len(blob) \in Nat /\ Len(blob) <= pos
  BY <1>2, TypesAre
<1>5. LineLength \in Nat /\ LineLength > 1 /\ 0 \in 0 .. LineLength - 1 /\ 0 # LineLength - 1
  BY LinesLie
<1>6. ASSUME NEW c, NEW s, s = MeansAt(file, c).bytes, Justified(s), aligned => Held = s
      PROVE  HeldIs(MeansAt(file, c).bytes)'
  <2>1. HeldIs(s)'
    BY <1>1, <1>3, <1>6 DEF HeldIs
  <2> QED BY <1>1, <1>6, <2>1 DEF HeldIs, Justified
<1>7. CASE Skipping
  <2>1. SkipState /\ SkippedTo = pos - Len(blob)
    BY <1>1, <1>2, <1>7 DEF HexIInv, SkippedTo
  <2> DEFINE q == pos - Len(blob)
  <2>2. blob # << >> /\ ~Ended /\ ~Pending /\ parser.binary_version # 0 /\ HasVersions(file)
    BY <1>1, <1>2, <1>7, <2>1 DEF BlobState, SkipState
  <2>3. Len(blob) > 0
    <3>1. IsSeq(blob)
      BY <1>2 DEF BlobState
    <3>2. PICK S : blob \in Seq(S)
      BY <3>1 DEF IsSeq
    <3>3. Len(blob) \in Nat \ {0}
      BY <2>2, <3>2, EmptySeq
    <3> QED BY <3>3
  <2>4. q \in Nat /\ q \in 0 .. Len(file) - 1 /\ 1 \in 1 .. Len(blob)
    BY <1>4, <2>3
  <2>5. IsColon(file[q + 1])
    BY <1>1, <1>2, <1>7, <2>4 DEF BlobState
  <2> HIDE DEF q
  <2>6. PICK i \in 0 .. Lines(file) - 1 : q = LineAt(i)
    <3>1. PICK i \in 0 .. Lines(file) - 1, o \in 0 .. LineLength - 1 : q = LineAt(i) + o
      BY <1>4, <2>4, PlaceOf
    <3>2. IsColon(file[LineAt(i) + o + 1]) <=> o = 0
      BY <1>4, CharTells
    <3>3. o = 0
      BY <2>5, <3>1, <3>2
    <3>4. LineAt(i) \in Nat
      BY <1>4, LinesLie
    <3> QED BY <3>1, <3>3, <3>4
  <2>7. i \in 0 .. Lines(file) /\ i \in Nat /\ LineAt(i) \in Nat /\ LineAt(i) + 0 = LineAt(i)
        /\ LineAt(i) + 0 <= Len(file)
    <3>1. i \in 0 .. Lines(file) /\ i \in Nat
      BY <1>4
    <3>2. LineAt(i) \in Nat
      BY <3>1, LinesLie
    <3> QED BY <1>4, <2>4, <2>6, <3>1, <3>2
  <2>8. Count(file, q) = i
    <3>1. Count(file, LineAt(i) + 0) = i
      BY <1>4, <1>5, <2>7, CountIs
    <3> QED BY <2>6, <2>7, <3>1
  <2>9. Justified(MeansAt(file, i).bytes)
    BY <2>1, <2>8 DEF SkipState, q
  <2>10. ~MeansAt(file, i).ended
    BY <1>4, <2>2, NotEnded
  <2>11. aligned => /\ MeansAt(file, i).version = parser.binary_version
                    /\ Held = MeansAt(file, i).bytes
                    /\ ~(i > 0 /\ BlockAt(file, i - 1))
    <3> SUFFICES ASSUME aligned
                 PROVE  /\ MeansAt(file, i).version = parser.binary_version
                        /\ Held = MeansAt(file, i).bytes
                        /\ ~(i > 0 /\ BlockAt(file, i - 1))
      OBVIOUS
    <3>1. PICK l \in 0 .. Lines(file) - 1 :
            /\ RecordAt(file, l).type = "data"
            /\ MeansAt(file, l + 1).version = parser.binary_version
            /\ Held = MeansAt(file, l + 1).bytes
            /\ l + 1 <= i
            /\ ~BlockIn(file, l, q)
      BY <2>1, <2>8 DEF SkipState, q
    <3>2. i \in l + 1 .. Lines(file) /\ LineAt(i) <= q + 1
      BY <1>4, <2>6, <2>7, <3>1
    <3>3. /\ MeansAt(file, i).version = MeansAt(file, l + 1).version
          /\ MeansAt(file, i).bytes = MeansAt(file, l + 1).bytes
      BY <1>4, <2>2, <2>4, <3>1, <3>2, SkippedSays
    <3>4. ASSUME BlockAt(file, i - 1), i > 0
          PROVE  FALSE
      <4>1. i - 1 \in 0 .. Lines(file) - 1 /\ i - 1 \in Nat /\ (i - 1) + 1 = i
        BY <1>4, <2>7, <3>4
      <4>2. IsExtended(RecordAt(file, i - 1))
        BY <1>4, <3>4, <4>1, RecordIs
      <4>3. i - 1 # l
        BY <3>1, <4>2 DEF IsExtended
      <4>4. l < i - 1
        BY <1>4, <2>7, <3>1, <4>3
      <4>5. LineAt(i) = LineAt(i - 1) + LineLength /\ LineAt(i - 1) \in Nat
        BY <4>1, LinesLie
      <4>6. LineAt(i - 1) < q
        BY <1>5, <2>6, <4>5
      <4> QED BY <3>1, <3>4, <4>1, <4>4, <4>6 DEF BlockIn
    <3> QED BY <3>1, <3>3, <3>4
  <2>12. ScanState(i, 0, i)'
    <3>1. LineAt(i) + 0 = Consumed'
      BY <1>3, <2>6, <2>7 DEF q
    <3>2. LineState(i, 0, i)'
      BY DEF LineState
    <3>3. VersionIs(MeansAt(file, i))'
      BY <1>1, <1>3, <2>2, <2>11 DEF VersionIs
    <3>4. ~MeansAt(file, i).ended'
      BY <1>1, <2>10
    <3>5. aligned' => Based(file', Next_addr', MeansAt(file, i)', i)
      BY <1>1, <2>2, <2>11 DEF Based
    <3>6. PendingIs(MeansAt(file, i), i)'
      BY <1>3 DEF PendingIs
    <3>7. HeldIs(MeansAt(file, i).bytes)'
      BY <1>6, <2>9, <2>11
    <3>8. pc' # "parsed"
      BY <1>3
    <3> QED BY <3>1, <3>2, <3>3, <3>4, <3>5, <3>6, <3>7, <3>8 DEF ScanState
  <2>13. Scans'
    BY <1>1, <1>5, <2>7, <2>12 DEF Scans
  <2> QED BY <1>3, <2>2, <2>13 DEF HexIInv
<1>8. CASE ~Skipping /\ Ended
  <2>1. EndState
    BY <1>2, <1>8 DEF HexIInv
  <2>2. Lines(file) > 0 /\ pos >= Len(file) - 1 /\ Consumed >= Len(file) - 1
    BY <1>1, <2>1 DEF EndState
  <2>3. HeldIs(MeansAt(file, Lines(file)).bytes)'
    <3>1. PICK c : c = Lines(file)
      OBVIOUS
    <3>2. Justified(MeansAt(file, c).bytes) /\ (aligned => Held = MeansAt(file, c).bytes)
      BY <2>1, <3>1 DEF EndState, HeldIs
    <3>3. HeldIs(MeansAt(file, c).bytes)'
      BY <1>6, <3>2
    <3> QED BY <1>1, <3>1, <3>3 DEF HeldIs, Justified
  <2>4. EndState'
    BY <1>1, <1>3, <2>2, <2>3 DEF EndState
  <2> QED BY <1>3, <1>8, <2>4 DEF HexIInv
<1>9. CASE ~Skipping /\ ~Ended
  <2>1. PICK i \in 0 .. Lines(file), o \in 0 .. LineLength - 1, c \in 0 .. Lines(file) : ScanState(i, o, c)
    BY <1>2, <1>9 DEF HexIInv, Scans
  <2>2. /\ LineAt(i) + o = Consumed /\ LineState(i, o, c) /\ VersionIs(MeansAt(file, c))
        /\ ~MeansAt(file, c).ended /\ PendingIs(MeansAt(file, c), c) /\ HeldIs(MeansAt(file, c).bytes)
        /\ aligned => Based(file, Next_addr, MeansAt(file, c), c)
    BY <2>1 DEF ScanState
  <2>3. LineState(i, o, c)'
    <3>1. parsed < Len(blob) => parsed' < Len(blob')
      BY <1>1, <1>3
    <3> QED BY <1>1, <1>3, <2>2, <3>1 DEF LineState
  <2>4. aligned => Based(file, Next_addr', MeansAt(file, c), c)
    <3>1. CASE ~Pending
      BY <1>3, <2>2, <3>1
    <3>2. CASE Pending /\ aligned
      <4>1. /\ c > 0 /\ parser.line = RecordAt(file, c - 1) /\ parser.line.type = "data"
            /\ High(Next_addr) = MeansAt(file, c).base
        BY <2>2, <3>2 DEF PendingIs
      <4>2. c - 1 \in 0 .. Lines(file) - 1 /\ (c - 1) + 1 = c
        BY <1>4, <4>1
      <4>3. PICK meant : meant = MeansAt(file, c)
        OBVIOUS
      <4> DEFINE n == High(Next_addr) + RecordAt(file, c - 1).value + Len(RecordAt(file, c - 1).data)
      <4>4. Based(file, n, meant, (c - 1) + 1)
        BY <1>4, <4>1, <4>2, <4>3, DataBased
      <4>5. Next_addr' = n
        BY <1>3, <3>2, <4>1
      <4> HIDE DEF n
      <4> QED BY <4>2, <4>3, <4>4, <4>5
    <3> QED BY <3>1, <3>2
  <2>5. ScanState(i, o, c)'
    <3>1. LineAt(i) + o = Consumed'
      BY <1>3, <2>2
    <3>2. VersionIs(MeansAt(file, c))'
      BY <1>1, <1>3, <2>2 DEF VersionIs
    <3>3. ~MeansAt(file, c).ended' /\ (aligned' => Based(file', Next_addr', MeansAt(file, c)', c))
      BY <1>1, <2>2, <2>4
    <3>4. PendingIs(MeansAt(file, c), c)'
      BY <1>3 DEF PendingIs
    <3>5. HeldIs(MeansAt(file, c).bytes)'
      BY <1>6, <2>2 DEF HeldIs
    <3>6. pc' # "parsed"
      BY <1>3
    <3> QED BY <2>3, <3>1, <3>2, <3>3, <3>4, <3>5, <3>6 DEF ScanState
  <2>6. Scans'
    BY <1>1, <2>1, <2>5 DEF Scans
  <2> QED BY <1>3, <1>9, <2>6 DEF HexIInv
<1> QED BY <1>7, <1>8, <1>9

-----------------------------------------------------------------------------
\* Every step keeps the invariant.
LEMMA NextKeeps ==
    ASSUME AllWellFormed, HexIInv, [Next]_vars
    PROVE  HexIInv'
<1>1. CASE Parse
  BY <1>1, SkipBlobKeeps, EnterKeeps, EndOfBlobKeeps, LineEndKeeps, ColonKeeps, HighDigitKeeps, LowDigitKeeps,
     ChecksumFailsKeeps, AgainKeeps, MetadataKeeps, DataKeeps, DataUnalignedKeeps, DataOfOtherKeeps,
     EndOfFileKeeps, ExtendedAddrKeeps, OtherRecordKeeps DEF Parse
<1>2. CASE FlashWrite
  BY <1>2, FlashWriteKeeps
<1>3. CASE WriteFails
  BY <1>3, WriteFailsKeeps
<1>4. CASE Reset
  BY <1>4, ResetKeeps
<1>5. ASSUME NEW n \in 1 .. MaxChunk, Write(n)
      PROVE  HexIInv'
  BY <1>5, WriteKeeps
<1>6. CASE UNCHANGED vars
  BY <1>6, StutterKeeps
<1> QED BY <1>1, <1>2, <1>3, <1>4, <1>5, <1>6 DEF Next, Step

\* Of well-formed files, whatever their records and chunks: the parser is where its
\* line, its buffer and its flags say, and what is in the flash, in the buffer and in
\* the record to be loaded is what the records consumed mean (parse_hex_blob and
\* write_hex).
THEOREM HexIInvHolds ==
    ASSUME AllWellFormed
    PROVE  Spec => []HexIInv
<1>1. Init => HexIInv
  <2> SUFFICES ASSUME Init
               PROVE  HexIInv
    OBVIOUS
  <2>1. Begins
    BY DEF Init, Begins
  <2> QED BY <2>1, BeginsHolds
<1>2. HexIInv /\ [Next]_vars => HexIInv'
  BY NextKeeps
<1> QED BY <1>1, <1>2, PTL DEF Spec

\* No byte is handed to the flash that the records fed so far do not say: data of
\* another version never are, however the file is cut (skip_until_aligned).
THEOREM HexInvHolds ==
    ASSUME AllWellFormed
    PROVE  Spec => []HexInv
<1>1. ASSUME HexIInv
      PROVE  HexInv
  <2>1. HexTypeOK
    BY <1>1 DEF HexIInv, HexTypes
  <2>2. FailState
    BY <1>1, FlashedIsMeant
  <2>3. OthersSkipped
    BY <2>2 DEF FailState, OthersSkipped, Among
  <2> QED BY <2>1, <2>3 DEF HexInv
<1>2. HexIInv => HexInv
  BY <1>1
<1> QED BY <1>2, HexIInvHolds, PTL

\* Whenever write_hex has returned, the flash has been handed all the complete records
\* fed, each at its address, and before that, or when it fails, the first of them: for
\* every well-formed file, every length of its records and every way to cut it (blocks
\* of several versions beginning their chunks).
THEOREM HexDecodes ==
    ASSUME AllWellFormed
    PROVE  Spec => []Decoded
<1>1. ASSUME HexIInv
      PROVE  Decoded
  <2> SUFFICES ASSUME aligned
               PROVE  /\ IsPrefix(flashed, Meaning(pos))
                      /\ pc = "idle" => flashed = Meaning(pos)
    BY DEF Decoded
  <2>1. HexTypes /\ BlobState
    BY <1>1 DEF HexIInv
  <2>2. IsPrefix(flashed, Meaning(pos))
    BY <1>1, FlashedIsMeant DEF FailState
  <2>3. ASSUME pc = "idle"
        PROVE  flashed = Meaning(pos)
    <3> DEFINE D == Count(file, pos)
    <3>1. /\ pos \in Nat /\ pos \in 0 .. Len(file) /\ WellFormed(file) /\ Lines(file) \in Nat
          /\ flashed \in Seq(Cells(file)) /\ Consumed = (pos - Len(blob)) + parsed
          /\ pos <= Len(file) /\ Len(file) = LineAt(Lines(file))
      BY <2>1, TypesAre
    <3>2. Meaning(pos) = MeansAt(file, D).bytes
      BY <3>1, MeaningIs DEF Meaning
    <3>3. D \in 0 .. Lines(file) /\ LineAt(D) <= pos + 1
      BY <3>1, CountType
    <3>4. buf = << >> /\ blob = << >> /\ parsed = 0 /\ ~Failing
      BY <2>1, <2>3 DEF BlobState, Failing
    <3>5. Out = flashed
      BY <3>1, <3>4, NothingLocated, ConcatEmptySeq DEF Out
    <3>6. ~Pending => Held = flashed
      BY <2>1, <3>5, OutIs
    <3>7. CASE Skipping
      <4>1. SkipState /\ SkippedTo = pos
        BY <1>1, <2>3, <3>4, <3>7 DEF HexIInv, SkippedTo
      <4>2. PICK l \in 0 .. Lines(file) - 1 :
              /\ RecordAt(file, l).type = "data"
              /\ MeansAt(file, l + 1).version # 0
              /\ Held = MeansAt(file, l + 1).bytes
              /\ l + 1 <= D
              /\ ~BlockIn(file, l, pos)
        BY <4>1 DEF SkipState
      <4>3. HasVersions(file) /\ ~Pending
        BY <4>1 DEF SkipState
      <4> HIDE DEF D
      <4>4. D \in l + 1 .. Lines(file)
        BY <3>1, <3>3, <4>2
      <4>5. MeansAt(file, D).bytes = MeansAt(file, l + 1).bytes
        BY <3>1, <3>3, <4>2, <4>3, <4>4, SkippedSays
      <4> QED BY <3>2, <3>6, <4>2, <4>3, <4>5
    <3>8. CASE ~Skipping /\ Ended
      <4>1. EndState
        BY <1>1, <3>4, <3>8 DEF HexIInv
      <4>2. Lines(file) <= D
        BY <2>1, <4>1, EndIsFed
      <4>3. Held = MeansAt(file, Lines(file)).bytes /\ ~Pending
        BY <4>1 DEF EndState, HeldIs
      <4> HIDE DEF D
      <4>4. D = Lines(file)
        BY <3>1, <3>3, <4>2
      <4> QED BY <3>2, <3>6, <4>3, <4>4
    <3>9. CASE ~Skipping /\ ~Ended
      <4>1. PICK i \in 0 .. Lines(file), o \in 0 .. LineLength - 1, c \in 0 .. Lines(file) : ScanState(i, o, c)
        BY <1>1, <3>4, <3>9 DEF HexIInv, Scans
      <4>2. LineAt(i) + o = Consumed /\ LineState(i, o, c) /\ ~Pending /\ Held = MeansAt(file, c).bytes
        BY <2>3, <4>1 DEF ScanState, PendingIs, HeldIs
      <4>3. Consumed = pos
        <5>1. Len(blob) = 0
          BY <3>4, EmptySeq
        <5> QED BY <3>1, <3>4, <5>1
      <4>4. LineAt(i) + o <= Len(file)
        BY <3>1, <4>2, <4>3
      <4>5. Count(file, LineAt(i) + o) = IF o = LineLength - 1 THEN i + 1 ELSE i
        BY <3>1, <4>4, CountIs
      <4>6. D = IF o = LineLength - 1 THEN i + 1 ELSE i
        BY <4>2, <4>3, <4>5
      <4>7. LineLength - 1 = (2 * RecordBytes) + 1 /\ RecordBytes \in Nat /\ RecordBytes >= 1
        BY LinesLie
      <4>8. c = IF o = LineLength - 1 THEN i + 1 ELSE i
        BY <2>3, <4>2, <4>7 DEF LineState
      <4> HIDE DEF D
      <4> QED BY <3>2, <3>6, <4>2, <4>6, <4>8
    <3> QED BY <3>7, <3>8, <3>9
  <2> QED BY <2>2, <2>3
<1>2. HexIInv => Decoded
  BY <1>1
<1> QED BY <1>2, HexIInvHolds, PTL

-----------------------------------------------------------------------------
(***************************************************************************)
(* The records of the merged file.                                         *)
(***************************************************************************)
Rec(e) == Record(Extract(e))
SectorsOf(e) == Extract(e).sectors

\* In a record: where the regions of flash and of RAM begin.
FlashAt(e) == 4 + (2 * Len(SectorsOf(e)))
RamAt(e) == FlashAt(e) + 2 + AlgoSize(e)

StoreCells == UNION {{Rec(e)[i] : i \in 1 .. Length(e)} : e \in Elfs}
\* The table of an algorithm file up to its end mark is a table.
LEMMA BeforeType ==
    ASSUME NEW e \in Elfs
    PROVE  Before(e.sectors) \in Seq(Int \X Int) /\ Len(Before(e.sectors)) <= Len(e.sectors)
<1> DEFINE t == e.sectors
           I == {i \in 1 .. Len(t) : t[i] = SectorEnd}
           end == SelectInSeq(t, LAMBDA s : s = SectorEnd)
<1>1. t \in Seq(Int \X Int)
  BY StoreAssumption
<1>2. end = IF I # {} THEN Min(I) ELSE 0
  BY DEF SelectInSeq
<1>3. I # {} => Min(I) \in I
  <2> SUFFICES ASSUME I # {}
               PROVE  Min(I) \in I
    OBVIOUS
  <2>1. I \in SUBSET Nat
    BY <1>1
  <2>2. \E n \in I : \A m \in I : n <= m
    <3> HIDE DEF I
    <3> QED BY <2>1, Least
  <2> HIDE DEF I
  <2> QED BY <2>2 DEF Min
<1>4. end = 0 \/ end \in 1 .. Len(t)
  BY <1>2, <1>3
<1>5. Before(t) = IF end = 0 THEN t ELSE SubSeq(t, 1, end - 1)
  BY DEF Before
<1> HIDE DEF t, end
<1>6. CASE end = 0
  <2>1. Before(t) = t /\ Len(t) \in Nat
    BY <1>1, <1>5, <1>6
  <2> QED BY <1>1, <2>1 DEF t
<1>7. CASE end # 0
  <2>1. end \in 1 .. Len(t) /\ Len(t) \in Nat
    BY <1>1, <1>4, <1>7
  <2>2. \A i \in 1 .. end - 1 : t[i] \in Int \X Int
    BY <1>1, <2>1
  <2>3. SubSeq(t, 1, end - 1) \in Seq(Int \X Int) /\ Len(SubSeq(t, 1, end - 1)) = end - 1
    BY <1>1, <2>1, <2>2, SubSeqProperties
  <2>4. Before(t) = SubSeq(t, 1, end - 1)
    BY <1>5, <1>7
  <2> QED BY <2>1, <2>3, <2>4 DEF t
<1> QED BY <1>6, <1>7

\* What an algorithm file is made of.
LEMMA ElfTypes ==
    ASSUME NEW e \in Elfs
    PROVE  /\ e.ok \in BOOLEAN /\ e.code \in Nat /\ e.page \in Nat
           /\ AlgoSize(e) \in Nat /\ AlgoSize(e) = HeaderSize + e.code
           /\ SectorsOf(e) \in Seq(Int \X Int) /\ Len(SectorsOf(e)) \in Nat
           /\ FlashAt(e) \in Nat /\ RamAt(e) \in Nat /\ FlashAt(e) >= 4
           /\ RamAt(e) = FlashAt(e) + 2 + AlgoSize(e)
<1>1. /\ e.ok \in BOOLEAN /\ e.code \in Nat /\ e.page \in Nat /\ e.base \in Nat
      /\ HeaderSize \in Nat
  BY StoreAssumption
<1>2. AlgoSize(e) \in Nat /\ AlgoSize(e) = HeaderSize + e.code
  BY <1>1 DEF AlgoSize
<1>3. SectorsOf(e) \in Seq(Int \X Int)
  <2> DEFINE b == Before(e.sectors)
           t == e.sectors
  <2>1. b \in Seq(Int \X Int) /\ t \in Seq(Int \X Int) /\ Len(b) <= Len(t)
    BY BeforeType, StoreAssumption
  <2>2. SectorsOf(e) = [i \in DOMAIN b |-> <<e.base + t[i][1], t[i][2]>>]
    BY DEF SectorsOf, Extract
  <2> HIDE DEF b, t
  <2>3. DOMAIN b = 1 .. Len(b) /\ Len(b) \in Nat /\ \A i \in 1 .. Len(b) : t[i] \in Int \X Int
    BY <2>1
  <2>4. \A i \in 1 .. Len(b) : <<e.base + t[i][1], t[i][2]>> \in Int \X Int
    BY <1>1, <2>3
  <2>5. SectorsOf(e) \in [1 .. Len(b) -> Int \X Int]
    BY <2>2, <2>3, <2>4
  <2> QED BY <2>3, <2>5
<1>4. Len(SectorsOf(e)) \in Nat
  BY <1>3
<1>5. FlashAt(e) \in Nat /\ FlashAt(e) >= 4
  BY <1>4 DEF FlashAt
<1>6. RamAt(e) \in Nat /\ RamAt(e) = FlashAt(e) + 2 + AlgoSize(e)
  BY <1>2, <1>5 DEF RamAt
<1> QED BY <1>1, <1>2, <1>3, <1>4, <1>5, <1>6

\* Of one region: its cells, and their number.
LEMMA OneRegion ==
    ASSUME NEW s PROVE FlattenSeq(<<s>>) = s
<1> DEFINE q == <<s>>
           D(f) == f = [i \in 1 .. 1 |-> IF i = 1 THEN q[i] ELSE f[i - 1] \o q[i]]
           g == [i \in 1 .. 1 |-> s]
           h == CHOOSE f : D(f)
<1>1. Len(q) = 1 /\ q[1] = s
  OBVIOUS
<1>2. D(g)
  BY <1>1
<1>3. D(h)
  BY <1>2
<1>4. h[1] = s
  <2>1. 1 \in 1 .. 1
    OBVIOUS
  <2> HIDE DEF h
  <2> QED BY <1>1, <1>3, <2>1
<1>5. FlattenSeq(q) = h[1]
  BY <1>1 DEF FlattenSeq
<1> QED BY <1>4, <1>5

\* The length of one region, as algorithm_info_write counts it.
LEMMA OneLength ==
    ASSUME NEW r, r.algo.size \in Nat
    PROVE  CountedLength(<<r>>) = 2 + r.algo.size
<1> DEFINE q == <<r>>
           D(f) == f = [n \in 0 .. 1 |-> IF n = 0 THEN 0 ELSE f[n - 1] + 2 + q[n].algo.size]
           g == [n \in 0 .. 1 |-> IF n = 0 THEN 0 ELSE 2 + r.algo.size]
           h == CHOOSE f : D(f)
<1>1. Len(q) = 1 /\ q[1] = r
  OBVIOUS
<1>2. D(g)
  <2>1. g[0] = 0
    OBVIOUS
  <2>2. \A n \in 0 .. 1 : g[n] = IF n = 0 THEN 0 ELSE g[n - 1] + 2 + q[n].algo.size
    BY <1>1, <2>1
  <2> QED BY <2>2
<1>3. D(h)
  BY <1>2
<1>4. h[1] = 2 + r.algo.size
  <2>1. 0 \in 0 .. 1 /\ 1 \in 0 .. 1 /\ 1 - 1 = 0 /\ 1 # 0
    OBVIOUS
  <2> HIDE DEF h
  <2>2. h[0] = 0
    BY <1>3, <2>1
  <2>3. h[1] = h[0] + 2 + r.algo.size
    BY <1>1, <1>3, <2>1
  <2> QED BY <2>2, <2>3
<1>5. CountedLength(q) = h[1]
  BY <1>1 DEF CountedLength
<1> QED BY <1>4, <1>5

\* Places in one sequence behind another.
LEMMA Behind ==
    ASSUME NEW T, NEW s \in Seq(T), NEW t \in Seq(T)
    PROVE  /\ s \o t \in Seq(T) /\ Len(s \o t) = Len(s) + Len(t)
           /\ \A i \in 1 .. Len(s) : (s \o t)[i] = s[i]
           /\ \A i \in 1 .. Len(t) : (s \o t)[Len(s) + i] = t[i]
  OBVIOUS

\* The cells of a region: its header, itself, and its algorithm.
LEMMA RegionIs ==
    ASSUME NEW r, NEW magic, r.algo.size \in Nat, NEW T,
           Tlv(magic, 1 + r.algo.size) \in T, Cell("region", r) \in T,
           \A k \in Nat : Cell("blob", k) \in T
    PROVE  /\ RegionCells(r, magic) \in Seq(T) /\ Len(RegionCells(r, magic)) = 2 + r.algo.size
           /\ RegionCells(r, magic)[1] = Tlv(magic, 1 + r.algo.size)
           /\ RegionCells(r, magic)[2] = Cell("region", r)
           /\ \A k \in 1 .. r.algo.size : RegionCells(r, magic)[2 + k] = Cell("blob", k)
<1> DEFINE h == <<Tlv(magic, 1 + r.algo.size), Cell("region", r)>>
           b == [i \in 1 .. r.algo.size |-> Cell("blob", i)]
<1>1. h \in Seq(T) /\ Len(h) = 2 /\ h[1] = Tlv(magic, 1 + r.algo.size) /\ h[2] = Cell("region", r)
  OBVIOUS
<1>2. b \in Seq(T) /\ Len(b) = r.algo.size /\ \A k \in 1 .. r.algo.size : b[k] = Cell("blob", k)
  OBVIOUS
<1>3. RegionCells(r, magic) = h \o b
  BY DEF RegionCells
<1> HIDE DEF h, b
<1>4. /\ h \o b \in Seq(T) /\ Len(h \o b) = 2 + r.algo.size
      /\ \A i \in 1 .. 2 : (h \o b)[i] = h[i]
      /\ \A i \in 1 .. r.algo.size : (h \o b)[2 + i] = b[i]
  <2>1. /\ h \o b \in Seq(T) /\ Len(h \o b) = Len(h) + Len(b)
        /\ \A i \in 1 .. Len(h) : (h \o b)[i] = h[i]
        /\ \A i \in 1 .. Len(b) : (h \o b)[Len(h) + i] = b[i]
    <3>1. h \in Seq(T) /\ b \in Seq(T)
      BY <1>1, <1>2
    <3> QED BY ONLY <3>1, Behind
  <2> QED BY <1>1, <1>2, <2>1
<1>5. 1 \in 1 .. 2 /\ 2 \in 1 .. 2
  OBVIOUS
<1> QED BY <1>1, <1>2, <1>3, <1>4, <1>5

\* A header and a sector for each sector of a table.
LEMMA SectorsAre ==
    ASSUME NEW P, NEW s \in Seq(P), NEW T, Tlv("SECTOR_INFO", 1) \in T,
           \A p \in P : Cell("sector", p) \in T
    PROVE  /\ SectorCells(s) \in Seq(T) /\ Len(SectorCells(s)) = 2 * Len(s)
           /\ \A j \in 1 .. Len(s) : /\ SectorCells(s)[(2 * j) - 1] = Tlv("SECTOR_INFO", 1)
                                     /\ SectorCells(s)[2 * j] = Cell("sector", s[j])
<1> DEFINE n == Len(s)
           c == SectorCells(s)
<1>1. n \in Nat /\ \A j \in 1 .. n : s[j] \in P
  OBVIOUS
<1>2. c = [i \in 1 .. 2 * n |-> IF i % 2 = 1 THEN Tlv("SECTOR_INFO", 1) ELSE Cell("sector", s[i \div 2])]
  BY DEF SectorCells
<1> HIDE DEF n, c
<1>3. \A i \in 1 .. 2 * n : i % 2 # 1 => i \div 2 \in 1 .. n
  BY <1>1
<1>4. \A i \in 1 .. 2 * n : c[i] \in T
  <2> TAKE i \in 1 .. 2 * n
  <2>1. CASE i % 2 = 1
    BY <1>2, <2>1
  <2>2. CASE i % 2 # 1
    BY <1>1, <1>2, <1>3, <2>2
  <2> QED BY <2>1, <2>2
<1>5. c \in Seq(T) /\ Len(c) = 2 * n
  <2>1. 2 * n \in Nat
    BY <1>1
  <2>2. c \in [1 .. 2 * n -> T]
    BY <1>2, <1>4
  <2> QED BY <2>1, <2>2
<1>6. \A j \in 1 .. n : c[(2 * j) - 1] = Tlv("SECTOR_INFO", 1) /\ c[2 * j] = Cell("sector", s[j])
  <2> TAKE j \in 1 .. n
  <2>1. (2 * j) - 1 \in 1 .. 2 * n /\ 2 * j \in 1 .. 2 * n
    BY <1>1
  <2>2. ((2 * j) - 1) % 2 = 1 /\ (2 * j) % 2 # 1 /\ (2 * j) \div 2 = j
    BY <1>1
  <2> QED BY <1>2, <2>1, <2>2
<1> QED BY <1>5, <1>6 DEF n, c

\* The record of an algorithm file, cell by cell.
LEMMA RecordCellsAre ==
    ASSUME NEW e \in Elfs
    PROVE  /\ Length(e) = RamAt(e) + 2
           /\ \E T : Rec(e) \in Seq(T)
           /\ Rec(e)[1] = Tlv("ALGO_HDR", Length(e)) /\ Rec(e)[2] = Tlv("ALGO_INFO", 2)
           /\ Rec(e)[3] = Cell("info", e.name) /\ Rec(e)[4] = Cell("name", e.name)
           /\ \A j \in 1 .. Len(SectorsOf(e)) :
                  /\ Rec(e)[4 + ((2 * j) - 1)] = Tlv("SECTOR_INFO", 1)
                  /\ Rec(e)[4 + (2 * j)] = Cell("sector", SectorsOf(e)[j])
           /\ Rec(e)[FlashAt(e) + 1] = Tlv("FLASH_REGION", 1 + AlgoSize(e))
           /\ Rec(e)[FlashAt(e) + 2] = Cell("region", Extract(e).flash[1])
           /\ \A k \in 1 .. AlgoSize(e) : Rec(e)[FlashAt(e) + (2 + k)] = Cell("blob", k)
           /\ Rec(e)[RamAt(e) + 1] = Tlv("RAM_REGION", 1)
           /\ Rec(e)[RamAt(e) + 2] = Cell("region", Extract(e).ram[1])
<1> DEFINE c == Extract(e)
           fr == c.flash[1]
           rr == c.ram[1]
           z == AlgoSize(e)
           n == Len(c.sectors)
           h == <<Tlv("ALGO_HDR", Total(c)), Tlv("ALGO_INFO", 2), Cell("info", c.name), Cell("name", c.name)>>
           s == SectorCells(c.sectors)
           f == RegionCells(fr, "FLASH_REGION")
           r == RegionCells(rr, "RAM_REGION")
           T == {h[i] : i \in 1 .. 4} \cup {Tlv("SECTOR_INFO", 1), Cell("region", fr), Cell("region", rr),
                  Tlv("FLASH_REGION", 1 + z), Tlv("RAM_REGION", 1)}
                \cup {Cell("sector", p) : p \in Int \X Int} \cup {Cell("blob", k) : k \in Nat}
<1>1. /\ c.flash = <<fr>> /\ c.ram = <<rr>> /\ fr.algo.size = z /\ rr.algo.size = 0 /\ c.name = e.name
  BY DEF Extract, AlgorithmOf, NoAlgorithm, AlgoSize
<1>2. z \in Nat /\ n \in Nat /\ c.sectors \in Seq(Int \X Int)
      /\ FlashAt(e) = 4 + (2 * n) /\ RamAt(e) = FlashAt(e) + 2 + z
  BY ElfTypes DEF FlashAt, SectorsOf
<1>3. FlattenSeq([i \in DOMAIN c.flash |-> RegionCells(c.flash[i], "FLASH_REGION")]) = f
  <2>1. [i \in DOMAIN c.flash |-> RegionCells(c.flash[i], "FLASH_REGION")] = <<f>>
    BY <1>1
  <2> QED BY <2>1, OneRegion
<1>4. FlattenSeq([i \in DOMAIN c.ram |-> RegionCells(c.ram[i], "RAM_REGION")]) = r
  <2>1. [i \in DOMAIN c.ram |-> RegionCells(c.ram[i], "RAM_REGION")] = <<r>>
    BY <1>1
  <2> QED BY <2>1, OneRegion
<1>5. Rec(e) = ((h \o s) \o f) \o r
  BY <1>3, <1>4 DEF Rec, Record
<1>6. Total(c) = RamAt(e) + 2
  <2> HIDE DEF c, fr, rr, z, n
  <2>1. CountedLength(c.flash) = 2 + z
    BY <1>1, <1>2, OneLength
  <2>2. CountedLength(c.ram) = 2
    <3>1. rr.algo.size \in Nat /\ 2 + rr.algo.size = 2
      BY <1>1
    <3>2. CountedLength(<<rr>>) = 2 + rr.algo.size
      BY <3>1, OneLength
    <3> QED BY <1>1, <3>1, <3>2
  <2>3. Total(c) = 4 + (2 * n) + (2 + z) + 2
    BY <2>1, <2>2 DEF Total, n
  <2>4. n \in Nat /\ z \in Nat /\ FlashAt(e) = 4 + (2 * n) /\ RamAt(e) = FlashAt(e) + 2 + z
    BY <1>2
  <2>5. RamAt(e) + 2 = 4 + (2 * n) + (2 + z) + 2
    BY <2>4
  <2> QED BY <2>3, <2>5
<1>7. h \in Seq(T) /\ Len(h) = 4
  OBVIOUS
<1>8. /\ s \in Seq(T) /\ Len(s) = 2 * n
      /\ \A j \in 1 .. n : s[(2 * j) - 1] = Tlv("SECTOR_INFO", 1) /\ s[2 * j] = Cell("sector", c.sectors[j])
  <2>1. Tlv("SECTOR_INFO", 1) \in T /\ \A p \in Int \X Int : Cell("sector", p) \in T
    OBVIOUS
  <2> HIDE DEF T, c
  <2> QED BY <1>2, <2>1, SectorsAre
<1>9. /\ f \in Seq(T) /\ Len(f) = 2 + z /\ f[1] = Tlv("FLASH_REGION", 1 + z) /\ f[2] = Cell("region", fr)
      /\ \A k \in 1 .. z : f[2 + k] = Cell("blob", k)
  <2>1. Tlv("FLASH_REGION", 1 + fr.algo.size) \in T /\ Cell("region", fr) \in T /\ \A k \in Nat : Cell("blob", k) \in T
    BY <1>1
  <2>2. fr.algo.size \in Nat
    BY <1>1, <1>2
  <2> HIDE DEF T, fr, z
  <2> QED BY <1>1, <2>1, <2>2, RegionIs
<1>10. /\ r \in Seq(T) /\ Len(r) = 2 /\ r[1] = Tlv("RAM_REGION", 1) /\ r[2] = Cell("region", rr)
  <2>1. Tlv("RAM_REGION", 1 + rr.algo.size) \in T /\ Cell("region", rr) \in T /\ \A k \in Nat : Cell("blob", k) \in T
    BY <1>1
  <2>2. rr.algo.size \in Nat /\ 1 + rr.algo.size = 1 /\ 2 + rr.algo.size = 2
    BY <1>1
  <2> HIDE DEF T, rr
  <2> QED BY <2>1, <2>2, RegionIs
<1>11. h[1] = Tlv("ALGO_HDR", RamAt(e) + 2) /\ h[2] = Tlv("ALGO_INFO", 2)
       /\ h[3] = Cell("info", e.name) /\ h[4] = Cell("name", e.name)
  BY <1>1, <1>6
<1> DEFINE a == h \o s
           b == a \o f
           d == b \o r
<1>12. Rec(e) = d
  BY <1>5
<1> HIDE DEF c, fr, rr, z, n, h, s, f, r, T
<1>13. /\ a \in Seq(T) /\ Len(a) = 4 + (2 * n)
       /\ \A i \in 1 .. 4 : a[i] = h[i]
       /\ \A i \in 1 .. 2 * n : a[4 + i] = s[i]
  <2>1. /\ a \in Seq(T) /\ Len(a) = Len(h) + Len(s)
        /\ \A i \in 1 .. Len(h) : a[i] = h[i]
        /\ \A i \in 1 .. Len(s) : a[Len(h) + i] = s[i]
    <3>1. h \in Seq(T) /\ s \in Seq(T)
      BY <1>7, <1>8
    <3> QED BY ONLY <3>1, Behind
  <2> QED BY <1>7, <1>8, <2>1
<1> HIDE DEF a
<1>14. /\ b \in Seq(T) /\ Len(b) = 4 + (2 * n) + (2 + z)
       /\ \A i \in 1 .. 4 + (2 * n) : b[i] = a[i]
       /\ \A i \in 1 .. 2 + z : b[4 + (2 * n) + i] = f[i]
  <2>1. /\ b \in Seq(T) /\ Len(b) = Len(a) + Len(f)
        /\ \A i \in 1 .. Len(a) : b[i] = a[i]
        /\ \A i \in 1 .. Len(f) : b[Len(a) + i] = f[i]
    <3>1. a \in Seq(T) /\ f \in Seq(T)
      BY <1>9, <1>13
    <3> QED BY ONLY <3>1, Behind
  <2> QED BY <1>9, <1>13, <2>1
<1> HIDE DEF b
<1>15. /\ d \in Seq(T) /\ Len(d) = 4 + (2 * n) + (2 + z) + 2
       /\ \A i \in 1 .. 4 + (2 * n) + (2 + z) : d[i] = b[i]
       /\ \A i \in 1 .. 2 : d[4 + (2 * n) + (2 + z) + i] = r[i]
  <2>1. /\ d \in Seq(T) /\ Len(d) = Len(b) + Len(r)
        /\ \A i \in 1 .. Len(b) : d[i] = b[i]
        /\ \A i \in 1 .. Len(r) : d[Len(b) + i] = r[i]
    <3>1. b \in Seq(T) /\ r \in Seq(T)
      BY <1>10, <1>14
    <3> QED BY ONLY <3>1, Behind
  <2> QED BY <1>10, <1>14, <2>1
<1> HIDE DEF d
<1>16. Length(e) = RamAt(e) + 2
  BY <1>2, <1>12, <1>15 DEF Length, Rec
<1>17. /\ d[1] = h[1] /\ d[2] = h[2] /\ d[3] = h[3] /\ d[4] = h[4]
  BY <1>2, <1>13, <1>14, <1>15
<1>18. \A j \in 1 .. n : d[4 + ((2 * j) - 1)] = Tlv("SECTOR_INFO", 1) /\ d[4 + (2 * j)] = Cell("sector", c.sectors[j])
  <2> TAKE j \in 1 .. n
  <2>1. (2 * j) - 1 \in 1 .. 2 * n /\ 2 * j \in 1 .. 2 * n
    BY <1>2
  <2>2. \A i \in 1 .. 2 * n : d[4 + i] = s[i]
    <3> TAKE i \in 1 .. 2 * n
    <3>1. 4 + i \in 1 .. 4 + (2 * n) /\ 4 + i \in 1 .. 4 + (2 * n) + (2 + z)
      BY <1>2
    <3> QED BY <1>13, <1>14, <1>15, <3>1
  <2> QED BY <1>8, <2>1, <2>2
<1>19. \A i \in 1 .. 2 + z : d[FlashAt(e) + i] = f[i]
  <2> TAKE i \in 1 .. 2 + z
  <2>1. FlashAt(e) + i = 4 + (2 * n) + i /\ 4 + (2 * n) + i \in 1 .. 4 + (2 * n) + (2 + z)
    BY <1>2
  <2> QED BY <1>14, <1>15, <2>1
<1>20. d[FlashAt(e) + 1] = f[1] /\ d[FlashAt(e) + 2] = f[2] /\ \A k \in 1 .. z : d[FlashAt(e) + (2 + k)] = f[2 + k]
  <2>1. z \in Nat /\ FlashAt(e) \in Nat
    BY <1>2
  <2>2. 1 \in 1 .. 2 + z /\ 2 \in 1 .. 2 + z /\ \A k \in 1 .. z : 2 + k \in 1 .. 2 + z
    BY ONLY <2>1
  <2> QED BY ONLY <1>19, <2>2
<1>21. d[RamAt(e) + 1] = r[1] /\ d[RamAt(e) + 2] = r[2]
  <2>1. RamAt(e) = 4 + (2 * n) + (2 + z)
    BY <1>2
  <2> QED BY <1>15, <2>1
<1>22. SectorsOf(e) = c.sectors /\ n = Len(c.sectors) /\ z = AlgoSize(e) /\ fr = Extract(e).flash[1] /\ rr = Extract(e).ram[1]
  BY DEF SectorsOf, c, n, z, fr, rr
<1> QED BY <1>9, <1>10, <1>11, <1>12, <1>15, <1>16, <1>17, <1>18, <1>20, <1>21, <1>22

\* Only the first cell of a record is a header of one, and totals fit their field.
IsHeader(cell) == cell.is = "tlv" /\ cell.magic = "ALGO_HDR"
Sound(cell) == cell.is = "tlv" => cell.total \in 0 .. TotalLimit - 1

\* What a header says; a total that fits its field is not changed.
LEMMA TlvIs ==
    ASSUME NEW magic, NEW n \in Nat
    PROVE  /\ Tlv(magic, n).is = "tlv" /\ Tlv(magic, n).magic = magic /\ Sound(Tlv(magic, n))
           /\ Tlv(magic, n).total \in Nat
           /\ n < TotalLimit => Tlv(magic, n).total = n
<1>1. TotalLimit \in Nat \ {0}
  BY StoreAssumption
<1>2. n % TotalLimit \in 0 .. TotalLimit - 1 /\ (n < TotalLimit => n % TotalLimit = n)
  BY <1>1
<1>3. Tlv(magic, n) = [is |-> "tlv", magic |-> magic, total |-> n % TotalLimit]
  BY DEF Tlv
<1> QED BY <1>2, <1>3 DEF Sound

\* No other cell is a header.
LEMMA CellIs ==
    ASSUME NEW what, NEW value, what # "tlv"
    PROVE  /\ Cell(what, value).is = what /\ Cell(what, value).value = value
           /\ ~IsHeader(Cell(what, value)) /\ Sound(Cell(what, value))
  BY DEF Cell, IsHeader, Sound

\* In a record the first cell alone is a header of one.
LEMMA InRecord ==
    ASSUME NEW e \in Elfs, NEW i \in 1 .. Length(e)
    PROVE  Sound(Rec(e)[i]) /\ (IsHeader(Rec(e)[i]) <=> i = 1)
<1> DEFINE n == Len(SectorsOf(e))
           z == AlgoSize(e)
           g == FlashAt(e)
           m == RamAt(e)
<1>1. n \in Nat /\ z \in Nat /\ g = 4 + (2 * n) /\ m = g + 2 + z /\ Length(e) = m + 2 /\ i \in Nat
  BY ElfTypes, RecordCellsAre DEF FlashAt
<1>2. \/ i = 1 \/ i = 2 \/ i = 3 \/ i = 4
      \/ \E j \in 1 .. n : i = 4 + ((2 * j) - 1)
      \/ \E j \in 1 .. n : i = 4 + (2 * j)
      \/ i = g + 1 \/ i = g + 2
      \/ \E k \in 1 .. z : i = g + (2 + k)
      \/ i = m + 1 \/ i = m + 2
  <2> HIDE DEF n, z, g, m
  <2>1. CASE i \in 5 .. g
    <3> DEFINE j == (i - 3) \div 2
    <3>1. j \in 1 .. n /\ (i = 4 + ((2 * j) - 1) \/ i = 4 + (2 * j))
      BY <1>1, <2>1
    <3> HIDE DEF j
    <3> QED BY <3>1
  <2>2. CASE i \in g + 3 .. m
    <3> DEFINE k == i - (g + 2)
    <3>1. k \in 1 .. z /\ i = g + (2 + k)
      BY <1>1, <2>2
    <3> HIDE DEF k
    <3> QED BY <3>1
  <2>3. CASE i \notin 5 .. g /\ i \notin g + 3 .. m
    BY <1>1, <2>3
  <2> QED BY <2>1, <2>2, <2>3
<1>3. /\ Length(e) \in Nat /\ 2 \in Nat /\ 1 \in Nat /\ 1 + z \in Nat
  BY <1>1
<1>4. CASE i = 1
  <2>1. Rec(e)[i] = Tlv("ALGO_HDR", Length(e))
    BY <1>4, RecordCellsAre
  <2>2. Rec(e)[i].is = "tlv" /\ Rec(e)[i].magic = "ALGO_HDR" /\ Sound(Rec(e)[i])
    BY <1>3, <2>1, TlvIs
  <2> QED BY <1>4, <2>2 DEF IsHeader
<1>5. CASE \E magic \in {"ALGO_INFO", "SECTOR_INFO", "FLASH_REGION", "RAM_REGION"}, k \in Nat :
             i # 1 /\ Rec(e)[i] = Tlv(magic, k)
  <2>1. PICK magic \in {"ALGO_INFO", "SECTOR_INFO", "FLASH_REGION", "RAM_REGION"}, k \in Nat :
             i # 1 /\ Rec(e)[i] = Tlv(magic, k)
    BY <1>5
  <2>2. Rec(e)[i].magic = magic /\ Sound(Rec(e)[i])
    BY <2>1, TlvIs
  <2> QED BY <2>1, <2>2 DEF IsHeader
<1>6. CASE \E what \in {"info", "name", "sector", "region", "blob"} : \E value : i # 1 /\ Rec(e)[i] = Cell(what, value)
  <2> PICK what \in {"info", "name", "sector", "region", "blob"} : \E value : i # 1 /\ Rec(e)[i] = Cell(what, value)
    BY <1>6
  <2>1. PICK value : i # 1 /\ Rec(e)[i] = Cell(what, value)
    OBVIOUS
  <2> QED BY <2>1, CellIs
<1>7. CASE i = 2 \/ i = g + 1 \/ i = m + 1
  <2>1. \/ Rec(e)[i] = Tlv("ALGO_INFO", 2) \/ Rec(e)[i] = Tlv("FLASH_REGION", 1 + z)
        \/ Rec(e)[i] = Tlv("RAM_REGION", 1)
    BY <1>7, RecordCellsAre
  <2>2. i # 1
    BY <1>1, <1>7
  <2> QED BY <1>3, <1>5, <2>1, <2>2
<1>8. CASE i = 3 \/ i = 4 \/ i = g + 2 \/ i = m + 2
  <2>1. \/ Rec(e)[i] = Cell("info", e.name) \/ Rec(e)[i] = Cell("name", e.name)
        \/ Rec(e)[i] = Cell("region", Extract(e).flash[1]) \/ Rec(e)[i] = Cell("region", Extract(e).ram[1])
    BY <1>8, RecordCellsAre
  <2>2. i # 1
    BY <1>1, <1>8
  <2> QED BY <1>6, <2>1, <2>2
<1>9. CASE \E j \in 1 .. n : i = 4 + ((2 * j) - 1)
  <2>1. Rec(e)[i] = Tlv("SECTOR_INFO", 1)
    BY <1>9, RecordCellsAre
  <2>2. i # 1
    BY <1>1, <1>9
  <2> QED BY <1>3, <1>5, <2>1, <2>2
<1>10. CASE \E j \in 1 .. n : i = 4 + (2 * j)
  <2>1. PICK j \in 1 .. n : i = 4 + (2 * j)
    BY <1>10
  <2>2. Rec(e)[i] = Cell("sector", SectorsOf(e)[j])
    BY <2>1, RecordCellsAre
  <2>3. i # 1
    BY <1>1, <2>1
  <2> QED BY <1>6, <2>2, <2>3
<1>11. CASE \E k \in 1 .. z : i = g + (2 + k)
  <2>1. PICK k \in 1 .. z : i = g + (2 + k)
    BY <1>11
  <2>2. Rec(e)[i] = Cell("blob", k)
    BY <2>1, RecordCellsAre
  <2>3. i # 1
    BY <1>1, <2>1
  <2> QED BY <1>6, <2>2, <2>3
<1> QED BY <1>2, <1>4, <1>7, <1>8, <1>9, <1>10, <1>11

\* A record is a sequence of cells of the store, eight at least.
LEMMA RecordCells ==
    ASSUME NEW e \in Elfs
    PROVE  /\ Rec(e) \in Seq(StoreCells) /\ Len(Rec(e)) = Length(e) /\ Length(e) \in Nat /\ Length(e) >= 8
           /\ \A x \in StoreCells : Sound(x)
<1>1. Len(Rec(e)) = Length(e) /\ Length(e) \in Nat /\ Length(e) >= 8
  <2>1. FlashAt(e) \in Nat /\ FlashAt(e) >= 4 /\ AlgoSize(e) \in Nat /\ RamAt(e) = FlashAt(e) + 2 + AlgoSize(e)
    BY ElfTypes
  <2>2. Length(e) = RamAt(e) + 2
    BY RecordCellsAre
  <2> QED BY <2>1, <2>2 DEF Length, Rec
<1>2. PICK T : Rec(e) \in Seq(T)
  BY RecordCellsAre
<1>3. \A i \in 1 .. Length(e) : Rec(e)[i] \in StoreCells
  BY DEF StoreCells
<1>4. Rec(e) \in Seq(StoreCells)
  <2>1. Rec(e) \in [1 .. Length(e) -> StoreCells]
    BY <1>1, <1>2, <1>3
  <2> QED BY <1>1, <2>1
<1>5. \A x \in StoreCells : Sound(x)
  BY InRecord DEF StoreCells
<1> QED BY <1>1, <1>4, <1>5

-----------------------------------------------------------------------------
(***************************************************************************)
(* The inductive invariant.  S[k] is where record k + 1 begins, and S[k]   *)
(* is the end of the file when k records have been merged.                 *)
(***************************************************************************)
Laid(S) ==
    /\ S \in [0 .. merged -> Nat] /\ S[0] = 0 /\ S[merged] = Len(store)
    /\ \A k \in 1 .. merged :
           /\ S[k] = S[k - 1] + Length(elfs[k])
           /\ \A i \in 1 .. Length(elfs[k]) : store[S[k - 1] + i] = Rec(elfs[k])[i]
    /\ \A j, k \in 0 .. merged : j < k => S[j] < S[k]
    /\ \A p \in 1 .. Len(store) : \E k \in 1 .. merged : S[k - 1] < p /\ p <= S[k]

Fit == \A i \in 1 .. merged : Length(elfs[i]) < TotalLimit

\* The first n records: one has the name that is looked for, the last of those
\* is c, the search has found it; the list shows them.
Named(n) == \E i \in 1 .. n : elfs[i].name = name
IsFound(n, c) ==
    \E i \in 1 .. n : /\ elfs[i].name = name /\ c = Extract(elfs[i])
                      /\ \A j \in 1 .. n : elfs[j].name = name => j <= i
FoundIn(n) == (ret <=> Named(n)) /\ (ret => IsFound(n, cfg))
ListedTo(n) == shown = [i \in 1 .. n |-> elfs[i].name]
Unknown == name # NoName => ~Named(merged) /\ FilesNamed = {}
Searched(n) == IF op = "list" THEN ListedTo(n) /\ Unknown ELSE FoundIn(n)

\* What the search has taken from record n, and how far it has read.
ReadTo(S, n) ==
    LET e == elfs[n] IN
    \/ \E j \in 0 .. Len(SectorsOf(e)) :
           /\ readPos = S[n - 1] + (4 + (2 * j))
           /\ cfg = [name |-> name, sectors |-> SubSeq(SectorsOf(e), 1, j), flash |-> << >>, ram |-> << >>]
    \/ /\ readPos = S[n - 1] + RamAt(e)
       /\ cfg = [name |-> name, sectors |-> SectorsOf(e), flash |-> Extract(e).flash, ram |-> << >>]
    \/ readPos = S[n] /\ cfg = Extract(e)

FilesGood == {e \in Elfs : <<name, e>> \in OnDisk /\ e.ok}

Used ==
    name # NoName /\ op # "file" =>
        IF Named(merged) THEN IsFound(merged, used)
        ELSE IF FilesGood = {} THEN used = NoConfig
        ELSE used \in {Extract(e) : e \in FilesGood}

HeaderState(S) == at = "header" /\ Fit => \E n \in 0 .. merged : hdrPos = S[n] /\ Searched(n)
ContentsState(S) ==
    at = "contents" =>
        /\ op \in {"file", "flash"} /\ ret = TRUE
        /\ \E n \in 1 .. merged : elfs[n].name = name /\ ReadTo(S, n) /\ (Fit => hdrPos = S[n])
RestartState(S) == at = "restart" => op = "list" /\ shown = << >> /\ (Fit => hdrPos = S[merged] /\ Unknown)
Answer(S) ==
    at \in {"returned", "garbage", "endless"} /\ op # "none" /\ Fit =>
        /\ \E n \in 0 .. merged : hdrPos = S[n]
        /\ at = "garbage" => op = "flash" /\ merged > 0 /\ elfs[merged].name = name
        /\ at = "returned" => Searched(merged) /\ Used

Walks(S) == HeaderState(S) /\ ContentsState(S) /\ RestartState(S) /\ Answer(S)

MergeState ==
    /\ \A i \in 1 .. merged : elfs[i].ok
    /\ merging = "true" => merged = Len(elfs)
    /\ merging = "false" => merged < Len(elfs) /\ ~elfs[merged + 1].ok
    /\ merging = "running" => op = "none"
    /\ op = "none" => at = "returned" /\ hdrPos = 0 /\ name = NoName
    /\ op # "list" => shown = << >>
    /\ at # "returned" => op # "none" /\ used = NoConfig

StoreTypes ==
    /\ StoreTypeOK
    /\ elfs \in Seq(Elfs) /\ store \in Seq(StoreCells)
    /\ cfg = [name |-> cfg.name, sectors |-> cfg.sectors, flash |-> cfg.flash, ram |-> cfg.ram]

StoreIInv == StoreTypes /\ MergeState /\ \E S \in [0 .. merged -> Nat] : Laid(S) /\ Walks(S)

-----------------------------------------------------------------------------
\* When the file is complete, the files in it are those that have been merged.
LEMMA InStoreIs ==
    ASSUME StoreTypes, MergeState, merging # "running"
    PROVE  /\ merged \in Nat /\ Len(InStore) = merged /\ DOMAIN InStore = 1 .. merged
           /\ \A i \in 1 .. merged : InStore[i] = elfs[i]
<1> DEFINE I == {i \in 1 .. Len(elfs) : ~elfs[i].ok}
<1>1. elfs \in Seq(Elfs) /\ merged \in 0 .. Len(elfs) /\ merging \in {"running", "true", "false"} /\ Len(elfs) \in Nat
  BY DEF StoreTypes, StoreTypeOK
<1>2. Stored = IF I # {} THEN Min(I) ELSE 0
  BY DEF Stored, SelectInSeq
<1>3. CASE merging = "true"
  <2>1. merged = Len(elfs) /\ \A i \in 1 .. merged : elfs[i].ok
    BY <1>3 DEF MergeState
  <2>2. I = {}
    BY <2>1
  <2>3. InStore = elfs
    BY <1>2, <2>2 DEF InStore
  <2> QED BY <1>1, <2>1, <2>3
<1>4. CASE merging = "false"
  <2>1. merged < Len(elfs) /\ ~elfs[merged + 1].ok /\ \A i \in 1 .. merged : elfs[i].ok
    BY <1>4 DEF MergeState
  <2>2. merged + 1 \in I
    BY <1>1, <2>1
  <2>3. \A i \in I : i \in Nat /\ merged + 1 <= i
    BY <1>1, <2>1
  <2>4. Min(I) = merged + 1
    <3>1. Min(I) = CHOOSE x \in I : \A y \in I : x <= y
      BY DEF Min
    <3> HIDE DEF I
    <3>2. \A x \in I : (\A y \in I : x <= y) => x = merged + 1
      BY <1>1, <2>2, <2>3
    <3> QED BY <2>2, <2>3, <3>1, <3>2
  <2>5. Stored = merged + 1
    BY <1>2, <2>2, <2>4
  <2>6. InStore = SubSeq(elfs, 1, merged)
    <3>1. Stored # 0 /\ Stored - 1 = merged
      BY <1>1, <2>5
    <3> QED BY <3>1 DEF InStore
  <2>7. /\ SubSeq(elfs, 1, merged) \in Seq(Elfs) /\ Len(SubSeq(elfs, 1, merged)) = merged
        /\ \A i \in 1 .. merged : SubSeq(elfs, 1, merged)[i] = elfs[i]
    BY <1>1
  <2> QED BY <1>1, <2>6, <2>7
<1> QED BY <1>1, <1>3, <1>4

\* The words of the properties, said of the files merged so far.
LEMMA PropertiesAre ==
    ASSUME StoreTypes, MergeState, merging # "running"
    PROVE  /\ Fits <=> Fit
           /\ (Known # {}) <=> Named(merged)
           /\ \A c : IsLastKnown(c) <=> IsFound(merged, c)
           /\ merged > 0 /\ elfs[merged].name = name => IsLast
           /\ ListedTo(merged) => shown = [i \in DOMAIN InStore |-> InStore[i].name]
<1>1. /\ merged \in Nat /\ Len(InStore) = merged /\ DOMAIN InStore = 1 .. merged
      /\ \A i \in 1 .. merged : InStore[i] = elfs[i]
  BY InStoreIs
<1>2. Fits <=> Fit
  BY <1>1 DEF Fits, Fit
<1>3. Known = {i \in 1 .. merged : elfs[i].name = name}
  BY <1>1 DEF Known
<1>4. (Known # {}) <=> Named(merged)
  BY <1>3 DEF Named
<1>5. \A c : IsLastKnown(c) <=> IsFound(merged, c)
  BY <1>1, <1>3 DEF IsLastKnown, IsFound
<1>6. merged > 0 /\ elfs[merged].name = name => IsLast
  <2> SUFFICES ASSUME merged > 0, elfs[merged].name = name
               PROVE  IsLast
    OBVIOUS
  <2>1. merged \in 1 .. merged
    BY <1>1
  <2>2. InStore # << >>
    BY <1>1, <2>1
  <2>3. Last(InStore) = elfs[merged]
    BY <1>1, <2>1 DEF Last
  <2> QED BY <2>2, <2>3 DEF IsLast
<1>7. ListedTo(merged) => shown = [i \in DOMAIN InStore |-> InStore[i].name]
  BY <1>1 DEF ListedTo
<1> QED BY <1>2, <1>4, <1>5, <1>6, <1>7

\* A cell of the file is a header where a record begins, and nowhere else.
LEMMA HeaderAt ==
    ASSUME StoreTypes, NEW S \in [0 .. merged -> Nat], Laid(S), NEW p \in 1 .. Len(store)
    PROVE  /\ p \in Nat /\ merged \in Nat
           /\ IsHeader(store[p]) =>
                \E k \in 1 .. merged :
                    /\ p = S[k - 1] + 1 /\ elfs[k] \in Elfs
                    /\ \A i \in 1 .. Length(elfs[k]) : store[S[k - 1] + i] = Rec(elfs[k])[i]
<1>1. /\ elfs \in Seq(Elfs) /\ merged \in 0 .. Len(elfs) /\ merged \in Nat /\ store \in Seq(StoreCells) /\ Len(store) \in Nat
      /\ p \in Nat
  BY DEF StoreTypes, StoreTypeOK
<1>2. PICK k \in 1 .. merged : S[k - 1] < p /\ p <= S[k]
  BY DEF Laid
<1>3. /\ S[k] = S[k - 1] + Length(elfs[k]) /\ k \in 1 .. Len(elfs) /\ elfs[k] \in Elfs
      /\ \A i \in 1 .. Length(elfs[k]) : store[S[k - 1] + i] = Rec(elfs[k])[i]
  <2>1. k \in 1 .. Len(elfs)
    BY <1>1
  <2>2. elfs[k] \in Elfs
    BY <1>1, <2>1
  <2>3. S[k] = S[k - 1] + Length(elfs[k])
    BY DEF Laid
  <2>4. \A i \in 1 .. Length(elfs[k]) : store[S[k - 1] + i] = Rec(elfs[k])[i]
    BY DEF Laid
  <2> QED BY ONLY <2>1, <2>2, <2>3, <2>4
<1>4. S[k - 1] \in Nat /\ S[k] \in Nat /\ Length(elfs[k]) \in Nat
  <2>1. k - 1 \in 0 .. merged /\ k \in 0 .. merged
    BY <1>1
  <2> QED BY <1>3, <2>1, RecordCells
<1> DEFINE i == p - S[k - 1]
<1>5. i \in 1 .. Length(elfs[k]) /\ p = S[k - 1] + i
  <2>1. p \in Nat /\ S[k - 1] < p
    BY <1>1, <1>2
  <2>2. S[k - 1] \in Nat /\ Length(elfs[k]) \in Nat
    BY <1>4
  <2>3. p <= S[k - 1] + Length(elfs[k])
    BY <1>2, <1>3
  <2> QED BY ONLY <2>1, <2>2, <2>3
<1> HIDE DEF i
<1>6. store[p] = Rec(elfs[k])[i] /\ (IsHeader(Rec(elfs[k])[i]) <=> i = 1)
  BY <1>3, <1>5, InRecord
<1> QED BY <1>1, <1>3, <1>5, <1>6

\* Records follow one another.
LEMMA LaidOut ==
    ASSUME StoreTypes, NEW S \in [0 .. merged -> Nat], Laid(S)
    PROVE  /\ merged \in Nat /\ Len(store) \in Nat
           /\ \A k \in 0 .. merged : S[k] \in Nat /\ S[k] <= Len(store)
           /\ \A k \in 1 .. merged : elfs[k] \in Elfs /\ S[k] = S[k - 1] + Length(elfs[k])
           /\ \A k \in 0 .. merged : S[k] = Len(store) => k = merged
           /\ \A j, k \in 0 .. merged : S[j] = S[k] => j = k
           /\ \A k \in 0 .. merged - 1 : S[k] + 1 \in 1 .. Len(store) /\ IsHeader(store[S[k] + 1])
<1>1. /\ elfs \in Seq(Elfs) /\ merged \in 0 .. Len(elfs) /\ merged \in Nat /\ store \in Seq(StoreCells) /\ Len(store) \in Nat
  BY DEF StoreTypes, StoreTypeOK
<1>2. \A k \in 0 .. merged : S[k] \in Nat
  OBVIOUS
<1>3. \A j, k \in 0 .. merged : j < k => S[j] < S[k]
  BY DEF Laid
<1>4. \A k \in 0 .. merged : k # merged => S[k] < Len(store)
  <2>1. S[merged] = Len(store) /\ merged \in 0 .. merged
    BY <1>1 DEF Laid
  <2> TAKE k \in 0 .. merged
  <2>2. k # merged => k < merged
    BY <1>1
  <2> QED BY <1>3, <2>1, <2>2
<1>5. \A k \in 0 .. merged : S[k] <= Len(store)
  <2> TAKE k \in 0 .. merged
  <2>1. CASE k = merged
    BY <1>1, <2>1 DEF Laid
  <2>2. CASE k # merged
    BY <1>1, <1>2, <1>4, <2>2
  <2> QED BY <2>1, <2>2
<1>6. \A k \in 1 .. merged : elfs[k] \in Elfs /\ S[k] = S[k - 1] + Length(elfs[k])
  <2> TAKE k \in 1 .. merged
  <2>1. k \in 1 .. Len(elfs)
    BY <1>1
  <2>2. elfs[k] \in Elfs
    BY <1>1, <2>1
  <2>3. S[k] = S[k - 1] + Length(elfs[k])
    BY DEF Laid
  <2> QED BY <2>2, <2>3
<1>7. \A k \in 0 .. merged : S[k] = Len(store) => k = merged
  BY <1>1, <1>2, <1>4
<1>8. \A j, k \in 0 .. merged : S[j] = S[k] => j = k
  <2> TAKE j, k \in 0 .. merged
  <2>1. j \in Nat /\ k \in Nat /\ S[j] \in Nat /\ S[k] \in Nat
    BY <1>2
  <2>2. (j < k => S[j] < S[k]) /\ (k < j => S[k] < S[j])
    BY <1>3
  <2> QED BY <2>1, <2>2
<1>9. ASSUME NEW k \in 0 .. merged - 1
      PROVE  S[k] + 1 \in 1 .. Len(store) /\ IsHeader(store[S[k] + 1])
  <2>1. k + 1 \in 1 .. merged /\ (k + 1) - 1 = k /\ k \in 0 .. merged /\ k # merged
    BY <1>1
  <2>2. S[k] + 1 \in 1 .. Len(store)
    BY <1>1, <1>2, <1>4, <2>1
  <2>3. elfs[k + 1] \in Elfs
    BY <1>6, <2>1
  <2>4. 1 \in 1 .. Length(elfs[k + 1])
    BY <2>3, RecordCells
  <2>5. \A n \in 1 .. Length(elfs[k + 1]) : store[S[(k + 1) - 1] + n] = Rec(elfs[k + 1])[n]
    BY <2>1 DEF Laid
  <2>6. store[S[k] + 1] = Rec(elfs[k + 1])[1]
    BY <2>1, <2>4, <2>5
  <2>7. IsHeader(Rec(elfs[k + 1])[1])
    BY <2>3, <2>4, InRecord
  <2> QED BY <2>2, <2>6, <2>7
<1> QED BY <1>1, <1>2, <1>5, <1>6, <1>7, <1>8, <1>9

\* Code, stack and buffer of an algorithm.
LEMMA RoundedUpIs ==
    ASSUME NEW n \in Nat
    PROVE  RoundedUp(n) \in Nat /\ RoundedUp(n) >= n
<1>1. Align \in Nat \ {0}
  BY StoreAssumption
<1> DEFINE m == n + Align - 1
           q == m \div Align
<1>2. m \in Nat /\ m = Align * q + (m % Align) /\ m % Align \in 0 .. Align - 1 /\ q \in Int /\ q >= 0
  BY <1>1
<1> HIDE DEF q
<1>3. Align * q \in Nat
  BY <1>1, <1>2
<1>4. q * Align = Align * q
  BY <1>1, <1>2
<1>5. Align * q >= n
  BY <1>1, <1>2, <1>3
<1>6. RoundedUp(n) = q * Align
  BY DEF RoundedUp, q
<1> QED BY <1>3, <1>4, <1>5, <1>6

\* Layout is what extract computes, of any file.
LEMMA LaidOutInRam ==
    ASSUME StoreTypes
    PROVE  Layout
<1>1. elfs \in Seq(Elfs) /\ merged \in 0 .. Len(elfs)
  BY DEF StoreTypes, StoreTypeOK
<1> SUFFICES ASSUME NEW i \in 1 .. merged
             PROVE  LET e == elfs[i]  c == Extract(e)  a == c.flash[1].algo IN
                    /\ a.start + HeaderSize + e.code <= a.stackPointer - StackSize
                    /\ a.stackPointer <= a.buffer /\ a.buffer + e.page <= c.ram[1].end
                    /\ \A f \in FunctionNames :
                         a.functions[f] = 0 \/ a.functions[f] \in a.start + HeaderSize .. a.start + a.size - 1
  BY DEF Layout
<1> DEFINE e == elfs[i]
           a == AlgorithmOf(e)
           z == AlgoSize(e)
           sp == RoundedUp(RamStart + z) + StackSize
<1>2. e \in Elfs
  <2>1. i \in 1 .. Len(elfs)
    BY <1>1
  <2> QED BY <1>1, <2>1
<1> HIDE DEF e
<1>3. RamStart \in Nat /\ StackSize \in Nat /\ HeaderSize \in Nat /\ e.code \in Nat /\ e.page \in Nat
      /\ z \in Nat /\ z = HeaderSize + e.code
  BY <1>2, ElfTypes, StoreAssumption
<1>4. RoundedUp(RamStart + z) \in Nat /\ RoundedUp(RamStart + z) >= RamStart + z
  BY <1>3, RoundedUpIs
<1>5. /\ Extract(e).flash[1].algo = a
      /\ Extract(e).ram[1].end = a.buffer + a.bufferSize
  BY DEF Extract
<1>6. /\ a.start = RamStart /\ a.stackPointer = sp /\ a.buffer = sp /\ a.bufferSize = e.page /\ a.size = z
      /\ \A f \in FunctionNames : a.functions[f] = Entry(e, f)
  BY DEF AlgorithmOf
<1> HIDE DEF a, z
<1>7. RamStart + HeaderSize + e.code <= sp - StackSize /\ sp \in Nat
  BY <1>3, <1>4
<1>8. ASSUME NEW f \in FunctionNames
      PROVE  Entry(e, f) = 0 \/ Entry(e, f) \in RamStart + HeaderSize .. RamStart + z - 1
  <2>1. CASE f \in DOMAIN e.symbols
    <3>1. e.symbols[f] \in 0 .. e.code - 1
      BY <1>2, <2>1, StoreAssumption
    <3>2. Entry(e, f) = e.symbols[f] + HeaderSize + RamStart
      BY <2>1 DEF Entry
    <3> QED BY <1>3, <3>1, <3>2
  <2>2. CASE f \notin DOMAIN e.symbols
    BY <2>2 DEF Entry
  <2> QED BY <2>1, <2>2
<1> HIDE DEF sp
<1>9. /\ a.start + HeaderSize + e.code <= a.stackPointer - StackSize
      /\ a.stackPointer <= a.buffer /\ a.buffer + e.page <= Extract(e).ram[1].end
  BY <1>3, <1>5, <1>6, <1>7
<1>10. \A f \in FunctionNames :
         a.functions[f] = 0 \/ a.functions[f] \in a.start + HeaderSize .. a.start + a.size - 1
  BY <1>6, <1>8
<1> QED BY <1>5, <1>9, <1>10 DEF e

\* The records begin at Starts.
LEMMA StartsAre ==
    ASSUME StoreTypes, NEW S \in [0 .. merged -> Nat], Laid(S), NEW n \in 0 .. merged
    PROVE  S[n] \in Starts
<1>1. merged \in Nat /\ Len(store) \in Nat /\ S[n] \in Nat /\ S[n] <= Len(store)
  BY LaidOut
<1>2. CASE n = merged
  BY <1>2 DEF Laid, Starts
<1>3. CASE n # merged
  <2>1. n \in 0 .. merged - 1
    BY <1>1, <1>3
  <2>2. S[n] + 1 \in 1 .. Len(store) /\ IsHeader(store[S[n] + 1])
    BY <2>1, LaidOut
  <2>3. S[n] \in 0 .. Len(store) - 1
    BY <1>1, <2>2
  <2> QED BY <2>2, <2>3 DEF Starts, IsHeader
<1> QED BY <1>2, <1>3

\* The invariant gives the properties.
LEMMA StoreImplied ==
    ASSUME StoreIInv
    PROVE  StoreInv /\ WalksAnswer
<1> PICK S \in [0 .. merged -> Nat] : Laid(S) /\ Walks(S)
  BY DEF StoreIInv
<1>1. StoreTypes /\ MergeState
  BY DEF StoreIInv
<1>2. StoreTypeOK /\ Layout
  BY <1>1, LaidOutInRam DEF StoreTypes
<1>3. CASE op = "none"
  <2>1. at = "returned" /\ hdrPos = 0 /\ name = NoName
    BY <1>1, <1>3 DEF MergeState
  <2>2. StaysOnRecords
    <3>1. S[0] = 0 /\ 0 \in 0 .. merged
      <4>1. merged \in Nat
        BY <1>1, LaidOut
      <4>2. S[0] = 0
        BY DEF Laid
      <4> QED BY <4>1, <4>2
    <3>2. S[0] \in Starts
      BY <1>1, <3>1, StartsAre
    <3> QED BY <2>1, <3>1, <3>2 DEF StaysOnRecords
  <2>3. FindsExtracted /\ ListsAll /\ UsesTheRight
    BY <1>3, <2>1 DEF FindsExtracted, ListsAll, UsesTheRight
  <2> QED BY <1>2, <2>2, <2>3 DEF StoreInv, WalksAnswer
<1>4. CASE op # "none"
  <2>0. merging # "running" /\ op \in {"list", "file", "flash"}
        /\ at \in {"header", "contents", "restart", "returned", "garbage", "endless"}
    BY <1>1, <1>4 DEF MergeState, StoreTypes, StoreTypeOK
  <2>1. (Fits <=> Fit) /\ ((Known # {}) <=> Named(merged)) /\ (\A c : IsLastKnown(c) <=> IsFound(merged, c))
        /\ (merged > 0 /\ elfs[merged].name = name => IsLast)
        /\ (ListedTo(merged) => shown = [i \in DOMAIN InStore |-> InStore[i].name])
    BY <1>1, <2>0, PropertiesAre
  <2>2. merged \in Nat /\ merged \in 0 .. merged /\ \A n \in 0 .. merged : S[n] \in Starts
    BY <1>1, LaidOut, StartsAre
  <2>3. Fit => \E n \in 0 .. merged : hdrPos = S[n]
    <3> HAVE Fit
    <3>1. CASE at = "header"
      BY <3>1 DEF Walks, HeaderState
    <3>2. CASE at = "contents"
      <4>1. PICK n \in 1 .. merged : hdrPos = S[n]
        BY <3>2 DEF Walks, ContentsState
      <4> QED BY <2>2, <4>1
    <3>3. CASE at = "restart"
      BY <2>2, <3>3 DEF Walks, RestartState
    <3>4. CASE at \in {"returned", "garbage", "endless"}
      BY <1>4, <3>4 DEF Walks, Answer
    <3> QED BY <2>0, <3>1, <3>2, <3>3, <3>4
  <2>4. StaysOnRecords
    <3> SUFFICES ASSUME Fit
                 PROVE  hdrPos \in Starts /\ (at = "garbage" => op = "flash" /\ IsLast)
      BY <2>1 DEF StaysOnRecords
    <3>1. hdrPos \in Starts
      BY <2>2, <2>3
    <3>2. at = "garbage" => op = "flash" /\ IsLast
      BY <1>4, <2>1 DEF Walks, Answer
    <3> QED BY <3>1, <3>2
  <2>5. at = "returned" /\ Fit => Searched(merged) /\ Used
    BY <1>4 DEF Walks, Answer
  <2>6. FindsExtracted
    <3> SUFFICES ASSUME at = "returned", op \in {"file", "flash"}, Fit
                 PROVE  ret = (Known # {}) /\ (ret => IsLastKnown(cfg))
      BY <2>1 DEF FindsExtracted
    <3>1. FoundIn(merged)
      BY <2>5 DEF Searched
    <3>2. ret \in BOOLEAN
      BY <1>1 DEF StoreTypes, StoreTypeOK
    <3>3. (ret <=> (Known # {})) /\ (ret => IsLastKnown(cfg))
      BY <2>1, <3>1 DEF FoundIn
    <3> QED BY <3>2, <3>3
  <2>7. ListsAll
    BY <2>1, <2>5 DEF ListsAll, Searched
  <2>8. UsesTheRight
    <3> DEFINE good == {e \in Elfs : <<name, e>> \in OnDisk /\ e.ok}
    <3> SUFFICES ASSUME at = "returned", Fit, name # NoName, op # "file"
                 PROVE  IF Known # {} THEN IsLastKnown(used)
                        ELSE IF good = {} THEN used = NoConfig
                        ELSE used \in {Extract(e) : e \in good}
      BY <2>1 DEF UsesTheRight
    <3>1. good = FilesGood
      BY DEF FilesGood
    <3> HIDE DEF good
    <3> QED BY <2>1, <2>5, <3>1 DEF Used
  <2> QED BY <1>2, <2>4, <2>6, <2>7, <2>8 DEF StoreInv, WalksAnswer
<1> QED BY <1>3, <1>4

-----------------------------------------------------------------------------
(***************************************************************************)
(* The steps.                                                              *)
(***************************************************************************)
DeviceNames == {e.name : e \in Elfs}

\* The invariant at the start.
LEMMA StoreInitStep ==
    ASSUME StoreInit
    PROVE  StoreIInv
<1> DEFINE S == [n \in 0 .. 0 |-> 0]
<1>1. merged = 0 /\ hdrPos = 0 /\ readPos = 0
  BY DEF StoreInit
<1>2. merging = "running" /\ op = "none" /\ name = NoName /\ at = "returned"
  BY DEF StoreInit
<1>3. store = << >> /\ shown = << >> /\ cfg = NoConfig
  BY DEF StoreInit
<1>4. ret = FALSE
  BY DEF StoreInit
<1>5. elfs \in Seq(Elfs) /\ Len(elfs) \in Nat
  <2>1. PICK m \in 0 .. MaxFiles : elfs \in [1 .. m -> Elfs]
    BY DEF StoreInit, SeqOf
  <2>2. m \in Nat
    BY StoreAssumption
  <2> QED BY <2>1, <2>2
<1>6. store \in Seq(StoreCells) /\ shown \in Seq(DeviceNames) /\ DOMAIN store = {} /\ Len(store) = 0
  BY <1>3
<1>7. StoreTypeOK
  <2>1. merged \in 0 .. Len(elfs) /\ hdrPos \in Nat /\ readPos \in Nat
    BY <1>1, <1>5
  <2>2. ret \in BOOLEAN
    BY <1>4
  <2> QED BY <1>2, <1>6, <2>1, <2>2 DEF StoreTypeOK, DeviceNames
<1>8. StoreTypes
  <2>1. cfg = [name |-> cfg.name, sectors |-> cfg.sectors, flash |-> cfg.flash, ram |-> cfg.ram]
    BY <1>3 DEF NoConfig
  <2> QED BY <1>5, <1>6, <1>7, <2>1 DEF StoreTypes
<1>9. 1 .. merged = {} /\ 1 .. Len(store) = {} /\ 0 .. merged = 0 .. 0
  BY <1>1, <1>6
<1>10. MergeState
  BY <1>1, <1>2, <1>3, <1>9 DEF MergeState
<1>11. S \in [0 .. merged -> Nat] /\ Laid(S)
  <2>1. S \in [0 .. 0 -> Nat] /\ S[0] = 0
    OBVIOUS
  <2>2. \A j, k \in 0 .. 0 : ~(j < k)
    OBVIOUS
  <2> HIDE DEF S
  <2> QED BY <1>1, <1>6, <1>9, <2>1, <2>2 DEF Laid
<1>12. Walks(S)
  BY <1>2 DEF Walks, HeaderState, ContentsState, RestartState, Answer
<1> QED BY <1>8, <1>10, <1>11, <1>12 DEF StoreIInv

\* Merge: one more record, or the end.
LEMMA MergeStep ==
    ASSUME StoreIInv, Merge
    PROVE  StoreIInv'
<1> PICK S \in [0 .. merged -> Nat] : Laid(S) /\ Walks(S)
  BY DEF StoreIInv
<1>1. StoreTypes /\ MergeState /\ merging = "running" /\ UNCHANGED <<elfs, walk>>
  BY DEF StoreIInv, Merge
<1>2. /\ elfs \in Seq(Elfs) /\ Len(elfs) \in Nat /\ merged \in 0 .. Len(elfs) /\ merged \in Nat
      /\ store \in Seq(StoreCells) /\ Len(store) \in Nat /\ StoreTypeOK
  BY <1>1 DEF StoreTypes, StoreTypeOK
<1>3. UNCHANGED <<elfs, op, name, at, hdrPos, readPos, tlv, cfg, ret, shown, used>>
  BY <1>1 DEF walk
<1>4. op = "none" /\ at = "returned" /\ hdrPos = 0 /\ name = NoName /\ shown = << >>
  BY <1>1 DEF MergeState
<1>5. \A Q : Walks(Q)'
  BY <1>3, <1>4 DEF Walks, HeaderState, ContentsState, RestartState, Answer
<1>6. \A i \in 1 .. merged : elfs[i].ok
  BY <1>1 DEF MergeState
<1>7. CASE merging' # "running" /\ UNCHANGED <<merged, store>>
           /\ \/ merging' = "true" /\ merged = Len(elfs)
              \/ merging' = "false" /\ merged < Len(elfs) /\ ~elfs[merged + 1].ok
  <2>1. StoreTypes'
    BY <1>1, <1>2, <1>3, <1>7 DEF StoreTypes, StoreTypeOK
  <2>2. MergeState'
    BY <1>3, <1>4, <1>6, <1>7 DEF MergeState
  <2>3. S \in [0 .. merged' -> Nat] /\ Laid(S)'
    BY <1>3, <1>7 DEF Laid
  <2> QED BY <1>5, <2>1, <2>2, <2>3 DEF StoreIInv
<1>8. CASE merged # Len(elfs) /\ elfs[merged + 1].ok
  <2> DEFINE e == elfs[merged + 1]
             l == Length(e)
    <2>1. merged + 1 \in 1 .. Len(elfs) /\ e \in Elfs /\ e.ok
    BY <1>2, <1>8
  <2>2. store' = store \o Rec(e) /\ merged' = merged + 1 /\ merging' = merging
    BY <1>8 DEF Merge, Rec
  <2>3. Rec(e) \in Seq(StoreCells) /\ Len(Rec(e)) = l /\ l \in Nat /\ l >= 8 /\ \A x \in StoreCells : Sound(x)
    BY <2>1, RecordCells
  <2>4. /\ store' \in Seq(StoreCells) /\ Len(store') = Len(store) + l
        /\ \A i \in 1 .. Len(store) : store'[i] = store[i]
        /\ \A i \in 1 .. l : store'[Len(store) + i] = Rec(e)[i]
    <3>1. /\ store \o Rec(e) \in Seq(StoreCells) /\ Len(store \o Rec(e)) = Len(store) + Len(Rec(e))
          /\ \A i \in 1 .. Len(store) : (store \o Rec(e))[i] = store[i]
          /\ \A i \in 1 .. Len(Rec(e)) : (store \o Rec(e))[Len(store) + i] = Rec(e)[i]
      <4>1. store \in Seq(StoreCells) /\ Rec(e) \in Seq(StoreCells)
        BY <1>2, <2>3
      <4> QED BY ONLY <4>1, Behind
    <3> QED BY <2>2, <2>3, <3>1
  <2>5. \A i \in DOMAIN store' : Sound(store'[i])
    BY <2>3, <2>4
  <2>6. StoreTypes'
    <3>1. \A i \in DOMAIN store' : store'[i].is = "tlv" => store'[i].total \in 0 .. TotalLimit - 1
      BY <2>5 DEF Sound
    <3>2. merged' \in 0 .. Len(elfs')
      BY <1>2, <1>3, <2>1, <2>2
    <3>3. StoreTypeOK'
      BY <1>2, <1>3, <2>2, <3>1, <3>2 DEF StoreTypeOK
    <3>4. cfg' = [name |-> cfg'.name, sectors |-> cfg'.sectors, flash |-> cfg'.flash, ram |-> cfg'.ram]
      BY <1>1, <1>3 DEF StoreTypes
    <3> QED BY <1>2, <1>3, <2>4, <3>3, <3>4 DEF StoreTypes
  <2>7. MergeState'
    <3>1. \A i \in 1 .. merged + 1 : elfs[i].ok
      <4> TAKE i \in 1 .. merged + 1
      <4>1. i \in 1 .. merged \/ i = merged + 1
        BY <1>2
      <4> QED BY <1>6, <1>8, <4>1
    <3> QED BY <1>1, <1>3, <1>4, <2>2, <3>1 DEF MergeState
  <2> HIDE DEF e, l
  <2>8. /\ S[0] = 0 /\ S[merged] = Len(store) /\ \A k \in 0 .. merged : S[k] \in Nat /\ S[k] <= Len(store)
        /\ \A k \in 1 .. merged : /\ S[k] = S[k - 1] + Length(elfs[k])
                                  /\ \A i \in 1 .. Length(elfs[k]) : store[S[k - 1] + i] = Rec(elfs[k])[i]
        /\ \A j, k \in 0 .. merged : j < k => S[j] < S[k]
        /\ \A p \in 1 .. Len(store) : \E k \in 1 .. merged : S[k - 1] < p /\ p <= S[k]
    BY <1>1, LaidOut DEF Laid
  <2>9. PICK Q \in [0 .. merged + 1 -> Nat] : /\ \A k \in 0 .. merged : Q[k] = S[k]
                                               /\ Q[merged + 1] = Len(store) + l
    <3> DEFINE R == [k \in 0 .. merged + 1 |-> IF k <= merged THEN S[k] ELSE S[merged] + l]
    <3>1. \A k \in 0 .. merged : k \in 0 .. merged + 1 /\ k <= merged
      BY <1>2
    <3>2. merged + 1 \in 0 .. merged + 1 /\ ~(merged + 1 <= merged)
      BY <1>2
    <3>3. \A k \in 0 .. merged + 1 : (IF k <= merged THEN S[k] ELSE S[merged] + l) \in Nat
      BY <1>2, <2>3, <2>8
    <3>4. /\ R \in [0 .. merged + 1 -> Nat] /\ \A k \in 0 .. merged : R[k] = S[k]
          /\ R[merged + 1] = Len(store) + l
      BY <2>8, <3>1, <3>2, <3>3
    <3> HIDE DEF R
    <3> QED BY <3>4
  <2>10. \A k \in 1 .. merged + 1 : /\ Q[k] = Q[k - 1] + Length(elfs[k])
                                    /\ \A i \in 1 .. Length(elfs[k]) : store'[Q[k - 1] + i] = Rec(elfs[k])[i]
    <3> TAKE k \in 1 .. merged + 1
    <3>1. CASE k = merged + 1
      <4>1. elfs[k] = e /\ Length(elfs[k]) = l /\ k - 1 = merged /\ Q[k - 1] = Len(store) /\ Q[k] = Len(store) + l
        <5>1. merged \in 0 .. merged /\ (merged + 1) - 1 = merged
          BY <1>2
        <5> QED BY <2>8, <2>9, <3>1, <5>1 DEF e, l
      <4> QED BY <2>4, <4>1
    <3>2. CASE k # merged + 1
      <4>1. k \in 1 .. merged /\ k - 1 \in 0 .. merged /\ k \in 0 .. merged
        BY <1>2, <3>2
      <4>2. Q[k] = S[k] /\ Q[k - 1] = S[k - 1] /\ S[k] \in Nat /\ S[k - 1] \in Nat /\ S[k] <= Len(store)
            /\ S[k] = S[k - 1] + Length(elfs[k])
        BY <2>8, <2>9, <4>1
      <4>3. elfs[k] \in Elfs
        <5>1. k \in 1 .. Len(elfs)
          BY <1>2, <4>1
        <5> QED BY <1>2, <5>1
      <4>4. Length(elfs[k]) \in Nat
        BY <4>3, RecordCells
      <4>5. ASSUME NEW i \in 1 .. Length(elfs[k])
            PROVE  store'[Q[k - 1] + i] = Rec(elfs[k])[i]
        <5>1. S[k - 1] + i \in 1 .. Len(store)
          <6> DEFINE x == S[k - 1]
                     m == Length(elfs[k])
                     z == Len(store)
          <6>1. x \in Nat /\ m \in Nat /\ z \in Nat /\ x + m <= z /\ i \in 1 .. m
            BY <1>2, <4>2, <4>4
          <6> HIDE DEF x, m, z
          <6>2. x + i \in 1 .. z
            BY <6>1
          <6> QED BY <6>2 DEF x, z
        <5>2. store[S[k - 1] + i] = Rec(elfs[k])[i]
          BY <2>8, <4>1
        <5> QED BY <2>4, <4>2, <5>1, <5>2
      <4> QED BY <4>2, <4>5
    <3> QED BY <3>1, <3>2
  <2>11. \A j, k \in 0 .. merged + 1 : j < k => Q[j] < Q[k]
    <3> SUFFICES ASSUME NEW j \in 0 .. merged + 1, NEW k \in 0 .. merged + 1, j < k
                 PROVE  Q[j] < Q[k]
      OBVIOUS
    <3>1. j \in 0 .. merged /\ Q[j] = S[j] /\ S[j] \in Nat /\ S[j] <= Len(store)
      <4>1. j \in 0 .. merged
        BY <1>2
      <4> QED BY <2>8, <2>9, <4>1
    <3>2. CASE k = merged + 1
      BY <1>2, <2>3, <2>9, <3>1, <3>2
    <3>3. CASE k # merged + 1
      <4>1. k \in 0 .. merged
        BY <1>2, <3>3
      <4> QED BY <2>8, <2>9, <3>1, <4>1
    <3> QED BY <3>2, <3>3
  <2>12. \A p \in 1 .. Len(store') : \E k \in 1 .. merged + 1 : Q[k - 1] < p /\ p <= Q[k]
    <3> TAKE p \in 1 .. Len(store')
    <3>1. p \in Nat /\ p >= 1 /\ p <= Len(store) + l
      BY <1>2, <2>3, <2>4
    <3>2. CASE p <= Len(store)
      <4>1. PICK k \in 1 .. merged : S[k - 1] < p /\ p <= S[k]
        BY <1>2, <2>8, <3>1, <3>2
      <4>2. k \in 1 .. merged + 1 /\ k - 1 \in 0 .. merged /\ k \in 0 .. merged
        BY <1>2
      <4> QED BY <2>9, <4>1, <4>2
    <3>3. CASE p > Len(store)
      <4>1. merged + 1 \in 1 .. merged + 1 /\ (merged + 1) - 1 = merged /\ merged \in 0 .. merged
        BY <1>2
      <4>2. Q[merged] < p /\ p <= Q[merged + 1]
        BY <2>8, <2>9, <3>1, <3>3, <4>1
      <4> QED BY <4>1, <4>2
    <3> QED BY <1>2, <3>1, <3>2, <3>3
  <2>13. Q[0] = 0 /\ Q[merged + 1] = Len(store')
    <3>1. 0 \in 0 .. merged
      BY <1>2
    <3> QED BY <2>4, <2>8, <2>9, <3>1
  <2>14. Q \in [0 .. merged' -> Nat] /\ Laid(Q)'
    <3>1. merged' = merged + 1 /\ elfs' = elfs
      BY <1>3, <2>2
    <3>2. Q \in [0 .. merged' -> Nat] /\ Q[0] = 0 /\ Q[merged'] = Len(store')
      BY <2>9, <2>13, <3>1
    <3>3. \A k \in 1 .. merged' : /\ Q[k] = Q[k - 1] + Length(elfs'[k])
                                  /\ \A i \in 1 .. Length(elfs'[k]) : store'[Q[k - 1] + i] = Rec(elfs'[k])[i]
      BY <2>10, <3>1
    <3>4. \A j, k \in 0 .. merged' : j < k => Q[j] < Q[k]
      BY <2>11, <3>1
    <3>5. \A p \in 1 .. Len(store') : \E k \in 1 .. merged' : Q[k - 1] < p /\ p <= Q[k]
      BY <2>12, <3>1
    <3> QED BY <3>2, <3>3, <3>4, <3>5 DEF Laid
  <2>15. Walks(Q)'
    BY <1>5
  <2> QED BY <2>6, <2>7, <2>14, <2>15 DEF StoreIInv
<1>9. CASE merged = Len(elfs)
  BY <1>7, <1>9 DEF Merge
<1>10. CASE merged # Len(elfs) /\ ~elfs[merged + 1].ok
  BY <1>2, <1>7, <1>10 DEF Merge
<1> QED BY <1>8, <1>9, <1>10

\* Steps that leave the file alone.
LEMMA FileKept ==
    ASSUME StoreTypes, MergeState, UNCHANGED build, NEW S \in [0 .. merged -> Nat], Laid(S)
    PROVE  /\ UNCHANGED <<elfs, merged, merging, store>>
           /\ S \in [0 .. merged' -> Nat] /\ Laid(S)' /\ (Fit' <=> Fit)
<1>1. UNCHANGED <<elfs, merged, merging, store>>
  BY DEF build
<1>2. S \in [0 .. merged' -> Nat]
  BY <1>1
<1>3. Laid(S)'
  BY <1>1 DEF Laid
<1>4. Fit' <=> Fit
  BY <1>1 DEF Fit
<1> QED BY <1>1, <1>2, <1>3, <1>4

\* The types where only a walk gets on.
LEMMA WalkTypes ==
    ASSUME StoreTypes, UNCHANGED build,
           op' \in {"none", "list", "file", "flash"},
           at' \in {"header", "contents", "restart", "returned", "garbage", "endless"},
           hdrPos' \in Nat, readPos' \in Nat, ret' \in BOOLEAN, shown' \in Seq(DeviceNames),
           cfg' = [name |-> cfg'.name, sectors |-> cfg'.sectors, flash |-> cfg'.flash, ram |-> cfg'.ram]
    PROVE  StoreTypes'
<1>1. UNCHANGED <<elfs, merged, merging, store>>
  BY DEF build
<1>2. /\ merged' \in 0 .. Len(elfs') /\ merging' \in {"running", "true", "false"}
      /\ \A i \in DOMAIN store' : store'[i].is = "tlv" => store'[i].total \in 0 .. TotalLimit - 1
      /\ elfs' \in Seq(Elfs) /\ store' \in Seq(StoreCells)
  BY <1>1 DEF StoreTypes, StoreTypeOK
<1> QED BY <1>2 DEF StoreTypes, StoreTypeOK, DeviceNames

\* MergeState where only a walk gets on.
LEMMA MergeKept ==
    ASSUME MergeState, UNCHANGED build, merging # "running", op' # "none",
           op' # "list" => shown' = << >>,
           at' # "returned" => used' = NoConfig
    PROVE  MergeState'
<1>1. UNCHANGED <<elfs, merged, merging, store>>
  BY DEF build
<1> QED BY <1>1 DEF MergeState

\* A call begins.
LEMMA BeginStep ==
    ASSUME StoreIInv, NEW o \in {"list", "file", "flash"}, NEW n, Begin(o, n), o = "list" => n = NoName
    PROVE  StoreIInv'
<1> PICK S \in [0 .. merged -> Nat] : Laid(S) /\ Walks(S)
  BY DEF StoreIInv
<1>1. StoreTypes /\ MergeState /\ merging # "running" /\ UNCHANGED build
  BY DEF StoreIInv, Begin
<1>2. /\ UNCHANGED <<elfs, merged, merging, store>>
      /\ S \in [0 .. merged' -> Nat] /\ Laid(S)' /\ (Fit' <=> Fit)
  BY <1>1, FileKept
<1>3. op' = o /\ name' = n /\ at' = "header"
  BY DEF Begin
<1>4. hdrPos' = 0 /\ readPos' = 0
  BY DEF Begin
<1>5. cfg' = NoConfig /\ shown' = << >> /\ used' = NoConfig
  BY DEF Begin
<1>6. ret' = FALSE
  BY DEF Begin
<1>7. StoreTypes'
  <2>1. cfg' = [name |-> cfg'.name, sectors |-> cfg'.sectors, flash |-> cfg'.flash, ram |-> cfg'.ram]
    BY <1>5 DEF NoConfig
  <2>2. ret' \in BOOLEAN
    BY <1>6
  <2>3. shown' \in Seq(DeviceNames)
    BY <1>5
  <2> QED BY <1>1, <1>3, <1>4, <2>1, <2>2, <2>3, WalkTypes
<1>8. MergeState'
  <2>1. op' # "none" /\ (op' # "list" => shown' = << >>) /\ (at' # "returned" => used' = NoConfig)
    BY <1>3, <1>5
  <2> QED BY <1>1, <2>1, MergeKept
<1>9. Walks(S)'
  <2>1. S[0] = 0 /\ 0 \in 0 .. merged'
    <3>1. S[0] = 0
      BY DEF Laid
    <3>2. merged \in Nat
      BY <1>1, LaidOut
    <3> QED BY <1>2, <3>1, <3>2
  <2>2. 1 .. 0 = {}
    OBVIOUS
  <2>3. CASE o = "list"
    <3>1. ListedTo(0)'
      <4>1. << >> = [i \in 1 .. 0 |-> elfs'[i].name]
        BY <2>2
      <4> QED BY <1>5, <4>1 DEF ListedTo
    <3>2. Unknown'
      BY <1>3, <2>3 DEF Unknown
    <3>3. Searched(0)'
      BY <3>1, <3>2, <1>3, <2>3 DEF Searched
    <3> QED BY <1>3, <1>4, <2>1, <3>3 DEF Walks, HeaderState, ContentsState, RestartState, Answer
  <2>4. CASE o # "list"
    <3>1. ~Named(0)'
      BY <2>2 DEF Named
    <3>2. FoundIn(0)'
      BY <1>6, <3>1 DEF FoundIn
    <3>3. Searched(0)'
      BY <3>2, <1>3, <2>4 DEF Searched
    <3> QED BY <1>3, <1>4, <2>1, <3>3 DEF Walks, HeaderState, ContentsState, RestartState, Answer
  <2> QED BY <2>3, <2>4
<1> QED BY <1>2, <1>7, <1>8, <1>9 DEF StoreIInv

\* The list begins again, at the first record.
LEMMA RestartStep ==
    ASSUME StoreIInv, Restart
    PROVE  StoreIInv'
<1> PICK S \in [0 .. merged -> Nat] : Laid(S) /\ Walks(S)
  BY DEF StoreIInv
<1>1. StoreTypes /\ MergeState /\ UNCHANGED build /\ at = "restart"
  BY DEF StoreIInv, Restart
<1>2. /\ UNCHANGED <<elfs, merged, merging, store>>
      /\ S \in [0 .. merged' -> Nat] /\ Laid(S)' /\ (Fit' <=> Fit)
  BY <1>1, FileKept
<1>3. at' = "header" /\ hdrPos' = 0 /\ readPos' = 0 /\ UNCHANGED <<op, name, cfg, ret, shown, used>>
  BY DEF Restart
<1>4. op = "list" /\ shown = << >> /\ (Fit => Unknown)
  BY <1>1 DEF Walks, RestartState
<1>5. merging # "running" /\ used = NoConfig
  BY <1>1 DEF MergeState
<1>6. /\ ret \in BOOLEAN /\ shown \in Seq(DeviceNames)
      /\ cfg = [name |-> cfg.name, sectors |-> cfg.sectors, flash |-> cfg.flash, ram |-> cfg.ram]
  BY <1>1 DEF StoreTypes, StoreTypeOK, DeviceNames
<1>7. StoreTypes'
  <2>1. op' \in {"none", "list", "file", "flash"} /\ at' \in {"header", "contents", "restart", "returned", "garbage", "endless"}
    BY <1>3, <1>4
  <2>2. hdrPos' \in Nat /\ readPos' \in Nat
    BY <1>3
  <2>3. ret' \in BOOLEAN /\ shown' \in Seq(DeviceNames)
        /\ cfg' = [name |-> cfg'.name, sectors |-> cfg'.sectors, flash |-> cfg'.flash, ram |-> cfg'.ram]
    BY <1>3, <1>6
  <2> QED BY <1>1, <2>1, <2>2, <2>3, WalkTypes
<1>8. MergeState'
  <2>1. op' # "none" /\ (op' # "list" => shown' = << >>) /\ (at' # "returned" => used' = NoConfig)
    BY <1>3, <1>4, <1>5
  <2> QED BY <1>1, <1>5, <2>1, MergeKept
<1>9. Walks(S)'
  <2>1. S[0] = 0 /\ 0 \in 0 .. merged'
    <3>1. S[0] = 0
      BY DEF Laid
    <3>2. merged \in Nat
      BY <1>1, LaidOut
    <3> QED BY <1>2, <3>1, <3>2
  <2>2. ListedTo(0)'
    <3>1. << >> = [i \in 1 .. 0 |-> elfs'[i].name]
      OBVIOUS
    <3> QED BY <1>3, <1>4, <3>1 DEF ListedTo
  <2>3. Fit' => Unknown'
    BY <1>2, <1>3, <1>4 DEF Unknown, Named, FilesNamed
  <2>4. Fit' => Searched(0)'
    BY <1>3, <1>4, <2>2, <2>3 DEF Searched
  <2> QED BY <1>3, <2>1, <2>4 DEF Walks, HeaderState, ContentsState, RestartState, Answer
<1> QED BY <1>2, <1>7, <1>8, <1>9 DEF StoreIInv

\* What the invariant says of a walk that is at a header.
LEMMA AtHeader ==
    ASSUME StoreIInv, at = "header", NEW S \in [0 .. merged -> Nat], Laid(S), Walks(S)
    PROVE  /\ StoreTypes /\ MergeState /\ merging # "running" /\ merged \in Nat /\ Len(store) \in Nat
           /\ op \in {"list", "file", "flash"} /\ used = NoConfig /\ (op # "list" => shown = << >>)
           /\ hdrPos \in Nat /\ readPos \in Nat /\ shown \in Seq(DeviceNames)
           /\ cfg = [name |-> cfg.name, sectors |-> cfg.sectors, flash |-> cfg.flash, ram |-> cfg.ram]
           /\ Fit => \E n \in 0 .. merged : hdrPos = S[n] /\ Searched(n)
           /\ Fit /\ hdrPos >= Len(store) => hdrPos = S[merged] /\ Searched(merged)
           /\ Fit /\ hdrPos < Len(store) => IsHeader(store[hdrPos + 1])
<1>1. StoreTypes /\ MergeState
  BY DEF StoreIInv
<1>2. merged \in Nat /\ Len(store) \in Nat /\ \A k \in 0 .. merged : S[k] \in Nat /\ S[k] <= Len(store)
  BY <1>1, LaidOut
<1>3. op \in {"list", "file", "flash"} /\ merging # "running" /\ used = NoConfig /\ (op # "list" => shown = << >>)
  <2>1. op # "none" /\ used = NoConfig /\ (op # "list" => shown = << >>) /\ merging # "running"
    BY <1>1 DEF MergeState
  <2>2. op \in {"none", "list", "file", "flash"}
    BY <1>1 DEF StoreTypes, StoreTypeOK
  <2> QED BY <2>1, <2>2
<1>4. /\ hdrPos \in Nat /\ readPos \in Nat /\ shown \in Seq(DeviceNames)
      /\ cfg = [name |-> cfg.name, sectors |-> cfg.sectors, flash |-> cfg.flash, ram |-> cfg.ram]
  BY <1>1 DEF StoreTypes, StoreTypeOK, DeviceNames
<1>5. Fit => \E n \in 0 .. merged : hdrPos = S[n] /\ Searched(n)
  BY DEF Walks, HeaderState
<1>6. ASSUME Fit, hdrPos >= Len(store)
      PROVE  hdrPos = S[merged] /\ Searched(merged)
  <2>1. PICK n \in 0 .. merged : hdrPos = S[n] /\ Searched(n)
    BY <1>5, <1>6
  <2>2. S[n] = Len(store)
    BY <1>2, <1>6, <2>1
  <2>3. n = merged
    BY <1>1, <2>2, LaidOut
  <2> QED BY <2>1, <2>3
<1>7. ASSUME Fit, hdrPos < Len(store)
      PROVE  IsHeader(store[hdrPos + 1])
  <2>1. PICK n \in 0 .. merged : hdrPos = S[n] /\ Searched(n)
    BY <1>5, <1>7
  <2>2. S[merged] = Len(store) /\ merged \in 0 .. merged
    BY <1>2 DEF Laid
  <2>3. n # merged
    BY <1>2, <1>7, <2>1, <2>2
  <2>4. n \in 0 .. merged - 1
    BY <1>2, <2>1, <2>3
  <2> QED BY <1>1, <2>1, <2>4, LaidOut
<1> QED BY <1>1, <1>2, <1>3, <1>4, <1>5, <1>6, <1>7

\* The end of the walk over the headers.
LEMMA EndsStep ==
    ASSUME StoreIInv, at = "header", hdrPos >= Len(store), Ends, UNCHANGED build,
           UNCHANGED <<name, hdrPos, readPos, tlv, cfg, ret, shown>>
    PROVE  StoreIInv'
<1> PICK S \in [0 .. merged -> Nat] : Laid(S) /\ Walks(S)
  BY DEF StoreIInv
<1>1. /\ StoreTypes /\ MergeState /\ merging # "running" /\ merged \in Nat /\ Len(store) \in Nat
      /\ op \in {"list", "file", "flash"} /\ used = NoConfig /\ (op # "list" => shown = << >>)
      /\ hdrPos \in Nat /\ readPos \in Nat /\ shown \in Seq(DeviceNames)
      /\ cfg = [name |-> cfg.name, sectors |-> cfg.sectors, flash |-> cfg.flash, ram |-> cfg.ram]
      /\ Fit => hdrPos = S[merged] /\ Searched(merged)
  BY AtHeader
<1>2. /\ UNCHANGED <<elfs, merged, merging, store>>
      /\ S \in [0 .. merged' -> Nat] /\ Laid(S)' /\ (Fit' <=> Fit)
  BY <1>1, FileKept
<1>3. UNCHANGED <<name, hdrPos, readPos, cfg, ret, shown>>
  OBVIOUS
<1>4. /\ \A n : (Named(n)' <=> Named(n)) /\ \A c : IsFound(n, c)' <=> IsFound(n, c)
      /\ FilesNamed' = FilesNamed /\ FilesGood' = FilesGood /\ (Unknown' <=> Unknown)
  <2>1. \A n : Named(n)' <=> Named(n)
    BY <1>2, <1>3 DEF Named
  <2>2. \A n : \A c : IsFound(n, c)' <=> IsFound(n, c)
    BY <1>2, <1>3 DEF IsFound
  <2>3. FilesNamed' = FilesNamed /\ FilesGood' = FilesGood
    BY <1>3 DEF FilesNamed, FilesGood
  <2>4. Unknown' <=> Unknown
    BY <1>2, <1>3, <2>1, <2>3 DEF Unknown
  <2> QED BY <2>1, <2>2, <2>3, <2>4
<1>5. ret \in BOOLEAN
  BY <1>1 DEF StoreTypes, StoreTypeOK
<1>6. ASSUME op' \in {"list", "file", "flash"}, at' \in {"returned", "restart"}, at' = "restart" => used' = used
      PROVE  StoreTypes' /\ (merging # "running" /\ op' # "none" /\ (op' # "list" => shown' = << >>) => MergeState')
  <2>1. hdrPos' \in Nat /\ readPos' \in Nat
    BY <1>1, <1>3
  <2>2. shown' \in Seq(DeviceNames)
        /\ cfg' = [name |-> cfg'.name, sectors |-> cfg'.sectors, flash |-> cfg'.flash, ram |-> cfg'.ram]
    BY <1>1, <1>3
  <2>3. ret' \in BOOLEAN
    BY <1>3, <1>5
  <2>4. StoreTypes'
    BY <1>1, <1>6, <2>1, <2>2, <2>3, WalkTypes
  <2>5. at' # "returned" => used' = NoConfig
    BY <1>1, <1>6
  <2>6. merging # "running" /\ op' # "none" /\ (op' # "list" => shown' = << >>) => MergeState'
    BY <1>1, <2>5, MergeKept
  <2> QED BY <2>4, <2>6
<1>7. CASE at' = "returned" /\ op' = op /\ (Fit /\ Searched(merged) => Used')
  <2>1. StoreTypes' /\ MergeState'
    BY <1>1, <1>3, <1>6, <1>7
  <2>2. Fit => Searched(merged)'
    BY <1>1, <1>2, <1>3, <1>4, <1>7 DEF Searched, ListedTo, FoundIn
  <2>3. Walks(S)'
    <3>1. merged' \in 0 .. merged'
      BY <1>1, <1>2
    <3>2. Fit' => hdrPos' = S[merged']
      BY <1>1, <1>2, <1>3
    <3>3. Answer(S)'
      BY <1>1, <1>2, <1>7, <2>2, <3>1, <3>2 DEF Answer
    <3> QED BY <1>7, <3>3 DEF Walks, HeaderState, ContentsState, RestartState
  <2> QED BY <1>2, <2>1, <2>3 DEF StoreIInv
<1>8. CASE op # "flash" \/ ret
  <2>1. at' = "returned" /\ op' = op /\ used' = (IF op = "flash" THEN cfg ELSE used)
    BY <1>8 DEF Ends
  <2>2. ASSUME Fit, Searched(merged), name # NoName, op # "file"
        PROVE  IF Named(merged) THEN IsFound(merged, used')
               ELSE IF FilesGood = {} THEN used' = NoConfig
               ELSE used' \in {Extract(e) : e \in FilesGood}
    <3>1. CASE op = "flash"
      <4>1. FoundIn(merged) /\ ret
        BY <1>8, <2>2, <3>1 DEF Searched
      <4>2. Named(merged) /\ IsFound(merged, cfg)
        BY <4>1 DEF FoundIn
      <4> QED BY <2>1, <3>1, <4>2
    <3>2. CASE op = "list"
      <4>1. ~Named(merged) /\ FilesNamed = {}
        BY <2>2, <3>2 DEF Searched, Unknown
      <4>2. FilesGood = {}
        BY <4>1 DEF FilesNamed, FilesGood
      <4>3. used' = NoConfig
        BY <1>1, <2>1, <3>2
      <4> QED BY <4>1, <4>2, <4>3
    <3> QED BY <1>1, <2>2, <3>1, <3>2
  <2>3. Fit /\ Searched(merged) => Used'
    BY <1>2, <1>3, <1>4, <2>1, <2>2 DEF Used
  <2> QED BY <1>7, <2>1, <2>3
<1>9. CASE ~(op # "flash" \/ ret) /\ FilesNamed # {}
  <2>1. PICK e \in FilesNamed : used' = (IF e.ok THEN Extract(e) ELSE used)
    BY <1>9 DEF Ends
  <2>2. at' = "returned" /\ op' = op
    BY <1>9 DEF Ends
  <2>3. ASSUME Fit, Searched(merged), name # NoName
        PROVE  ~Named(merged) /\ (IF FilesGood = {} THEN used' = NoConfig
                                  ELSE used' \in {Extract(f) : f \in FilesGood})
    <3>1. ~Named(merged)
      BY <1>9, <2>3 DEF Searched, FoundIn
    <3>2. e \in Elfs /\ <<name, e>> \in OnDisk /\ e.ok \in BOOLEAN
      <4>1. e \in Elfs /\ <<name, e>> \in OnDisk
        BY DEF FilesNamed
      <4> QED BY <4>1, StoreAssumption
    <3>3. CASE e.ok
      <4>1. e \in FilesGood /\ used' = Extract(e)
        BY <2>1, <3>2, <3>3 DEF FilesGood
      <4> QED BY <3>1, <4>1
    <3>4. CASE ~e.ok
      <4>1. used' = NoConfig
        BY <1>1, <2>1, <3>4
      <4>2. FilesGood = {}
        <5> SUFFICES ASSUME NEW f \in FilesGood
                     PROVE  FALSE
          OBVIOUS
        <5>1. <<name, f>> \in OnDisk /\ f.ok
          BY DEF FilesGood
        <5>2. \A p, q \in OnDisk : p[1] = q[1] => p = q
          BY StoreAssumption
        <5>3. <<name, f>>[1] = <<name, e>>[1]
          OBVIOUS
        <5>4. <<name, f>> = <<name, e>>
          BY <3>2, <5>1, <5>2, <5>3
        <5>5. f = e
          BY <5>4
        <5> QED BY <3>4, <5>1, <5>5
      <4> QED BY <3>1, <4>1, <4>2
    <3> QED BY <3>2, <3>3, <3>4
  <2>4. Fit /\ Searched(merged) => Used'
    BY <1>2, <1>3, <1>4, <2>3 DEF Used
  <2> QED BY <1>7, <2>2, <2>4
<1>10. CASE ~(op # "flash" \/ ret) /\ FilesNamed = {}
  <2>1. op' = "list" /\ at' = "restart" /\ used' = used
    BY <1>10 DEF Ends
  <2>2. StoreTypes' /\ MergeState'
    BY <1>1, <1>6, <2>1
  <2>3. shown' = << >>
    BY <1>1, <1>3, <1>10
  <2>4. Fit => Unknown'
    <3> HAVE Fit
    <3>1. FoundIn(merged)
      BY <1>1, <1>10 DEF Searched
    <3>2. ~Named(merged)
      BY <1>10, <3>1 DEF FoundIn
    <3>3. Unknown
      BY <1>10, <3>2 DEF Unknown
    <3> QED BY <1>4, <3>3
  <2>5. Fit' => hdrPos' = S[merged']
    BY <1>1, <1>2, <1>3
  <2>6. Walks(S)'
    BY <1>2, <2>1, <2>3, <2>4, <2>5 DEF Walks, HeaderState, ContentsState, RestartState, Answer
  <2> QED BY <1>2, <2>2, <2>6 DEF StoreIInv
<1> QED BY <1>8, <1>9, <1>10

\* The header of record k: its total leads to the next record, its name is
\* the fourth cell.
LEMMA HeaderRead ==
    ASSUME StoreTypes, hdrPos < Len(store), IsHeader(store[hdrPos + 1]),
           NEW S \in [0 .. merged -> Nat], Laid(S)
    PROVE  \E k \in 1 .. merged :
              /\ k \in Nat /\ hdrPos = S[k - 1] /\ elfs[k] \in Elfs
              /\ store[hdrPos + 1].total \in Nat
              /\ Fit => hdrPos + store[hdrPos + 1].total = S[k]
              /\ store[hdrPos + 4].value = elfs[k].name
<1>1. hdrPos \in Nat /\ Len(store) \in Nat
  BY DEF StoreTypes, StoreTypeOK
<1>2. hdrPos + 1 \in 1 .. Len(store)
  BY <1>1
<1>3. PICK k \in 1 .. merged :
         /\ hdrPos + 1 = S[k - 1] + 1 /\ elfs[k] \in Elfs
         /\ \A i \in 1 .. Length(elfs[k]) : store[S[k - 1] + i] = Rec(elfs[k])[i]
  BY <1>2, HeaderAt
<1>4. merged \in Nat /\ k - 1 \in 0 .. merged /\ k \in 0 .. merged /\ S[k - 1] \in Nat /\ S[k] \in Nat
      /\ S[k] = S[k - 1] + Length(elfs[k]) /\ k \in Nat
  <2>1. merged \in Nat
    BY LaidOut
  <2>2. k - 1 \in 0 .. merged /\ k \in 0 .. merged /\ k \in Nat
    BY <2>1
  <2>3. S[k] = S[k - 1] + Length(elfs[k])
    BY LaidOut
  <2> QED BY <2>1, <2>2, <2>3
<1>5. hdrPos = S[k - 1]
  BY <1>1, <1>3, <1>4
<1>6. Length(elfs[k]) \in Nat /\ 1 \in 1 .. Length(elfs[k]) /\ 4 \in 1 .. Length(elfs[k])
  BY <1>3, RecordCells
<1>7. store[hdrPos + 1] = Tlv("ALGO_HDR", Length(elfs[k])) /\ store[hdrPos + 4] = Cell("name", elfs[k].name)
  <2>1. Rec(elfs[k])[1] = Tlv("ALGO_HDR", Length(elfs[k])) /\ Rec(elfs[k])[4] = Cell("name", elfs[k].name)
    BY <1>3, RecordCellsAre
  <2> QED BY <1>3, <1>5, <1>6, <2>1
<1>8. store[hdrPos + 4].value = elfs[k].name
  BY <1>7, CellIs
<1>9. store[hdrPos + 1].total \in Nat /\ (Length(elfs[k]) < TotalLimit => store[hdrPos + 1].total = Length(elfs[k]))
  BY <1>6, <1>7, TlvIs
<1>10. Fit => hdrPos + store[hdrPos + 1].total = S[k]
  <2> HAVE Fit
  <2>1. Length(elfs[k]) < TotalLimit
    BY DEF Fit
  <2> QED BY <1>4, <1>5, <1>9, <2>1
<1> QED BY <1>3, <1>4, <1>5, <1>8, <1>9, <1>10

\* What was searched stays so while the file and the name are the same.
LEMMA SearchKept ==
    ASSUME UNCHANGED build, name' = name
    PROVE  /\ \A n : Named(n)' <=> Named(n)
           /\ \A n, c : IsFound(n, c)' <=> IsFound(n, c)
           /\ Unknown' <=> Unknown
<1>1. UNCHANGED <<elfs, merged>>
  BY DEF build
<1>2. \A n : Named(n)' <=> Named(n)
  BY <1>1 DEF Named
<1>3. \A n, c : IsFound(n, c)' <=> IsFound(n, c)
  BY <1>1 DEF IsFound
<1>4. FilesNamed' = FilesNamed
  BY DEF FilesNamed
<1>5. Unknown' <=> Unknown
  <2>1. Named(merged)' <=> Named(merged)
    BY <1>1 DEF Named
  <2> QED BY <1>4, <2>1 DEF Unknown
<1> QED BY <1>2, <1>3, <1>5

\* One more record, which does not have the name, or whose name the list shows.
LEMMA SearchedMore ==
    ASSUME UNCHANGED <<build, op, name, ret, cfg>>, NEW k \in Nat \ {0}, Searched(k - 1),
           shown' = (IF op = "list" THEN Append(shown, elfs[k].name) ELSE shown),
           op = "list" \/ elfs[k].name # name
    PROVE  Searched(k)'
<1>1. /\ \A n : Named(n)' <=> Named(n)
      /\ \A n, c : IsFound(n, c)' <=> IsFound(n, c)
      /\ Unknown' <=> Unknown
  BY SearchKept
<1>2. elfs' = elfs
  BY DEF build
<1>3. k - 1 \in Nat /\ 1 .. k = (1 .. k - 1) \cup {k}
  OBVIOUS
<1>4. CASE op = "list"
  <2>1. ListedTo(k - 1) /\ Unknown
    BY <1>4 DEF Searched
  <2>2. shown = [i \in 1 .. k - 1 |-> elfs[i].name]
    BY <2>1 DEF ListedTo
  <2>3. Append([i \in 1 .. k - 1 |-> elfs[i].name], elfs[k].name) = [i \in 1 .. k |-> elfs[i].name]
    <3> DEFINE D == {elfs[i].name : i \in 1 .. k}
               s == [i \in 1 .. k - 1 |-> elfs[i].name]
    <3>1. s \in Seq(D) /\ Len(s) = k - 1 /\ elfs[k].name \in D /\ \A i \in 1 .. k - 1 : s[i] = elfs[i].name
      BY <1>3
    <3> HIDE DEF D, s
    <3>2. /\ Append(s, elfs[k].name) \in Seq(D) /\ Len(Append(s, elfs[k].name)) = k
          /\ \A i \in 1 .. k - 1 : Append(s, elfs[k].name)[i] = elfs[i].name
          /\ Append(s, elfs[k].name)[k] = elfs[k].name
      BY <3>1, AppendProperties
    <3>3. Append(s, elfs[k].name) = [i \in 1 .. k |-> Append(s, elfs[k].name)[i]]
      BY <3>2
    <3>4. \A i \in 1 .. k : Append(s, elfs[k].name)[i] = elfs[i].name
      BY <1>3, <3>2
    <3> QED BY <3>3, <3>4 DEF s
  <2>4. ListedTo(k)'
    BY <1>2, <1>4, <2>2, <2>3 DEF ListedTo
  <2> QED BY <1>1, <1>4, <2>1, <2>4 DEF Searched
<1>5. CASE op # "list"
  <2>1. FoundIn(k - 1) /\ elfs[k].name # name
    BY <1>5 DEF Searched
  <2>2. Named(k) <=> Named(k - 1)
    BY <1>3, <2>1 DEF Named
  <2>3. IsFound(k - 1, cfg) => IsFound(k, cfg)
    BY <1>3, <2>1 DEF IsFound
  <2>4. FoundIn(k)'
    BY <1>1, <2>1, <2>2, <2>3 DEF FoundIn
  <2> QED BY <1>5, <2>4 DEF Searched
<1> QED BY <1>4, <1>5

\* The name looked for: the search takes the record from its fifth cell on.
LEMMA FoundStep ==
    ASSUME StoreIInv, at = "header", NEW S \in [0 .. merged -> Nat], Laid(S), Walks(S),
           NEW k \in 1 .. merged, hdrPos = S[k - 1], elfs[k] \in Elfs, elfs[k].name = name, op # "list",
           UNCHANGED <<build, name, op, used, shown>>,
           at' = "contents", hdrPos' \in Nat, Fit => hdrPos' = S[k], readPos' = hdrPos + 4,
           ret' = TRUE, cfg' = Matches(cfg)
    PROVE  StoreIInv'
<1>1. /\ StoreTypes /\ MergeState /\ merging # "running" /\ merged \in Nat
      /\ op \in {"file", "flash"} /\ used = NoConfig /\ shown = << >>
      /\ hdrPos \in Nat /\ shown \in Seq(DeviceNames)
      /\ cfg = [name |-> cfg.name, sectors |-> cfg.sectors, flash |-> cfg.flash, ram |-> cfg.ram]
  BY AtHeader
<1>2. /\ UNCHANGED <<elfs, merged, merging, store>>
      /\ S \in [0 .. merged' -> Nat] /\ Laid(S)' /\ (Fit' <=> Fit)
  BY <1>1, FileKept
<1>3. cfg' = [name |-> name, sectors |-> << >>, flash |-> << >>, ram |-> << >>]
  BY <1>1 DEF Matches
<1>4. StoreTypes'
  <2>1. cfg' = [name |-> cfg'.name, sectors |-> cfg'.sectors, flash |-> cfg'.flash, ram |-> cfg'.ram]
    BY <1>3
  <2>2. hdrPos' \in Nat /\ readPos' \in Nat
    BY <1>1
  <2>3. ret' \in BOOLEAN
    OBVIOUS
  <2>4. shown' \in Seq(DeviceNames)
    BY <1>1
  <2> QED BY <1>1, <2>1, <2>2, <2>3, <2>4, WalkTypes
<1>5. MergeState'
  <2>1. op' # "none" /\ (op' # "list" => shown' = << >>) /\ (at' # "returned" => used' = NoConfig)
    BY <1>1
  <2> QED BY <1>1, <2>1, MergeKept
<1>6. ReadTo(S, k)'
  <2>1. 0 \in 0 .. Len(SectorsOf(elfs[k])) /\ SubSeq(SectorsOf(elfs[k]), 1, 0) = << >>
    <3>1. SectorsOf(elfs[k]) \in Seq(Int \X Int) /\ Len(SectorsOf(elfs[k])) \in Nat
      BY ElfTypes
    <3> QED BY <3>1
  <2>2. readPos' = S[k - 1] + (4 + (2 * 0))
    BY <1>1
  <2>3. \E j \in 0 .. Len(SectorsOf(elfs[k])) :
           /\ readPos' = S[k - 1] + (4 + (2 * j))
           /\ cfg' = [name |-> name, sectors |-> SubSeq(SectorsOf(elfs[k]), 1, j), flash |-> << >>, ram |-> << >>]
    BY <1>3, <2>1, <2>2
  <2>4. elfs' = elfs /\ name' = name
    BY <1>2
  <2> QED BY <2>3, <2>4 DEF ReadTo
<1>7. Walks(S)'
  <2>1. op' \in {"file", "flash"} /\ ret' = TRUE
    BY <1>1
  <2>2. k \in 1 .. merged' /\ elfs'[k].name = name' /\ (Fit' => hdrPos' = S[k])
    BY <1>2
  <2>3. ContentsState(S)'
    BY <1>6, <2>1, <2>2 DEF ContentsState
  <2> QED BY <2>3 DEF Walks, HeaderState, RestartState, Answer
<1> QED BY <1>2, <1>4, <1>5, <1>7 DEF StoreIInv

\* A step that leaves the walk at a header, or where nothing more is said.
LEMMA PassedStep ==
    ASSUME StoreIInv, at = "header", NEW S \in [0 .. merged -> Nat], Laid(S), Walks(S),
           UNCHANGED <<build, name, op, used, ret, cfg>>,
           at' \in {"header", "garbage"}, hdrPos' \in Nat, readPos' \in Nat,
           shown' \in Seq(DeviceNames), op # "list" => shown' = shown,
           Fit => at' = "header" /\ \E n \in 0 .. merged : hdrPos' = S[n] /\ Searched(n)'
    PROVE  StoreIInv'
<1>1. /\ StoreTypes /\ MergeState /\ merging # "running" /\ merged \in Nat
      /\ op \in {"list", "file", "flash"} /\ used = NoConfig /\ (op # "list" => shown = << >>)
      /\ cfg = [name |-> cfg.name, sectors |-> cfg.sectors, flash |-> cfg.flash, ram |-> cfg.ram]
  BY AtHeader
<1>2. /\ UNCHANGED <<elfs, merged, merging, store>>
      /\ S \in [0 .. merged' -> Nat] /\ Laid(S)' /\ (Fit' <=> Fit)
  BY <1>1, FileKept
<1>3. StoreTypes'
  <2>1. ret' \in BOOLEAN
    BY <1>1 DEF StoreTypes, StoreTypeOK
  <2>2. cfg' = [name |-> cfg'.name, sectors |-> cfg'.sectors, flash |-> cfg'.flash, ram |-> cfg'.ram]
    BY <1>1
  <2> QED BY <1>1, <2>1, <2>2, WalkTypes
<1>4. MergeState'
  <2>1. op' # "none" /\ (op' # "list" => shown' = << >>) /\ (at' # "returned" => used' = NoConfig)
    BY <1>1
  <2> QED BY <1>1, <2>1, MergeKept
<1>5. Walks(S)'
  <2>1. HeaderState(S)'
    BY <1>2 DEF HeaderState
  <2>2. Answer(S)'
    BY <1>2 DEF Answer
  <2> QED BY <2>1, <2>2 DEF Walks, ContentsState, RestartState
<1> QED BY <1>2, <1>3, <1>4, <1>5 DEF StoreIInv

\* One turn of the outer loop.
LEMMA HeaderStep ==
    ASSUME StoreIInv, Header
    PROVE  StoreIInv'
<1> PICK S \in [0 .. merged -> Nat] : Laid(S) /\ Walks(S)
  BY DEF StoreIInv
<1>1. at = "header" /\ UNCHANGED <<build, name>>
  BY DEF Header
<1>2. /\ StoreTypes /\ MergeState /\ merging # "running" /\ merged \in Nat /\ Len(store) \in Nat
      /\ op \in {"list", "file", "flash"} /\ used = NoConfig /\ (op # "list" => shown = << >>)
      /\ hdrPos \in Nat /\ readPos \in Nat /\ shown \in Seq(DeviceNames)
      /\ Fit => \E n \in 0 .. merged : hdrPos = S[n] /\ Searched(n)
      /\ Fit /\ hdrPos < Len(store) => IsHeader(store[hdrPos + 1])
  BY <1>1, AtHeader
<1>3. CASE hdrPos >= Len(store)
  <2>1. Ends /\ UNCHANGED <<hdrPos, readPos, tlv, cfg, ret, shown>>
    BY <1>3 DEF Header
  <2> QED BY <1>1, <1>3, <2>1, EndsStep
<1>4. CASE hdrPos < Len(store) /\ ~IsHeader(store[hdrPos + 1])
  <2>1. ~Fit
    BY <1>2, <1>4
  <2>2. ~(hdrPos >= Len(store))
    BY <1>2, <1>4
  <2>3. UNCHANGED <<op, used, ret, cfg, shown, hdrPos>>
        /\ ((at' = "garbage" /\ readPos' = readPos) \/ (at' = at /\ readPos' = hdrPos))
    <3> DEFINE cell == store[hdrPos + 1]
    <3>1. CASE cell.is # "tlv"
      <4>1. at' = "garbage" /\ UNCHANGED <<op, hdrPos, readPos, tlv, cfg, ret, shown, used>>
        BY <2>2, <3>1 DEF Header
      <4> QED BY <4>1
    <3>2. CASE cell.is = "tlv" /\ cell.magic # "ALGO_HDR"
      <4>1. readPos' = hdrPos /\ UNCHANGED <<op, at, hdrPos, cfg, ret, shown, used>>
        BY <2>2, <3>2 DEF Header
      <4> QED BY <4>1
    <3> QED BY <1>4, <3>1, <3>2 DEF IsHeader
  <2>4. at' \in {"header", "garbage"} /\ hdrPos' \in Nat /\ readPos' \in Nat /\ shown' \in Seq(DeviceNames)
    BY <1>1, <1>2, <2>3
  <2> QED BY <1>1, <2>1, <2>3, <2>4, PassedStep
<1>5. CASE hdrPos < Len(store) /\ IsHeader(store[hdrPos + 1])
  <2> DEFINE cell == store[hdrPos + 1]
             device == store[hdrPos + 4].value
             found == op # "list" /\ device = name
  <2>1. ~(hdrPos >= Len(store)) /\ cell.is = "tlv" /\ cell.magic = "ALGO_HDR"
    BY <1>2, <1>5 DEF IsHeader
  <2>2. PICK k \in 1 .. merged :
           /\ k \in Nat /\ hdrPos = S[k - 1] /\ elfs[k] \in Elfs /\ cell.total \in Nat
           /\ Fit => hdrPos + cell.total = S[k]
           /\ device = elfs[k].name
    BY <1>2, <1>5, HeaderRead
  <2>3. /\ at' = IF found THEN "contents" ELSE "header"
        /\ hdrPos' = hdrPos + cell.total
        /\ readPos' = IF found THEN hdrPos + 4 ELSE hdrPos'
        /\ ret' = IF found THEN TRUE ELSE ret
        /\ cfg' = IF found THEN Matches(cfg) ELSE cfg
        /\ shown' = IF op = "list" THEN Append(shown, device) ELSE shown
        /\ UNCHANGED <<op, used>>
    BY <2>1 DEF Header, Passed
  <2>4. hdrPos' \in Nat /\ (Fit => hdrPos' = S[k])
    <3>1. hdrPos' = hdrPos + cell.total
      BY <2>3
    <3>2. hdrPos \in Nat /\ cell.total \in Nat
      BY <1>2, <2>2
    <3>3. Fit => hdrPos + cell.total = S[k]
      BY <2>2
    <3> HIDE DEF cell
    <3> QED BY <3>1, <3>2, <3>3
  <2>5. CASE found
    BY <1>1, <2>2, <2>3, <2>4, <2>5, FoundStep
  <2>6. CASE ~found
    <3>1. UNCHANGED <<op, used, ret, cfg>> /\ at' = "header" /\ readPos' \in Nat
          /\ (op # "list" => shown' = shown)
      BY <2>3, <2>4, <2>6
    <3>2. shown' = (IF op = "list" THEN Append(shown, elfs[k].name) ELSE shown)
      BY <2>2, <2>3
    <3>3. shown' \in Seq(DeviceNames)
      <4>1. elfs[k].name \in DeviceNames
        BY <2>2 DEF DeviceNames
      <4>2. Append(shown, elfs[k].name) \in Seq(DeviceNames)
        BY <1>2, <4>1
      <4> QED BY <1>2, <3>2, <4>2
    <3>4. ASSUME Fit
          PROVE  \E n \in 0 .. merged : hdrPos' = S[n] /\ Searched(n)'
      <4>1. PICK n \in 0 .. merged : hdrPos = S[n] /\ Searched(n)
        BY <1>2, <3>4
      <4>2. k - 1 \in 0 .. merged /\ k \in 0 .. merged /\ k \in Nat \ {0}
        <5>1. k \in 1 .. merged /\ merged \in Nat
          BY <1>2
        <5> QED BY ONLY <5>1
      <4>3. n = k - 1
        <5>1. S[n] = S[k - 1]
          BY <2>2, <4>1
        <5> QED BY <1>2, <4>2, <5>1, LaidOut
      <4>4. Searched(k - 1)
        BY <4>1, <4>3
      <4>5. op = "list" \/ elfs[k].name # name
        BY <2>2, <2>6
      <4>6. Searched(k)'
        <5>1. UNCHANGED <<build, op, name, ret, cfg>>
          BY <1>1, <3>1
        <5> QED BY <3>2, <4>2, <4>4, <4>5, <5>1, SearchedMore
      <4> QED BY <2>4, <3>4, <4>2, <4>6
    <3>5. UNCHANGED <<build, name, op, used, ret, cfg>> /\ at' \in {"header", "garbage"}
      BY <1>1, <3>1
    <3> QED BY <1>1, <2>4, <3>1, <3>3, <3>4, <3>5, PassedStep
  <2> QED BY <2>5, <2>6
<1> QED BY <1>2, <1>3, <1>4, <1>5

\* What the invariant says of a walk that takes over record n.
LEMMA AtContents ==
    ASSUME StoreIInv, at = "contents", NEW S \in [0 .. merged -> Nat], Laid(S), Walks(S)
    PROVE  /\ StoreTypes /\ MergeState /\ merging # "running" /\ merged \in Nat /\ Len(store) \in Nat
           /\ op \in {"file", "flash"} /\ used = NoConfig /\ shown = << >> /\ ret = TRUE
           /\ hdrPos \in Nat /\ readPos \in Nat
           /\ \E n \in 1 .. merged :
                 /\ n \in Nat /\ n \in 0 .. merged /\ elfs[n].name = name /\ elfs[n] \in Elfs
                 /\ ReadTo(S, n) /\ (Fit => hdrPos = S[n])
                 /\ S[n - 1] \in Nat /\ S[n] \in Nat /\ S[n] = S[n - 1] + (RamAt(elfs[n]) + 2) /\ S[n] <= Len(store)
                 /\ \A i \in 1 .. RamAt(elfs[n]) + 2 : store[S[n - 1] + i] = Rec(elfs[n])[i]
<1>1. StoreTypes /\ MergeState
  BY DEF StoreIInv
<1>2. merged \in Nat /\ Len(store) \in Nat /\ \A k \in 0 .. merged : S[k] \in Nat /\ S[k] <= Len(store)
  BY <1>1, LaidOut
<1>3. PICK n \in 1 .. merged : elfs[n].name = name /\ ReadTo(S, n) /\ (Fit => hdrPos = S[n])
  BY DEF Walks, ContentsState
<1>4. op \in {"file", "flash"}
  BY DEF Walks, ContentsState
<1>5. ret = TRUE
  BY DEF Walks, ContentsState
<1>6. merging # "running" /\ used = NoConfig /\ shown = << >>
  BY <1>1, <1>4 DEF MergeState
<1>7. hdrPos \in Nat /\ readPos \in Nat
  BY <1>1 DEF StoreTypes, StoreTypeOK
<1>8. n \in Nat /\ n \in 0 .. merged /\ n - 1 \in 0 .. merged
  BY <1>2
<1>9. elfs[n] \in Elfs /\ S[n] = S[n - 1] + Length(elfs[n])
  BY <1>1, LaidOut
<1>10. Length(elfs[n]) = RamAt(elfs[n]) + 2
  BY <1>9, RecordCellsAre
<1>11. \A i \in 1 .. RamAt(elfs[n]) + 2 : store[S[n - 1] + i] = Rec(elfs[n])[i]
  BY <1>10 DEF Laid
<1>12. S[n - 1] \in Nat /\ S[n] \in Nat /\ S[n] <= Len(store) /\ S[n] = S[n - 1] + (RamAt(elfs[n]) + 2)
  BY <1>2, <1>8, <1>9, <1>10
<1> QED BY <1>1, <1>2, <1>3, <1>4, <1>5, <1>6, <1>7, <1>8, <1>9, <1>11, <1>12

\* A step of the search that takes one more part of record n.
LEMMA ReadStep ==
    ASSUME StoreIInv, at = "contents", NEW S \in [0 .. merged -> Nat], Laid(S), Walks(S),
           NEW n \in 1 .. merged, elfs[n].name = name, Fit => hdrPos = S[n],
           UNCHANGED <<build, op, name, at, hdrPos, ret, shown, used>>,
           ReadTo(S, n)', readPos' \in Nat,
           cfg' = [name |-> cfg'.name, sectors |-> cfg'.sectors, flash |-> cfg'.flash, ram |-> cfg'.ram]
    PROVE  StoreIInv'
<1>1. /\ StoreTypes /\ MergeState /\ merging # "running" /\ merged \in Nat
      /\ op \in {"file", "flash"} /\ used = NoConfig /\ shown = << >> /\ ret = TRUE
      /\ hdrPos \in Nat
  BY AtContents
<1>2. /\ UNCHANGED <<elfs, merged, merging, store>>
      /\ S \in [0 .. merged' -> Nat] /\ Laid(S)' /\ (Fit' <=> Fit)
  BY <1>1, FileKept
<1>3. op' = op /\ name' = name /\ at' = "contents" /\ hdrPos' = hdrPos
  OBVIOUS
<1>4. shown' = << >> /\ used' = NoConfig
  BY <1>1
<1>5. ret' = TRUE
  BY <1>1
<1>6. StoreTypes'
  <2>1. ret' \in BOOLEAN
    BY <1>5
  <2>2. shown' \in Seq(DeviceNames)
    BY <1>4
  <2> QED BY <1>1, <1>3, <2>1, <2>2, WalkTypes
<1>7. MergeState'
  <2>1. op' # "none" /\ (op' # "list" => shown' = << >>) /\ (at' # "returned" => used' = NoConfig)
    BY <1>1, <1>3, <1>4
  <2> QED BY <1>1, <2>1, MergeKept
<1>8. Walks(S)'
  <2>1. n \in 1 .. merged' /\ elfs'[n].name = name' /\ (Fit' => hdrPos' = S[n])
    BY <1>2, <1>3
  <2>2. ContentsState(S)'
    BY <1>1, <1>3, <1>5, <2>1 DEF ContentsState
  <2> QED BY <1>3, <2>2 DEF Walks, HeaderState, RestartState, Answer
<1> QED BY <1>2, <1>6, <1>7, <1>8 DEF StoreIInv

\* A step of the search that leaves the contents.
LEMMA LeaveStep ==
    ASSUME StoreIInv, at = "contents", NEW S \in [0 .. merged -> Nat], Laid(S), Walks(S),
           NEW n \in 1 .. merged, elfs[n].name = name, cfg = Extract(elfs[n]), Fit => hdrPos = S[n],
           UNCHANGED <<build, op, name, hdrPos, cfg, ret, shown, used>>,
           at' \in {"header", "endless", "garbage"}, readPos' \in Nat,
           at' = "garbage" => op = "flash" /\ n = merged
    PROVE  StoreIInv'
<1>1. /\ StoreTypes /\ MergeState /\ merging # "running" /\ merged \in Nat
      /\ op \in {"file", "flash"} /\ used = NoConfig /\ shown = << >> /\ ret = TRUE
      /\ hdrPos \in Nat
  BY AtContents
<1>2. /\ UNCHANGED <<elfs, merged, merging, store>>
      /\ S \in [0 .. merged' -> Nat] /\ Laid(S)' /\ (Fit' <=> Fit)
  BY <1>1, FileKept
<1>3. op' = op /\ name' = name /\ hdrPos' = hdrPos /\ cfg' = cfg
  OBVIOUS
<1>4. shown' = << >> /\ used' = NoConfig
  BY <1>1
<1>5. ret' = TRUE
  BY <1>1
<1>6. StoreTypes'
  <2>1. ret' \in BOOLEAN
    BY <1>5
  <2>2. shown' \in Seq(DeviceNames)
    BY <1>4
  <2>3. cfg' = [name |-> cfg'.name, sectors |-> cfg'.sectors, flash |-> cfg'.flash, ram |-> cfg'.ram]
    BY <1>1, <1>3 DEF StoreTypes
  <2> QED BY <1>1, <1>3, <2>1, <2>2, <2>3, WalkTypes
<1>7. MergeState'
  <2>1. op' # "none" /\ (op' # "list" => shown' = << >>) /\ (at' # "returned" => used' = NoConfig)
    BY <1>1, <1>3, <1>4
  <2> QED BY <1>1, <2>1, MergeKept
<1>8. Searched(n)'
  <2>1. n \in Nat \ {0} /\ elfs'[n].name = name' /\ cfg' = Extract(elfs'[n]) /\ op' # "list"
    BY <1>1, <1>2, <1>3
  <2>2. n \in 1 .. n /\ \A j \in 1 .. n : j <= n
    BY <2>1
  <2>3. Named(n)'
    BY <2>1, <2>2 DEF Named
  <2>4. IsFound(n, cfg)'
    BY <2>1, <2>2 DEF IsFound
  <2> QED BY <1>5, <2>1, <2>3, <2>4 DEF Searched, FoundIn
<1>9. Walks(S)'
  <2>1. n \in 0 .. merged' /\ (Fit' => hdrPos' = S[n])
    BY <1>1, <1>2, <1>3
  <2>2. HeaderState(S)'
    BY <1>8, <2>1 DEF HeaderState
  <2>3. at' = "garbage" => op' = "flash" /\ merged' > 0 /\ elfs'[merged'].name = name'
    BY <1>1, <1>2, <1>3
  <2>4. Answer(S)'
    BY <2>1, <2>3 DEF Answer
  <2> QED BY <2>2, <2>4 DEF Walks, ContentsState, RestartState
<1> QED BY <1>2, <1>6, <1>7, <1>9 DEF StoreIInv

\* Where the search is in record n, and the two cells it reads there.
LEMMA NextPart ==
    ASSUME StoreIInv, at = "contents", NEW S \in [0 .. merged -> Nat], Laid(S), Walks(S),
           NEW n \in 1 .. merged, elfs[n] \in Elfs, elfs[n].name = name, ReadTo(S, n),
           S[n - 1] \in Nat, readPos \in Nat,
           \A i \in 1 .. RamAt(elfs[n]) + 2 : store[S[n - 1] + i] = Rec(elfs[n])[i]
    PROVE  LET e == elfs[n]  L == Len(SectorsOf(e)) IN
           \/ \E j \in 0 .. L - 1 :
                 /\ readPos = S[n - 1] + (4 + (2 * j))
                 /\ cfg = [name |-> name, sectors |-> SubSeq(SectorsOf(e), 1, j), flash |-> << >>, ram |-> << >>]
                 /\ store[readPos + 1] = Tlv("SECTOR_INFO", 1)
                 /\ store[readPos + 2] = Cell("sector", SectorsOf(e)[j + 1])
           \/ /\ readPos = S[n - 1] + FlashAt(e)
              /\ cfg = [name |-> name, sectors |-> SectorsOf(e), flash |-> << >>, ram |-> << >>]
              /\ store[readPos + 1] = Tlv("FLASH_REGION", 1 + AlgoSize(e))
              /\ store[readPos + 2] = Cell("region", Extract(e).flash[1])
           \/ /\ readPos = S[n - 1] + RamAt(e)
              /\ cfg = [name |-> name, sectors |-> SectorsOf(e), flash |-> Extract(e).flash, ram |-> << >>]
              /\ store[readPos + 1] = Tlv("RAM_REGION", 1)
              /\ store[readPos + 2] = Cell("region", Extract(e).ram[1])
           \/ readPos = S[n] /\ cfg = Extract(e)
<1> DEFINE e == elfs[n]
           s == SectorsOf(e)
           L == Len(s)
           b == S[n - 1]
           m == RamAt(e)
           g == FlashAt(e)
           z == AlgoSize(e)
<1>1. /\ s \in Seq(Int \X Int) /\ L \in Nat /\ z \in Nat /\ g \in Nat /\ m \in Nat /\ m = g + 2 + z
  BY ElfTypes
<1>2. g = 4 + (2 * L)
  BY DEF FlashAt
<1>3. b \in Nat /\ \A i \in 1 .. m + 2 : store[b + i] = Rec(e)[i]
  OBVIOUS
<1>4. /\ \A j \in 1 .. L : /\ Rec(e)[4 + ((2 * j) - 1)] = Tlv("SECTOR_INFO", 1)
                           /\ Rec(e)[4 + (2 * j)] = Cell("sector", s[j])
      /\ Rec(e)[g + 1] = Tlv("FLASH_REGION", 1 + z)
      /\ Rec(e)[g + 2] = Cell("region", Extract(e).flash[1])
      /\ Rec(e)[m + 1] = Tlv("RAM_REGION", 1)
      /\ Rec(e)[m + 2] = Cell("region", Extract(e).ram[1])
  BY RecordCellsAre
<1>5. \/ \E j \in 0 .. L :
           /\ readPos = b + (4 + (2 * j))
           /\ cfg = [name |-> name, sectors |-> SubSeq(s, 1, j), flash |-> << >>, ram |-> << >>]
      \/ /\ readPos = b + m
         /\ cfg = [name |-> name, sectors |-> s, flash |-> Extract(e).flash, ram |-> << >>]
      \/ readPos = S[n] /\ cfg = Extract(e)
  BY DEF ReadTo
<1> HIDE DEF e, s, L, b, m, g, z
<1>6. ASSUME NEW j \in 0 .. L, j # L, readPos = b + (4 + (2 * j))
      PROVE  /\ j \in 0 .. L - 1 /\ store[readPos + 1] = Tlv("SECTOR_INFO", 1)
             /\ store[readPos + 2] = Cell("sector", s[j + 1])
  <2>6. L \in Nat /\ z \in Nat /\ m = g + 2 + z /\ g = 4 + (2 * L) /\ b \in Nat
    BY <1>1, <1>2, <1>3
  <2>1. j \in 0 .. L - 1 /\ j + 1 \in 1 .. L
    BY ONLY <1>6, <2>6
  <2>2. 4 + ((2 * (j + 1)) - 1) \in 1 .. m + 2 /\ 4 + (2 * (j + 1)) \in 1 .. m + 2
    BY ONLY <2>6, <2>1
  <2>3. readPos + 1 = b + (4 + ((2 * (j + 1)) - 1)) /\ readPos + 2 = b + (4 + (2 * (j + 1)))
    BY ONLY <1>6, <2>6, <2>1
  <2>4. /\ store[b + (4 + ((2 * (j + 1)) - 1))] = Rec(e)[4 + ((2 * (j + 1)) - 1)]
        /\ store[b + (4 + (2 * (j + 1)))] = Rec(e)[4 + (2 * (j + 1))]
    BY ONLY <1>3, <2>2
  <2>5. Rec(e)[4 + ((2 * (j + 1)) - 1)] = Tlv("SECTOR_INFO", 1) /\ Rec(e)[4 + (2 * (j + 1))] = Cell("sector", s[j + 1])
    BY ONLY <1>4, <2>1
  <2> QED BY ONLY <2>1, <2>3, <2>4, <2>5
<1>7. ASSUME readPos = b + (4 + (2 * L))
      PROVE  /\ readPos = b + g
             /\ store[readPos + 1] = Tlv("FLASH_REGION", 1 + z)
             /\ store[readPos + 2] = Cell("region", Extract(e).flash[1])
  <2>1. readPos = b + g
    BY <1>2, <1>7
  <2>2. g \in Nat /\ z \in Nat /\ m = g + 2 + z /\ b \in Nat
    BY <1>1, <1>3
  <2>3. g + 1 \in 1 .. m + 2 /\ g + 2 \in 1 .. m + 2
    BY ONLY <2>2
  <2>4. readPos + 1 = b + (g + 1) /\ readPos + 2 = b + (g + 2)
    BY ONLY <2>1, <2>2
  <2>5. store[b + (g + 1)] = Rec(e)[g + 1] /\ store[b + (g + 2)] = Rec(e)[g + 2]
    BY ONLY <1>3, <2>3
  <2> QED BY ONLY <1>4, <2>1, <2>4, <2>5
<1>8. ASSUME readPos = b + m
      PROVE  /\ store[readPos + 1] = Tlv("RAM_REGION", 1)
             /\ store[readPos + 2] = Cell("region", Extract(e).ram[1])
  <2>1. m \in Nat /\ b \in Nat
    BY <1>1, <1>3
  <2>2. m + 1 \in 1 .. m + 2 /\ m + 2 \in 1 .. m + 2
    BY ONLY <2>1
  <2>3. readPos + 1 = b + (m + 1) /\ readPos + 2 = b + (m + 2)
    BY ONLY <1>8, <2>1
  <2>4. store[b + (m + 1)] = Rec(e)[m + 1] /\ store[b + (m + 2)] = Rec(e)[m + 2]
    BY ONLY <1>3, <2>2
  <2> QED BY ONLY <1>4, <2>3, <2>4
<1>9. SubSeq(s, 1, L) = s
  BY <1>1 DEF L
<1>10. \/ \E j \in 0 .. L - 1 :
             /\ readPos = b + (4 + (2 * j))
             /\ cfg = [name |-> name, sectors |-> SubSeq(s, 1, j), flash |-> << >>, ram |-> << >>]
             /\ store[readPos + 1] = Tlv("SECTOR_INFO", 1)
             /\ store[readPos + 2] = Cell("sector", s[j + 1])
       \/ /\ readPos = b + g
          /\ cfg = [name |-> name, sectors |-> s, flash |-> << >>, ram |-> << >>]
          /\ store[readPos + 1] = Tlv("FLASH_REGION", 1 + z)
          /\ store[readPos + 2] = Cell("region", Extract(e).flash[1])
       \/ /\ readPos = b + m
          /\ cfg = [name |-> name, sectors |-> s, flash |-> Extract(e).flash, ram |-> << >>]
          /\ store[readPos + 1] = Tlv("RAM_REGION", 1)
          /\ store[readPos + 2] = Cell("region", Extract(e).ram[1])
       \/ readPos = S[n] /\ cfg = Extract(e)
  <2>1. CASE \E j \in 0 .. L :
               /\ readPos = b + (4 + (2 * j))
               /\ cfg = [name |-> name, sectors |-> SubSeq(s, 1, j), flash |-> << >>, ram |-> << >>]
    <3>1. PICK j \in 0 .. L :
             /\ readPos = b + (4 + (2 * j))
             /\ cfg = [name |-> name, sectors |-> SubSeq(s, 1, j), flash |-> << >>, ram |-> << >>]
      BY <2>1
    <3>2. CASE j = L
      <4>1. cfg = [name |-> name, sectors |-> s, flash |-> << >>, ram |-> << >>] /\ readPos = b + (4 + (2 * L))
        BY <1>9, <3>1, <3>2
      <4> QED BY <1>7, <4>1
    <3>3. CASE j # L
      <4>1. j \in 0 .. L - 1 /\ store[readPos + 1] = Tlv("SECTOR_INFO", 1)
            /\ store[readPos + 2] = Cell("sector", s[j + 1])
        BY <1>6, <3>1, <3>3
      <4> QED BY <3>1, <4>1
    <3> QED BY <3>2, <3>3
  <2>2. CASE /\ readPos = b + m
             /\ cfg = [name |-> name, sectors |-> s, flash |-> Extract(e).flash, ram |-> << >>]
    BY <1>8, <2>2
  <2>3. CASE readPos = S[n] /\ cfg = Extract(e)
    BY <2>3
  <2> QED BY <1>5, <2>1, <2>2, <2>3
<1> QED BY <1>10 DEF e, s, L, b, m, g, z


\* Append is concatenation with one.
LEMMA OneMore ==
    ASSUME NEW q, NEW x PROVE q \o <<x>> = Append(q, x)
  OBVIOUS

\* One turn of the inner loop: one more sector, the region of flash, the
\* region of RAM, or the end of the record.
LEMMA ContentsStep ==
    ASSUME StoreIInv, Contents
    PROVE  StoreIInv'
<1> PICK S \in [0 .. merged -> Nat] : Laid(S) /\ Walks(S)
  BY DEF StoreIInv
<1>1. at = "contents" /\ readPos < Len(store) /\ UNCHANGED <<build, op, name, hdrPos, ret, shown, used>>
  BY DEF Contents
<1>2. /\ StoreTypes /\ merged \in Nat /\ Len(store) \in Nat /\ hdrPos \in Nat /\ readPos \in Nat /\ op \in {"file", "flash"}
  BY <1>1, AtContents
<1>3. PICK n \in 1 .. merged :
         /\ n \in Nat /\ n \in 0 .. merged /\ elfs[n].name = name /\ elfs[n] \in Elfs
         /\ ReadTo(S, n) /\ (Fit => hdrPos = S[n])
         /\ S[n - 1] \in Nat /\ S[n] \in Nat /\ S[n] = S[n - 1] + (RamAt(elfs[n]) + 2) /\ S[n] <= Len(store)
         /\ \A i \in 1 .. RamAt(elfs[n]) + 2 : store[S[n - 1] + i] = Rec(elfs[n])[i]
  BY <1>1, AtContents
<1> DEFINE e == elfs[n]
           s == SectorsOf(e)
           L == Len(s)
           b == S[n - 1]
           cell == store[readPos + 1]
           value == store[readPos + 2].value
<1>4. \/ \E j \in 0 .. L - 1 :
            /\ readPos = b + (4 + (2 * j))
            /\ cfg = [name |-> name, sectors |-> SubSeq(s, 1, j), flash |-> << >>, ram |-> << >>]
            /\ cell = Tlv("SECTOR_INFO", 1) /\ store[readPos + 2] = Cell("sector", s[j + 1])
      \/ /\ readPos = b + FlashAt(e)
         /\ cfg = [name |-> name, sectors |-> s, flash |-> << >>, ram |-> << >>]
         /\ cell = Tlv("FLASH_REGION", 1 + AlgoSize(e)) /\ store[readPos + 2] = Cell("region", Extract(e).flash[1])
      \/ /\ readPos = b + RamAt(e)
         /\ cfg = [name |-> name, sectors |-> s, flash |-> Extract(e).flash, ram |-> << >>]
         /\ cell = Tlv("RAM_REGION", 1) /\ store[readPos + 2] = Cell("region", Extract(e).ram[1])
      \/ readPos = S[n] /\ cfg = Extract(e)
  BY <1>1, <1>2, <1>3, NextPart
<1>5. /\ e \in Elfs /\ s \in Seq(Int \X Int) /\ L \in Nat /\ AlgoSize(e) \in Nat /\ FlashAt(e) \in Nat /\ RamAt(e) \in Nat
      /\ RamAt(e) = FlashAt(e) + 2 + AlgoSize(e) /\ b \in Nat
  BY <1>3, ElfTypes
<1>6. /\ Extract(e) = [name |-> e.name, sectors |-> s, flash |-> <<Extract(e).flash[1]>>, ram |-> <<Extract(e).ram[1]>>]
      /\ Extract(e).flash[1].algo.size = AlgoSize(e) /\ Extract(e).ram[1].algo.size = 0
  BY DEF Extract, AlgorithmOf, NoAlgorithm, SectorsOf
<1>7. elfs' = elfs /\ name' = name
  BY <1>1 DEF build
<1> HIDE DEF s, L, b, value
\* A part of the record is taken.
<1>8. ASSUME UNCHANGED at, ReadTo(S, n)', readPos' \in Nat,
             cfg' = [name |-> cfg'.name, sectors |-> cfg'.sectors, flash |-> cfg'.flash, ram |-> cfg'.ram]
      PROVE  StoreIInv'
  <2>1. UNCHANGED <<build, op, name, at, hdrPos, ret, shown, used>>
    BY <1>1, <1>8
  <2> QED BY <1>1, <1>3, <1>8, <2>1, ReadStep
<1>9. CASE \E j \in 0 .. L - 1 :
             /\ readPos = b + (4 + (2 * j))
             /\ cfg = [name |-> name, sectors |-> SubSeq(s, 1, j), flash |-> << >>, ram |-> << >>]
             /\ cell = Tlv("SECTOR_INFO", 1) /\ store[readPos + 2] = Cell("sector", s[j + 1])
  <2>1. PICK j \in 0 .. L - 1 :
           /\ readPos = b + (4 + (2 * j))
           /\ cfg = [name |-> name, sectors |-> SubSeq(s, 1, j), flash |-> << >>, ram |-> << >>]
           /\ cell = Tlv("SECTOR_INFO", 1) /\ store[readPos + 2] = Cell("sector", s[j + 1])
    BY <1>9
  <2>2. cell.magic = "SECTOR_INFO" /\ value = s[j + 1]
    <3>1. cell = Tlv("SECTOR_INFO", 1) /\ store[readPos + 2] = Cell("sector", s[j + 1])
      BY <2>1
    <3>2. cell.magic = "SECTOR_INFO"
      BY ONLY <3>1 DEF Tlv
    <3>3. store[readPos + 2].value = s[j + 1]
      BY ONLY <3>1 DEF Cell
    <3> QED BY <3>2, <3>3 DEF value
  <2>3. at' = at /\ cfg' = [cfg EXCEPT !.sectors = Append(@, value)] /\ readPos' = readPos + 2 + 0
    BY <2>2 DEF Contents, value
  <2>4. j + 1 \in 0 .. L /\ j \in Nat /\ SubSeq(s, 1, j + 1) = Append(SubSeq(s, 1, j), s[j + 1])
    <3>1. L = Len(s) /\ j \in Nat /\ j + 1 \in 1 .. L /\ 1 \in 1 .. L /\ (j + 1) - 1 = j
      BY <1>5 DEF L
    <3>2. SubSeq(s, 1, j + 1) = SubSeq(s, 1, (j + 1) - 1) \o <<s[j + 1]>>
      <4>1. s \in Seq(Int \X Int) /\ 1 \in 1 .. Len(s) /\ j + 1 \in 1 .. Len(s)
        BY <1>5, <3>1
      <4> QED BY ONLY <4>1, SubSeqRecursiveSecond
    <3>3. SubSeq(s, 1, j) \o <<s[j + 1]>> = Append(SubSeq(s, 1, j), s[j + 1])
      BY ONLY OneMore
    <3>4. j + 1 \in 0 .. L
      BY ONLY <1>5, <3>1
    <3> QED BY ONLY <3>1, <3>2, <3>3, <3>4
  <2>5. cfg' = [name |-> name, sectors |-> SubSeq(s, 1, j + 1), flash |-> << >>, ram |-> << >>]
    BY <2>1, <2>2, <2>3, <2>4
  <2>6. readPos' = b + (4 + (2 * (j + 1)))
    <3>1. readPos = b + (4 + (2 * j)) /\ readPos' = readPos + 2 + 0
      BY <2>1, <2>3
    <3> QED BY <1>5, <2>4, <3>1
  <2>7. ReadTo(S, n)'
    BY <1>7, <2>4, <2>5, <2>6 DEF ReadTo, s, L, b
  <2>8. readPos' \in Nat
    BY <1>5, <2>4, <2>6
  <2> QED BY <1>8, <2>3, <2>5, <2>7, <2>8
<1>10. CASE /\ readPos = b + FlashAt(e)
            /\ cfg = [name |-> name, sectors |-> s, flash |-> << >>, ram |-> << >>]
            /\ cell = Tlv("FLASH_REGION", 1 + AlgoSize(e)) /\ store[readPos + 2] = Cell("region", Extract(e).flash[1])
  <2>1. cell.magic = "FLASH_REGION" /\ value = Extract(e).flash[1]
    <3>1. 1 + AlgoSize(e) \in Nat
      BY <1>5
    <3> QED BY <1>10, <3>1, TlvIs, CellIs DEF value
  <2>2. at' = at /\ cfg' = [cfg EXCEPT !.flash = Append(@, value)] /\ readPos' = readPos + 2 + value.algo.size
    BY <2>1 DEF Contents, value
  <2>3. cfg' = [name |-> name, sectors |-> s, flash |-> Extract(e).flash, ram |-> << >>]
    <3>1. Append(<< >>, value) = <<value>>
      OBVIOUS
    <3> QED BY <1>6, <1>10, <2>1, <2>2, <3>1
  <2>4. readPos' = b + RamAt(e) /\ readPos' \in Nat
    BY <1>5, <1>6, <1>10, <2>1, <2>2
  <2>5. ReadTo(S, n)'
    BY <1>7, <2>3, <2>4 DEF ReadTo, s, b
  <2> QED BY <1>8, <2>2, <2>3, <2>4, <2>5
<1>11. CASE /\ readPos = b + RamAt(e)
            /\ cfg = [name |-> name, sectors |-> s, flash |-> Extract(e).flash, ram |-> << >>]
            /\ cell = Tlv("RAM_REGION", 1) /\ store[readPos + 2] = Cell("region", Extract(e).ram[1])
  <2>1. cell.magic = "RAM_REGION" /\ value = Extract(e).ram[1]
    BY <1>11, TlvIs, CellIs DEF value
  <2>2. at' = at /\ cfg' = [cfg EXCEPT !.ram = Append(@, value)] /\ readPos' = readPos + 2 + value.algo.size
    BY <2>1 DEF Contents, value
  <2>3. cfg' = Extract(e)
    <3>1. Append(<< >>, value) = <<value>>
      OBVIOUS
    <3>2. e.name = name
      BY <1>3
    <3> QED BY <1>6, <1>11, <2>1, <2>2, <3>1, <3>2
  <2>4. readPos' = S[n] /\ readPos' \in Nat
    <3>1. S[n] = b + (RamAt(e) + 2)
      BY <1>3 DEF b
    <3>2. readPos' = (b + RamAt(e)) + 2 + 0
      BY <1>6, <1>11, <2>1, <2>2
    <3>3. b \in Nat /\ RamAt(e) \in Nat
      BY <1>5
    <3> QED BY ONLY <3>1, <3>2, <3>3
  <2>5. ReadTo(S, n)'
    BY <1>7, <2>3, <2>4 DEF ReadTo
  <2>6. cfg' = [name |-> cfg'.name, sectors |-> cfg'.sectors, flash |-> cfg'.flash, ram |-> cfg'.ram]
    BY <2>3 DEF Extract
  <2> QED BY <1>8, <2>2, <2>4, <2>5, <2>6
\* The record has ended: the next header.
<1>12. CASE readPos = S[n] /\ cfg = Extract(e)
  <2>1. n \in 0 .. merged - 1
    <3>1. S[merged] = Len(store)
      BY DEF Laid
    <3>2. n # merged
      BY <1>1, <1>2, <1>12, <3>1
    <3> QED BY <1>2, <1>3, <3>2
  <2>2. IsHeader(cell)
    BY <1>2, <1>12, <2>1, LaidOut
  <2>3. at' = "header" /\ readPos' = hdrPos /\ cfg' = cfg
    BY <2>2 DEF Contents, IsHeader
  <2>4. UNCHANGED <<build, op, name, hdrPos, cfg, ret, shown, used>>
    BY <1>1, <2>3
  <2>5. at' \in {"header", "endless", "garbage"} /\ readPos' \in Nat /\ (at' = "garbage" => op = "flash" /\ n = merged)
    BY <1>2, <2>3
  <2> QED BY <1>1, <1>3, <1>12, <2>4, <2>5, LeaveStep
<1> QED BY <1>4, <1>9, <1>10, <1>11, <1>12 DEF s, L, b

\* The loop behind the last record: the record it was taking is complete.
LEMMA BeyondStep ==
    ASSUME StoreIInv, Beyond
    PROVE  StoreIInv'
<1> PICK S \in [0 .. merged -> Nat] : Laid(S) /\ Walks(S)
  BY DEF StoreIInv
<1>1. at = "contents" /\ readPos >= Len(store) /\ UNCHANGED <<build, op, name, hdrPos, cfg, ret, shown, used>>
  BY DEF Beyond
<1>2. /\ StoreTypes /\ merged \in Nat /\ Len(store) \in Nat /\ hdrPos \in Nat /\ readPos \in Nat /\ op \in {"file", "flash"}
  BY <1>1, AtContents
<1>3. PICK n \in 1 .. merged :
         /\ n \in Nat /\ n \in 0 .. merged /\ elfs[n].name = name /\ elfs[n] \in Elfs
         /\ ReadTo(S, n) /\ (Fit => hdrPos = S[n])
         /\ S[n - 1] \in Nat /\ S[n] \in Nat /\ S[n] = S[n - 1] + (RamAt(elfs[n]) + 2) /\ S[n] <= Len(store)
  BY <1>1, AtContents
<1>4. /\ Len(SectorsOf(elfs[n])) \in Nat /\ AlgoSize(elfs[n]) \in Nat /\ RamAt(elfs[n]) \in Nat
      /\ RamAt(elfs[n]) = 4 + (2 * Len(SectorsOf(elfs[n]))) + 2 + AlgoSize(elfs[n])
  BY <1>3, ElfTypes DEF FlashAt
<1>5. readPos = S[n] /\ cfg = Extract(elfs[n])
  <2> DEFINE b == S[n - 1]
             L == Len(SectorsOf(elfs[n]))
             m == RamAt(elfs[n])
             z == AlgoSize(elfs[n])
             t == S[n]
  <2>1. \/ \E j \in 0 .. L : readPos = b + (4 + (2 * j))
        \/ readPos = b + m
        \/ readPos = t /\ cfg = Extract(elfs[n])
    BY <1>3 DEF ReadTo
  <2>2. b \in Nat /\ L \in Nat /\ m \in Nat /\ z \in Nat /\ m = 4 + (2 * L) + 2 + z /\ t = b + (m + 2) /\ readPos >= t
        /\ readPos \in Nat
    BY <1>1, <1>2, <1>3, <1>4
  <2> HIDE DEF b, L, m, z, t
  <2>3. ~ \E j \in 0 .. L : readPos = b + (4 + (2 * j))
    BY <2>2
  <2>4. readPos # b + m
    BY <2>2
  <2> QED BY <2>1, <2>3, <2>4 DEF t
<1>6. n = merged
  <2>1. S[n] = Len(store)
    BY <1>1, <1>2, <1>3, <1>5
  <2> QED BY <1>2, <1>3, <2>1, LaidOut
<1>7. /\ at' \in {"header", "endless", "garbage"} /\ readPos' \in {readPos, hdrPos}
      /\ at' = "garbage" => op # "file"
  BY DEF Beyond
<1>8. readPos' \in Nat /\ (at' = "garbage" => op = "flash" /\ n = merged)
  BY <1>2, <1>6, <1>7
<1> QED BY <1>1, <1>3, <1>5, <1>7, <1>8, LeaveStep

-----------------------------------------------------------------------------

\* Every step keeps the invariant.
LEMMA StoreStep ==
    ASSUME StoreIInv, [StoreNext]_store_vars
    PROVE  StoreIInv'
<1>1. CASE Merge
  BY <1>1, MergeStep
<1>2. CASE Call
  <2>1. CASE Begin("list", NoName)
    BY <2>1, BeginStep
  <2>2. ASSUME NEW n \in Names, Begin("file", n) \/ Begin("flash", n)
        PROVE  StoreIInv'
    BY <2>2, BeginStep
  <2> QED BY <1>2, <2>1, <2>2 DEF Call
<1>3. CASE Header
  BY <1>3, HeaderStep
<1>4. CASE Contents
  BY <1>4, ContentsStep
<1>5. CASE Beyond
  BY <1>5, BeyondStep
<1>6. CASE Restart
  BY <1>6, RestartStep
<1>7. CASE UNCHANGED store_vars
  <2>1. /\ UNCHANGED <<elfs, merged, merging, store>>
        /\ UNCHANGED <<op, name, at, hdrPos, readPos, tlv, cfg, ret, shown, used>>
    BY <1>7 DEF store_vars, build, walk
  <2> PICK S \in [0 .. merged -> Nat] : Laid(S) /\ Walks(S)
    BY DEF StoreIInv
  <2>2. StoreTypes'
    BY <2>1 DEF StoreIInv, StoreTypes, StoreTypeOK
  <2>3. MergeState'
    BY <2>1 DEF StoreIInv, MergeState
  <2>4. S \in [0 .. merged' -> Nat] /\ Laid(S)'
    BY <2>1 DEF Laid
  <2>5. Walks(S)'
    BY <2>1 DEF Walks, HeaderState, ContentsState, RestartState, Answer, Fit, Searched, ListedTo, FoundIn,
                Unknown, FilesNamed, Named, IsFound, ReadTo, Used, FilesGood
  <2> QED BY <2>2, <2>3, <2>4, <2>5 DEF StoreIInv
<1> QED BY <1>1, <1>2, <1>3, <1>4, <1>5, <1>6, <1>7 DEF StoreNext, Turn

\* The inductive invariant of the store: records laid one behind another, and
\* what merge, find and list_device have got of them so far.
THEOREM StoreIInvHolds == StoreSpec => []StoreIInv
<1>1. StoreInit => StoreIInv
  BY StoreInitStep
<1>2. StoreIInv /\ [StoreNext]_store_vars => StoreIInv'
  BY StoreStep
<1> QED BY <1>1, <1>2, PTL DEF StoreSpec

\* StoreInv for every set of algorithm files and any of them merged in any order:
\* while totals fit, Algorithm::find and list_device are at the header of a record
\* or at the end, and what extract computes lies apart in RAM.
THEOREM StoreInvHolds == StoreSpec => []StoreInv
<1>1. StoreIInv => StoreInv
  BY StoreImplied
<1> QED BY <1>1, StoreIInvHolds, PTL

\* WalksAnswer for the same: find gives the last record of a name, whole, list_device
\* every device in order, and the flash command programs with what it should.
THEOREM WalksAnswerHold == StoreSpec => []WalksAnswer
<1>1. StoreIInv => WalksAnswer
  BY StoreImplied
<1> QED BY <1>1, StoreIInvHolds, PTL
=============================================================================

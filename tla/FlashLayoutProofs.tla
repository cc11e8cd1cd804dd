-------------------------- MODULE FlashLayoutProofs --------------------------
(***************************************************************************)
(* Lemmas about the look-ups of FlashLayout and the images of FlashImage,  *)
(* for the proofs about the modules built on them.                         *)
(***************************************************************************)
EXTENDS FlashImage, WellFoundedInduction, SequenceTheorems, TLAPS

\* What a sequence has after its first m elements, up to the n-th.
LEMMA PartOf ==
    ASSUME NEW T, NEW s \in Seq(T), NEW m \in Nat, NEW n \in Nat, m <= n, n <= Len(s)
    PROVE  /\ SubSeq(s, m + 1, n) \in Seq(T) /\ Len(SubSeq(s, m + 1, n)) = n - m
           /\ \A k \in 1 .. n - m : SubSeq(s, m + 1, n)[k] = s[m + k]
<1> DEFINE p == m + 1
           x == SubSeq(s, p, n)
<1>1. /\ p \in Int /\ n \in Int /\ (IF p <= n THEN (n - p) + 1 ELSE 0) = n - m
      /\ 1 .. (n - p) + 1 = 1 .. n - m /\ \A k \in 1 .. n - m : (p + k) - 1 = m + k
  OBVIOUS
<1>2. \A i \in p .. n : s[i] \in T
  OBVIOUS
<1> HIDE DEF p
<1>3. /\ x \in Seq(T) /\ Len(x) = IF p <= n THEN (n - p) + 1 ELSE 0
      /\ \A i \in 1 .. (n - p) + 1 : x[i] = s[(p + i) - 1]
  BY <1>1, <1>2, SubSeqProperties
<1> HIDE DEF x
<1>4. x \in Seq(T) /\ Len(x) = n - m /\ \A k \in 1 .. n - m : x[k] = s[m + k]
  BY <1>1, <1>3
<1> QED
  BY <1>4 DEF x, p

\* A sequence up to n is its part up to m and the part from there.
LEMMA SplitAt ==
    ASSUME NEW T, NEW s \in Seq(T), NEW n \in 0 .. Len(s), NEW m \in 0 .. n
    PROVE  /\ SubSeq(s, 1, m) \in Seq(T) /\ Len(SubSeq(s, 1, m)) = m
           /\ SubSeq(s, 1, m) \o SubSeq(s, m + 1, n) = SubSeq(s, 1, n)
<1> DEFINE x == SubSeq(s, 1, m)
           y == SubSeq(s, m + 1, n)
           z == SubSeq(s, 1, n)
<1>1. Len(s) \in Nat /\ n \in Nat /\ m \in Nat /\ m <= n /\ n <= Len(s)
  OBVIOUS
<1>2. x \in Seq(T) /\ Len(x) = m /\ \A k \in 1 .. m : x[k] = s[k]
  BY <1>1
<1>3. y \in Seq(T) /\ Len(y) = n - m /\ \A k \in 1 .. n - m : y[k] = s[m + k]
  BY <1>1, PartOf
<1>4. z \in Seq(T) /\ Len(z) = n /\ \A k \in 1 .. n : z[k] = s[k]
  BY <1>1
<1> HIDE DEF x, y, z
<1>5. x \o y \in Seq(T) /\ Len(x \o y) = n
  BY <1>1, <1>2, <1>3
<1>6. ASSUME NEW k \in 1 .. n
      PROVE  (x \o y)[k] = z[k]
  <2>1. CASE k <= m
    <3>1. (x \o y)[k] = x[k]
      BY <1>1, <1>2, <1>3, <2>1
    <3> QED BY <1>1, <1>2, <1>4, <2>1, <3>1
  <2>2. CASE ~(k <= m)
    <3>1. PICK j \in 1 .. n - m : j = k - m
      BY <1>1, <2>2
    <3>2. (x \o y)[k] = y[k - m]
      BY <1>1, <1>2, <1>3, <2>2
    <3>3. y[j] = s[m + j] /\ m + j = k
      BY <1>1, <1>3, <3>1
    <3> QED BY <1>4, <3>1, <3>2, <3>3
  <2> QED BY <2>1, <2>2
<1>7. x \o y = z
  BY <1>4, <1>5, <1>6
<1> QED
  BY <1>2, <1>7 DEF x, y, z

\* A set of naturals that is not empty has a least element: the scans of the
\* tables stop at a first entry.
LEMMA Least ==
    ASSUME NEW S \in SUBSET Nat, S # {}
    PROVE  \E n \in S : \A m \in S : n <= m
<1> DEFINE R == OpToRel(<, Nat)
<1>1. IsWellFoundedOn(R, Nat)
  BY NatLessThanWellFounded
<1>2. \A x, y \in Nat : x < y => <<x, y>> \in R
  BY DEF OpToRel
<1> HIDE DEF R
<1>3. PICK n \in S : \A m \in S : ~(<<m, n>> \in R)
  BY <1>1, WFMin
<1>4. ASSUME NEW m \in S PROVE n <= m
  <2>1. n \in Nat /\ m \in Nat  OBVIOUS
  <2>2. ~(m < n)  BY <1>2, <1>3, <2>1
  <2> QED BY <2>1, <2>2
<1> QED
  BY <1>4

\* A bounded set of naturals has a greatest one.
LEMMA Greatest ==
    ASSUME NEW k \in Nat, NEW S \in SUBSET (1 .. k), S # {}
    PROVE  \E n \in S : \A m \in S : m <= n
<1> DEFINE T == {k - i : i \in S}
<1>1. T \in SUBSET Nat /\ T # {}
  <2>1. PICK i \in S : TRUE  OBVIOUS
  <2>2. k - i \in T  BY <2>1
  <2>3. \A j \in S : k - j \in Nat  OBVIOUS
  <2> QED BY <2>2, <2>3
<1>2. PICK t \in T : \A m \in T : t <= m
  BY <1>1, Least
<1>3. PICK n \in S : t = k - n
  BY <1>2
<1>4. ASSUME NEW m \in S PROVE m <= n
  <2>1. t <= k - m  BY <1>2
  <2>2. n \in 1 .. k /\ m \in 1 .. k  OBVIOUS
  <2> QED BY <2>1, <2>2, <1>3
<1> QED
  BY <1>4

\* The size of a sector is a number, and 0 for an address without sector.
LEMMA SectorSizeType ==
    ASSUME NEW a \in Nat
    PROVE  flash_erase_sector_size(a) \in Nat
<1> DEFINE S == {i \in DOMAIN Sectors : a >= Sectors[i].start}
<1>1. DOMAIN Sectors = 1 .. Len(Sectors) /\ Len(Sectors) \in Nat
  BY LayoutAssumption
<1>2. \A i \in DOMAIN Sectors : Sectors[i].start \in Nat /\ Sectors[i].size \in Nat
  <2>1. \A i \in DOMAIN Sectors : Sectors[i] \in Sector  BY LayoutAssumption
  <2> QED BY <2>1 DEF Sector
<1>3. CASE S = {}
  BY <1>3 DEF flash_erase_sector_size
<1>4. CASE S # {}
  <2>1. S \in SUBSET (1 .. Len(Sectors))  BY <1>1
  <2>2. PICK n \in S : \A m \in S : m <= n  BY <1>1, <1>4, <2>1, Greatest
  <2>3. n \in DOMAIN Sectors /\ IsLastRun(n, a)
    <3>1. ASSUME NEW j \in DOMAIN Sectors, j > n PROVE a < Sectors[j].start
      <4>1. j \notin S  BY <2>1, <2>2, <3>1, <1>1
      <4> QED BY <4>1, <1>2
    <3> QED BY <3>1, <2>2 DEF IsLastRun
  <2>4. (CHOOSE i \in DOMAIN Sectors : IsLastRun(i, a)) \in DOMAIN Sectors
    BY <2>3
  <2> QED BY <2>4, <1>2, <1>4 DEF flash_erase_sector_size
<1> QED BY <1>3, <1>4

\* The first index that has a property exists when one has it.
LEMMA FirstIndex ==
    ASSUME NEW k \in Nat, NEW S \in SUBSET (1 .. k), S # {}
    PROVE  \E n \in S : \A j \in 1 .. n - 1 : j \notin S
<1>1. S \in SUBSET Nat
  OBVIOUS
<1>2. PICK n \in S : \A m \in S : n <= m
  BY <1>1, Least
<1>3. ASSUME NEW j \in 1 .. n - 1 PROVE j \notin S
  <2>1. n \in Nat /\ j \in Int /\ j < n  BY <1>1
  <2> QED BY <2>1, <1>2
<1> QED
  BY <1>3

\* The region of an address is an index of the table, or 0.
LEMMA RegionOfType ==
    ASSUME NEW a \in Nat
    PROVE  RegionOf(a) \in {0} \cup DOMAIN Regions
<1> DEFINE S == {i \in DOMAIN Regions : InRegion(i, a)}
<1>1. DOMAIN Regions = 1 .. Len(Regions) /\ Len(Regions) \in Nat
  BY LayoutAssumption
<1>2. CASE S = {}
  BY <1>2 DEF RegionOf
<1>3. CASE S # {}
  <2>1. PICK n \in S : \A j \in 1 .. n - 1 : j \notin S  BY <1>1, <1>3, FirstIndex
  <2>2. \A j \in 1 .. n - 1 : ~InRegion(j, a)  BY <1>1, <2>1
  <2> QED BY <2>1, <2>2 DEF RegionOf
<1> QED BY <1>2, <1>3

\* So is the default region.
LEMMA FirstDefaultType == FirstDefault \in {0} \cup DOMAIN Regions
<1> DEFINE S == {i \in DOMAIN Regions : Regions[i].default}
<1>1. DOMAIN Regions = 1 .. Len(Regions) /\ Len(Regions) \in Nat
  BY LayoutAssumption
<1>2. CASE S = {}
  BY <1>2 DEF FirstDefault
<1>3. CASE S # {}
  <2>1. PICK n \in S : \A j \in 1 .. n - 1 : j \notin S  BY <1>1, <1>3, FirstIndex
  <2>2. \A j \in 1 .. n - 1 : ~Regions[j].default  BY <1>1, <2>1
  <2> QED BY <2>1, <2>2 DEF FirstDefault
<1> QED BY <1>2, <1>3

\* ROUND_DOWN gives the start of the block a value lies in.
LEMMA RoundDown ==
    ASSUME NEW v \in Nat, NEW b \in Nat \ {0}
    PROVE  /\ ROUND_DOWN(v, b) \in Nat
           /\ ROUND_DOWN(v, b) <= v
           /\ v < ROUND_DOWN(v, b) + b
<1>1. v % b \in 0 .. b - 1 /\ v = b * (v \div b) + (v % b) /\ v \div b \in Int
  OBVIOUS
<1>2. v \div b >= 0
  OBVIOUS
<1>3. b * (v \div b) >= 0
  BY <1>1, <1>2
<1> QED BY <1>1, <1>3 DEF ROUND_DOWN

\* Two values of one block have the same start of block.
LEMMA RoundDownBlock ==
    ASSUME NEW v \in Nat, NEW b \in Nat \ {0}, NEW u \in Nat,
           ROUND_DOWN(v, b) <= u, u < ROUND_DOWN(v, b) + b
    PROVE  ROUND_DOWN(u, b) = ROUND_DOWN(v, b)
<1> DEFINE q == v \div b
           p == u \div b
<1>1. /\ v = b * q + (v % b) /\ q \in Int /\ v % b \in 0 .. b - 1
      /\ u = b * p + (u % b) /\ p \in Int /\ u % b \in 0 .. b - 1
  OBVIOUS
<1> HIDE DEF p, q
<1>2. b * q \in Int /\ b * p \in Int
  BY <1>1
<1>3. ROUND_DOWN(v, b) = b * q
  BY <1>1, <1>2 DEF ROUND_DOWN
<1>4. ROUND_DOWN(u, b) = b * p
  <2> DEFINE r == u % b
             y == b * p
  <2>1. u = y + r /\ u \in Int /\ r \in Int /\ y \in Int  BY <1>1, <1>2
  <2>2. ROUND_DOWN(u, b) = u - r  BY DEF ROUND_DOWN
  <2> HIDE DEF r, y
  <2>3. u - r = y  BY <2>1
  <2> QED BY <2>2, <2>3 DEF y
<1>5. CASE p >= q + 1
  <2>1. b * p >= b * (q + 1)  BY <1>1, <1>5
  <2>2. b * (q + 1) = b * q + b  BY <1>1
  <2> QED BY <2>1, <2>2, <1>1, <1>2, <1>3
<1>6. CASE p <= q - 1
  <2>1. b * p <= b * (q - 1)  BY <1>1, <1>6
  <2>2. b * (q - 1) = b * q - b  BY <1>1
  <2> QED BY <2>1, <2>2, <1>1, <1>2, <1>3
<1>7. CASE p = q  BY <1>7, <1>3, <1>4
<1> QED BY <1>1, <1>5, <1>6, <1>7
-----------------------------------------------------------------------------
\* A multiple of the block size is not inside a block.
LEMMA Multiple ==
    ASSUME NEW v \in Nat, NEW b \in Nat \ {0}, NEW m \in Nat, m % b = 0
    PROVE  /\ m <= v => m <= ROUND_DOWN(v, b)
           /\ v < m => ROUND_DOWN(v, b) + b <= m
<1> DEFINE q == v \div b
           k == m \div b
           r == v % b
<1>1. /\ v = b * q + r /\ q \in Int /\ r \in 0 .. b - 1
      /\ m = b * k /\ k \in Int
  OBVIOUS
<1>2. ROUND_DOWN(v, b) = v - r
  BY DEF ROUND_DOWN
<1> HIDE DEF q, k, r
<1>3. b * q \in Int /\ b * k \in Int
  BY <1>1
<1>4. v - r = b * q
  BY <1>1, <1>3
<1>5. CASE k >= q + 1
  <2>1. b * k >= b * (q + 1)  BY <1>1, <1>5
  <2>2. b * (q + 1) = b * q + b  BY <1>1
  <2> QED BY <2>1, <2>2, <1>1, <1>2, <1>3, <1>4
<1>6. CASE k <= q
  <2>1. b * k <= b * q  BY <1>1, <1>6
  <2> QED BY <2>1, <1>1, <1>2, <1>3, <1>4
<1> QED
  BY <1>1, <1>5, <1>6

\* At most one entry of the table is the last that starts below an address.
LEMMA RunSize ==
    ASSUME NEW a \in Nat, NEW i \in DOMAIN Sectors, IsLastRun(i, a)
    PROVE  flash_erase_sector_size(a) = Sectors[i].size
<1>1. /\ DOMAIN Sectors = 1 .. Len(Sectors) /\ Len(Sectors) \in Nat
      /\ \A j \in DOMAIN Sectors : Sectors[j] \in Sector
  BY LayoutAssumption
<1>2. \A j \in DOMAIN Sectors : Sectors[j].start \in Nat
  BY <1>1 DEF Sector
<1>3. ASSUME NEW j \in DOMAIN Sectors, IsLastRun(j, a) PROVE j = i
  <2>1. ~(j > i) /\ ~(i > j)
    BY <1>2, <1>3 DEF IsLastRun
  <2> QED BY <1>1, <2>1
<1>4. (CHOOSE j \in DOMAIN Sectors : IsLastRun(j, a)) = i
  BY <1>3
<1>5. \E j \in DOMAIN Sectors : a >= Sectors[j].start
  BY DEF IsLastRun
<1> QED
  BY <1>4, <1>5 DEF flash_erase_sector_size

LEMMA SectorRun ==
    ASSUME NEW a \in Nat, flash_erase_sector_size(a) # 0
    PROVE  \E i \in DOMAIN Sectors : IsLastRun(i, a)
<1> DEFINE S == {i \in DOMAIN Sectors : a >= Sectors[i].start}
<1>1. /\ DOMAIN Sectors = 1 .. Len(Sectors) /\ Len(Sectors) \in Nat
      /\ \A j \in DOMAIN Sectors : Sectors[j] \in Sector
  BY LayoutAssumption
<1>2. \A j \in DOMAIN Sectors : Sectors[j].start \in Nat
  BY <1>1 DEF Sector
<1>3. S # {} /\ S \in SUBSET (1 .. Len(Sectors))
  BY <1>1 DEF flash_erase_sector_size
<1>4. PICK n \in S : \A m \in S : m <= n
  BY <1>1, <1>3, Greatest
<1>5. ASSUME NEW j \in DOMAIN Sectors, j > n PROVE a < Sectors[j].start
  <2>1. j \notin S  BY <1>1, <1>3, <1>4, <1>5
  <2> QED BY <2>1, <1>2
<1> QED
  BY <1>4, <1>5 DEF IsLastRun

\* With aligned sectors every address of a sector has the sector's size.
LEMMA SectorUniform ==
    ASSUME SectorsAligned, NEW a \in Nat, NEW x \in Nat, flash_erase_sector_size(a) # 0,
           ROUND_DOWN(a, flash_erase_sector_size(a)) <= x,
           x < ROUND_DOWN(a, flash_erase_sector_size(a)) + flash_erase_sector_size(a)
    PROVE  flash_erase_sector_size(x) = flash_erase_sector_size(a)
<1>1. PICK i \in DOMAIN Sectors : IsLastRun(i, a)
  BY SectorRun
<1> DEFINE b == Sectors[i].size
<1>2. flash_erase_sector_size(a) = b
  BY <1>1, RunSize
<1>3. /\ DOMAIN Sectors = 1 .. Len(Sectors) /\ Len(Sectors) \in Nat
      /\ \A j \in DOMAIN Sectors : Sectors[j] \in Sector
  BY LayoutAssumption
<1>4. \A j \in DOMAIN Sectors : Sectors[j].start \in Nat /\ Sectors[j].size \in Nat
  BY <1>3 DEF Sector
<1>5. b \in Nat \ {0}
  BY <1>2, <1>4
<1>6. \A j \in DOMAIN Sectors : i <= j => Sectors[j].start % b = 0
  BY DEF SectorsAligned
<1>7. ROUND_DOWN(a, b) \in Nat
  BY <1>5, RoundDown
<1> HIDE DEF b
<1>8. x >= Sectors[i].start
  <2>1. Sectors[i].start <= a /\ Sectors[i].start % b = 0
    BY <1>1, <1>3, <1>4, <1>6 DEF IsLastRun
  <2>2. Sectors[i].start <= ROUND_DOWN(a, b)
    BY <2>1, <1>4, <1>5, Multiple
  <2> QED BY <2>2, <1>2, <1>4, <1>7
<1>9. ASSUME NEW j \in DOMAIN Sectors, j > i PROVE x < Sectors[j].start
  <2>1. a < Sectors[j].start
    BY <1>1, <1>9 DEF IsLastRun
  <2>2. Sectors[j].start % b = 0
    BY <1>3, <1>6, <1>9
  <2>3. ROUND_DOWN(a, b) + b <= Sectors[j].start
    BY <2>1, <2>2, <1>4, <1>5, Multiple
  <2> QED BY <2>3, <1>2, <1>4, <1>5, <1>7
<1>10. IsLastRun(i, x)
  BY <1>8, <1>9 DEF IsLastRun
<1> QED
  BY <1>2, <1>10, RunSize DEF b
-----------------------------------------------------------------------------
\* A sector starts at or below its addresses.
LEMMA BaseBelow ==
    ASSUME NEW a \in Nat
    PROVE  Base(a) \in Nat /\ Base(a) <= a
BY SectorSizeType, RoundDown DEF Base

\* The addresses between the start of a sector and one of its addresses are in it.
LEMMA BaseBetween ==
    ASSUME SectorsAligned, NEW a \in Nat, NEW b \in Nat, Base(a) <= b, b <= a
    PROVE  Base(b) = Base(a)
<1> DEFINE s == flash_erase_sector_size(a)
<1>1. s \in Nat
  BY SectorSizeType
<1>2. CASE s = 0
  <2>1. b = a
    BY <1>2 DEF Base
  <2> QED BY <2>1
<1>3. CASE s # 0
  <2>1. Base(a) = ROUND_DOWN(a, s)
    BY <1>3 DEF Base
  <2>2. ROUND_DOWN(a, s) <= b /\ b < ROUND_DOWN(a, s) + s
    BY <1>1, <1>3, <2>1, RoundDown
  <2>3. flash_erase_sector_size(b) = s
    BY <1>3, <2>2, SectorUniform
  <2>4. ROUND_DOWN(b, s) = ROUND_DOWN(a, s)
    BY <1>1, <1>3, <2>2, RoundDownBlock
  <2> QED BY <1>3, <2>1, <2>3, <2>4 DEF Base
<1> QED
  BY <1>2, <1>3

LEMMA ImageType ==
    ASSUME NEW image \in [Addr -> Byte \cup {Unset}], NEW open, NEW p \in Nat, NEW d \in Seq(Byte)
    PROVE  ImageAfter(image, open, p, d) \in [Addr -> Byte \cup {Unset}]
<1>1. ASSUME NEW a \in Addr, a \in Covered(p, d) PROVE d[a - p + 1] \in Byte
  <2>1. Len(d) \in Nat /\ a \in p .. p + Len(d) - 1 /\ a \in Nat
    BY <1>1 DEF Covered
  <2>2. a - p + 1 \in 1 .. Len(d)
    BY <2>1
  <2> QED BY <2>2
<1>2. FF \in Byte
  BY LayoutAssumption
<1> QED
  BY <1>1, <1>2 DEF ImageAfter

(***************************************************************************)
(* Where data are cut into packets makes no difference: two packets, the   *)
(* second where the first one ends, make the image of one.                 *)
(***************************************************************************)
LEMMA CutOpen ==
    ASSUME NEW open, NEW p \in Nat, NEW x \in Seq(Byte), NEW y \in Seq(Byte)
    PROVE  OpenAfter(OpenAfter(open, p, x), p + Len(x), y) = OpenAfter(open, p, x \o y)
<1> DEFINE e == p + Len(x)
<1>1. /\ Len(x) \in Nat /\ Len(y) \in Nat /\ e \in Nat
      /\ Len(x \o y) = Len(x) + Len(y) /\ p + Len(x \o y) = e + Len(y)
  OBVIOUS
<1>2. Base(p) \in Nat /\ Base(e) \in Nat
  BY <1>1, BaseBelow
<1> HIDE DEF e
<1>3. Base(p) # NoSector /\ Base(e) # NoSector
  BY <1>2 DEF NoSector
<1>4. CASE x = << >>
  <2>1. x \o y = y /\ e = p
    BY <1>1, <1>4 DEF e
  <2>2. CASE y = << >>
    BY <1>3, <1>4, <2>1, <2>2 DEF OpenAfter, e
  <2>3. CASE y # << >>
    BY <1>4, <2>1, <2>3 DEF OpenAfter, e
  <2> QED BY <2>2, <2>3
<1>5. CASE x # << >>
  <2>1. x \o y # << >>
    BY <1>1, <1>5
  <2>2. CASE y = << >>
    <3>1. x \o y = x
      BY <2>2
    <3> QED BY <1>3, <1>5, <2>2, <3>1 DEF OpenAfter, e
  <2>3. CASE y # << >>
    <3>1. e + Len(y) = p + Len(x \o y)
      BY <1>1
    <3> QED BY <2>1, <2>3, <3>1 DEF OpenAfter, e
  <2> QED BY <2>2, <2>3
<1> QED
  BY <1>4, <1>5

\* The sectors that start blank, as a condition on the one that is still open.
LEMMA FreshSector ==
    ASSUME NEW open, NEW p \in Nat, NEW z \in Seq(Byte), z # << >>, NEW s
    PROVE  s \in Fresh(open, p, z) <=> s \in SectorsOf(p, z) /\ ~(Base(p) = open /\ s = open)
BY DEF Fresh

\* A packet without data leaves the open sector open if it is in it.
LEMMA OpenAfterNothing ==
    ASSUME NEW open, NEW p, NEW x, x = << >>
    PROVE  OpenAfter(open, p, x) = IF Base(p) = open THEN open ELSE NoSector
BY Zenon DEF OpenAfter

\* Where data are cut makes no difference to a cell of the image.
LEMMA CutImage ==
    ASSUME SectorsAligned, NEW image, NEW open, NEW p \in Nat,
           NEW x \in Seq(Byte), NEW y \in Seq(Byte), NEW a \in Addr
    PROVE  ImageAfter(ImageAfter(image, open, p, x), OpenAfter(open, p, x), p + Len(x), y)[a]
           = ImageAfter(image, open, p, x \o y)[a]
<1> DEFINE e == p + Len(x)
           half == ImageAfter(image, open, p, x)
           now == OpenAfter(open, p, x)
<1>1. /\ Len(x) \in Nat /\ Len(y) \in Nat /\ e \in Nat
      /\ x \o y \in Seq(Byte) /\ Len(x \o y) = Len(x) + Len(y) /\ p + Len(x \o y) = e + Len(y)
  OBVIOUS
<1>2. a \in Nat
  BY LayoutAssumption DEF Addr
<1>3. half[a] = IF a \in Covered(p, x) THEN x[a - p + 1]
                ELSE IF Base(a) \in Fresh(open, p, x) THEN FF ELSE image[a]
  BY DEF ImageAfter
<1>4. ImageAfter(half, now, e, y)[a] =
        IF a \in Covered(e, y) THEN y[a - e + 1]
        ELSE IF Base(a) \in Fresh(now, e, y) THEN FF ELSE half[a]
  BY DEF ImageAfter
<1>5. ImageAfter(image, open, p, x \o y)[a] =
        IF a \in Covered(p, x \o y) THEN (x \o y)[a - p + 1]
        ELSE IF Base(a) \in Fresh(open, p, x \o y) THEN FF ELSE image[a]
  BY DEF ImageAfter
<1> HIDE DEF half
<1>6. CASE y = << >>
  <2>1. x \o y = x
    BY <1>6
  <2>2. a \notin Covered(e, y) /\ Fresh(now, e, y) = {}
    BY <1>1, <1>6 DEF Covered, Fresh
  <2>3. ImageAfter(half, now, e, y)[a] = half[a]
    BY <1>4, <2>2
  <2> QED BY <1>3, <1>5, <2>1, <2>3 DEF half
<1>7. CASE x = << >> /\ y # << >>
  <2>1. x \o y = y /\ e = p
    BY <1>7
  <2>2. a \notin Covered(p, x) /\ Fresh(open, p, x) = {}
    BY <1>7 DEF Covered, Fresh
  <2>3. half[a] = image[a]
    BY <1>3, <2>2
  <2>4. Base(p) \in Nat
    BY BaseBelow
  <2>5. now = IF Base(p) = open THEN open ELSE NoSector
    <3>1. OpenAfter(open, p, x) = IF Base(p) = open THEN open ELSE NoSector
      BY <1>7, OpenAfterNothing
    <3> QED BY <3>1 DEF now
  <2> HIDE DEF now, e
  <2>6. Fresh(now, e, y) = Fresh(open, p, y)
    <3>1. CASE Base(p) = open
      <4>1. now = open
        BY <2>5, <3>1
      <4> QED BY <2>1, <4>1, Zenon
    <3>2. CASE Base(p) # open
      <4>1. Base(p) # now
        BY <2>4, <2>5, <3>2 DEF NoSector
      <4>2. Fresh(now, p, y) = SectorsOf(p, y) /\ Fresh(open, p, y) = SectorsOf(p, y)
        BY <1>7, <3>2, <4>1, Zenon DEF Fresh
      <4> QED BY <2>1, <4>2, Zenon
    <3> QED BY <3>1, <3>2
  <2> QED BY <1>4, <1>5, <2>1, <2>3, <2>6 DEF half, now, e
<1>8. CASE x # << >> /\ y # << >>
  <2>1. Len(x) > 0 /\ Len(y) > 0 /\ x \o y # << >> /\ p < e
    BY <1>1, <1>8
  <2>2. now = IF Base(e) = e THEN NoSector ELSE Base(e)
    BY <1>8 DEF OpenAfter
  <2> HIDE DEF now, e
  <2>3. SectorsOf(p, x \o y) = SectorsOf(p, x) \cup SectorsOf(e, y)
    <3>1. /\ p .. e + Len(y) - 1 = (p .. e - 1) \cup (e .. e + Len(y) - 1)
          /\ p \in p .. e - 1 /\ e \in e .. e + Len(y) - 1
      BY <1>1, <2>1
    <3>2. /\ Covered(p, x \o y) = p .. e + Len(y) - 1
          /\ Covered(p, x) = p .. e - 1 /\ Covered(e, y) = e .. e + Len(y) - 1
      BY <1>1 DEF Covered, e
    <3> QED BY <3>1, <3>2 DEF SectorsOf
  <2>4. Base(a) \in Nat /\ Base(a) <= a /\ Base(p) <= p /\ Base(p) \in Nat /\ Base(e) \in Nat
    BY <1>1, <1>2, BaseBelow
  <2>5. Base(a) \in Fresh(now, e, y)
        <=> Base(a) \in SectorsOf(e, y) /\ ~(Base(e) # e /\ Base(a) = Base(e))
    BY <1>1, <1>8, <2>2, <2>4, FreshSector DEF NoSector
  <2>6. Base(a) \in Fresh(open, p, x)
        <=> Base(a) \in SectorsOf(p, x) /\ ~(Base(p) = open /\ Base(a) = open)
    BY <1>8, FreshSector
  <2>7. Base(a) \in Fresh(open, p, x \o y)
        <=> Base(a) \in SectorsOf(p, x \o y) /\ ~(Base(p) = open /\ Base(a) = open)
    BY <1>1, <2>1, FreshSector
  <2>8. Base(e) # e => Base(e) \in SectorsOf(p, x)
    <3> HAVE Base(e) # e
    <3>1. Base(e) <= e - 1 /\ e - 1 \in Nat
      BY <1>1, <2>1, BaseBelow
    <3>2. Base(e - 1) = Base(e)
      BY <1>1, <3>1, BaseBetween
    <3>3. e - 1 \in Covered(p, x)
      BY <1>1, <2>1 DEF Covered, e
    <3> QED BY <3>2, <3>3 DEF SectorsOf
  \* A sector of the second part that begins before it is the one left open.
  <2>9. ASSUME Base(a) \in SectorsOf(e, y), Base(a) < e
        PROVE  Base(e) # e /\ Base(a) = Base(e)
    <3>1. PICK b \in Covered(e, y) \cup {e} : Base(b) = Base(a)
      BY <2>9 DEF SectorsOf
    <3>2. b \in Nat /\ e <= b
      BY <1>1, <3>1 DEF Covered
    <3>3. Base(e) = Base(b)
      BY <1>1, <2>4, <2>9, <3>1, <3>2, BaseBetween
    <3> QED BY <2>4, <2>9, <3>1, <3>3, <1>1
  <2>10. CASE a \in Covered(e, y)
    <3>1. e <= a /\ a < e + Len(y)
      BY <1>1, <1>2, <2>10 DEF Covered
    <3>2. a \in Covered(p, x \o y)
      BY <1>1, <1>2, <2>1, <3>1 DEF Covered
    <3>3. (x \o y)[a - p + 1] = y[a - e + 1]
      <4>1. \A i \in Len(x) + 1 .. Len(x) + Len(y) : (x \o y)[i] = y[i - Len(x)]
        BY <1>1
      <4>2. PICK k : k = a - p + 1
        OBVIOUS
      <4>3. k \in Len(x) + 1 .. Len(x) + Len(y) /\ k - Len(x) = a - e + 1
        BY <1>1, <1>2, <3>1, <4>2 DEF e
      <4>4. (x \o y)[k] = y[k - Len(x)]
        BY <4>1, <4>3
      <4> QED BY <4>2, <4>3, <4>4
    <3> QED BY <1>4, <1>5, <2>10, <3>2, <3>3 DEF half, now, e
  <2>11. CASE a \in Covered(p, x)
    <3>1. p <= a /\ a < e
      BY <1>1, <1>2, <2>11 DEF Covered, e
    <3>2. a \notin Covered(e, y) /\ a \in Covered(p, x \o y)
      BY <1>1, <1>2, <2>1, <3>1 DEF Covered
    <3>3. Base(a) \notin Fresh(now, e, y)
      BY <1>1, <1>2, <2>4, <2>5, <2>9, <3>1
    <3>4. (x \o y)[a - p + 1] = x[a - p + 1]
      <4>1. a - p + 1 \in 1 .. Len(x)
        BY <1>1, <1>2, <3>1 DEF e
      <4> QED BY <4>1, <1>1
    <3> QED BY <1>3, <1>4, <1>5, <2>11, <3>2, <3>3, <3>4 DEF half, now, e
  <2>12. CASE a \notin Covered(p, x) /\ a \notin Covered(e, y)
    <3>1. a \notin Covered(p, x \o y)
      BY <1>1, <1>2, <2>12 DEF Covered, e
    <3>2. Base(a) \in Fresh(open, p, x \o y)
          <=> Base(a) \in Fresh(open, p, x) \/ Base(a) \in Fresh(now, e, y)
      <4>1. ASSUME Base(a) \in SectorsOf(e, y), Base(p) = open, Base(a) = open
            PROVE  Base(e) # e /\ Base(a) = Base(e)
        <5>1. Base(a) < e
          BY <1>1, <2>1, <2>4, <4>1
        <5> QED BY <2>9, <4>1, <5>1
      <4>2. Base(e) # e /\ Base(a) = Base(e) => Base(a) \in SectorsOf(p, x)
        BY <2>8
      <4> QED BY <2>3, <2>5, <2>6, <2>7, <4>1, <4>2
    <3> QED BY <1>3, <1>4, <1>5, <2>12, <3>1, <3>2 DEF half, now, e
  <2> QED BY <2>10, <2>11, <2>12
<1> QED
  BY <1>6, <1>7, <1>8

\* Nor to the image.
LEMMA PacketCut ==
    ASSUME SectorsAligned, NEW image, NEW open, NEW p \in Nat,
           NEW x \in Seq(Byte), NEW y \in Seq(Byte)
    PROVE  ImageAfter(ImageAfter(image, open, p, x), OpenAfter(open, p, x), p + Len(x), y)
           = ImageAfter(image, open, p, x \o y)
<1> DEFINE f == ImageAfter(ImageAfter(image, open, p, x), OpenAfter(open, p, x), p + Len(x), y)
           g == ImageAfter(image, open, p, x \o y)
<1>1. f = [a \in Addr |-> f[a]] /\ g = [a \in Addr |-> g[a]]
  BY DEF ImageAfter
<1>2. \A a \in Addr : f[a] = g[a]
  BY CutImage
<1> HIDE DEF f, g
<1>3. f = g
  BY <1>1, <1>2, Zenon
<1> QED
  BY <1>3 DEF f, g

\* A packet without data changes no cell of an image.
LEMMA ImageAfterNothing ==
    ASSUME NEW T, NEW old \in [Addr -> T], NEW p \in Nat
    PROVE  /\ ImageAfter(old, NoSector, p, << >>) = old
           /\ OpenAfter(NoSector, p, << >>) = NoSector
<1>1. Covered(p, << >>) = {}
  BY DEF Covered
<1>2. Fresh(NoSector, p, << >>) = {}
  BY DEF Fresh
<1>3. ImageAfter(old, NoSector, p, << >>) = old
  BY <1>1, <1>2 DEF ImageAfter
<1>4. OpenAfter(NoSector, p, << >>) = NoSector
  BY OpenAfterNothing
<1> QED
  BY <1>3, <1>4
=============================================================================

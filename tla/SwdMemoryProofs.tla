-------------------------- MODULE SwdMemoryProofs --------------------------
(***************************************************************************)
(* What holds of memory access over SWD for every size of a word and of a  *)
(* page, every memory and every call: what was read or written is what the *)
(* call was asked for.                                                     *)
(*                                                                         *)
(* MemoryIInv says, for every transfer of a piece (a byte or a block),     *)
(* what the ports hold when it is next.  While no call has failed the      *)
(* caches tell the truth of a target that is not in error; a target that   *)
(* is in error takes no transfer of a piece, so that the piece cannot end. *)
(***************************************************************************)
EXTENDS SwdMemory, SequenceTheorems, TLAPS

-----------------------------------------------------------------------------
Ports == [select : {"zero", "other"}, csw : {"byte", "word"}, tar : Addrs, posted : Word,
          sticky : BOOLEAN]
Beliefs == [select : {"zero", "fake"}, csw : {"byte", "word", "fake"}]

Values ==
  {"none", "zero", "byte", "word", "clear", "power", "normal"} \union Addrs \union [Lanes -> Byte]

\* The transfers of a call.
Transfer ==
  {r \in [reg : {"SELECT", "CSW", "TAR", "DRW", "RDBUFF", "IDCODE", "ABORT", "CTRL", "STAT"},
          write : BOOLEAN, value : Values, keep : {"none", "byte", "word", "null"}] :
     /\ r.reg \in {"SELECT", "CSW", "TAR", "ABORT", "CTRL"} => r.write
     /\ r.reg \in {"RDBUFF", "IDCODE", "STAT"} => ~r.write
     /\ r.reg = "SELECT" => r.value = "zero"
     /\ r.reg = "CSW" => r.value \in {"byte", "word"}
     /\ r.reg = "TAR" => r.value \in Addrs
     /\ r.reg = "DRW" /\ r.write /\ r.keep # "null" => r.value \in [Lanes -> Byte]
     /\ r.keep \in {"byte", "word"} => ~r.write}

\* The head of todo is a transfer of this kind that was tried before.
Trying(reg) == todo # <<>> /\ tries > 0 /\ Head(todo).reg = reg

\* The caches are right while no call has failed, unless the target is in error
\* or the transfer that makes them so is under way.
CacheOK ==
  trusted /\ ~target.sticky =>
    /\ cache.select = "zero" /\ ~Trying("SELECT") => target.select = "zero"
    /\ cache.csw # "fake" /\ ~Trying("CSW") => target.csw = cache.csw

IsReading(c) == c.op \in {"read", "read_word"}
IsWriting(c) == c.op \in {"write", "write_word"}

\* The bytes of one access.
Unit(size) == IF size = "byte" THEN 1 ELSE WordSize

\* The p-th transfer of a piece of w accesses from address a, for call c.
IsNth(c, r, p, a, w, size) ==
  CASE p = 1     -> r = Request("SELECT", "zero")
    [] p = 2     -> r = Request("CSW", size)
    [] p = 3     -> r = RdBuff
    [] p = 4     -> r = Request("TAR", a)
    [] p = w + 5 -> IF IsReading(c) THEN r = Fetch("RDBUFF", size) ELSE r \in {RdBuff, NullWrite}
    [] OTHER     ->
         IF IsWriting(c)
           THEN r = Request("DRW", Laned(c.data, c.addr, a + ((p - 5) * Unit(size)), Unit(size)))
           ELSE r = Fetch("DRW", IF p = 5 THEN "none" ELSE "word")

\* What is left after p of them.
AreLeft(c, s, p, a, w, size) ==
  \A i \in 1 .. Len(s) : IsNth(c, s[i], p + i, a, w, size)

\* The piece from a to x is one byte, or words inside a page.
IsPiece(c, x, a, w, size) ==
  /\ a \in Addrs /\ w \in Nat \ {0} /\ size \in {"byte", "word"}
  /\ size = "byte" => w = 1
  /\ size = "word" => a % WordSize = 0
  /\ (a % Page) + (w * Unit(size)) <= Page
  /\ c.addr <= a /\ x = a + (w * Unit(size)) /\ x <= c.addr + c.size

\* The bytes g are those of the memory m, from where the call reads.
SameAs(c, m, g) == \A i \in 1 .. Len(g) : g[i] = m[c.addr + (i - 1)]

\* The bytes of the call below x are in the memory m.
PutTo(c, m, x) == \A b \in c.addr .. x - 1 : m[b] = c.data[(b - c.addr) + 1]

\* What the user has by now: the bytes up to x read, or written.
ReadTo(x) ==
  Reading => call.addr + Len(got) = x /\ (trusted /\ ~repeated => SameAs(call, mem, got))
WrittenTo(x) == trusted /\ Writing => PutTo(call, mem, x)

\* How many bytes of a piece are kept, and how many accesses are done, after p
\* transfers.
KeptAfter(p, size) == IF p <= 5 THEN 0 ELSE (p - 5) * Unit(size)
DoneAfter(p, w) == IF p <= 4 THEN 0 ELSE IF p <= w + 4 THEN p - 4 ELSE w

\* The bytes of the access at b as they are on the lanes of a word v.
OnLanes(m, v, b, size) == \A i \in 0 .. Unit(size) - 1 : v[(b + i) % WordSize] = m[b + i]

\* The ports t after p transfers of a piece.
PortsAt(c, m, t, p, a, w, size) ==
  /\ p >= 4 /\ DoneAfter(p, w) < w => t.tar = a + (DoneAfter(p, w) * Unit(size))
  /\ IsReading(c) /\ p >= 5 /\ p <= w + 4 =>
       OnLanes(m, t.posted, a + ((p - 5) * Unit(size)), size)

\* The ports are where the host thinks.
InStep == trusted /\ ~target.sticky /\ (Writing \/ ~repeated)

\* After p transfers of a piece.
InPiece(p, a, w, size) ==
  /\ IsPiece(call, next, a, w, size)
  /\ AreLeft(call, todo, p, a, w, size)
  /\ p >= 1 => cache.select = "zero"
  /\ p >= 2 => cache.csw = size
  /\ ReadTo(a + KeptAfter(p, size))
  /\ WrittenTo(a)
  /\ ~target.sticky => WrittenTo(a + (DoneAfter(p, w) * Unit(size)))
  /\ InStep => PortsAt(call, mem, target, p, a, w, size)

\* Between two pieces.
Between == todo = <<>> /\ tries = 0 /\ ReadTo(next) /\ WrittenTo(next)

\* init_debug: ABORT comes before the caches have anything.
InConnect ==
  /\ Len(todo) <= 7 /\ \A i \in 1 .. Len(todo) : todo[i] = ConnectPlan[(7 - Len(todo)) + i]
  /\ Len(todo) >= 6 => cache = Unset
  /\ cache.csw = "fake"

Connecting == call.op = "connect"
\* A word is one piece.
OneWord == call.op \in {"read_word", "write_word"} => next \in {call.addr, call.addr + call.size}

\* Some piece is under way.
SomePiece ==
  \E p \in 0 .. Page + 4, a \in Addrs, w \in 1 .. Page, size \in {"byte", "word"} :
    Len(todo) + p = w + 5 /\ InPiece(p, a, w, size)

MemoryIInv ==
  /\ SwdTypeOK /\ todo \in Seq(Transfer)
  /\ CacheOK /\ OneWord
  /\ ~InCall => todo = <<>>
  /\ todo = <<>> => tries = 0
  /\ InCall => call # Never
  /\ InCall /\ Connecting => InConnect
  /\ InCall /\ ~Connecting => IF todo = <<>> THEN Between ELSE SomePiece
  /\ status = "true" => Connecting \/ (Between /\ next = call.addr + call.size)

-----------------------------------------------------------------------------
(***************************************************************************)
(* Remainders.                                                             *)
(***************************************************************************)

\* Quotient and remainder.
LEMMA Divides ==
    ASSUME NEW x \in Nat, NEW d \in Nat \ {0}
    PROVE  /\ x \div d \in Nat /\ x % d \in 0 .. d - 1
           /\ x = d * (x \div d) + (x % d)
<1>1. x % d \in 0 .. d - 1 /\ x = d * (x \div d) + (x % d) /\ x \div d \in Int
  OBVIOUS
<1>2. x \div d >= 0
  OBVIOUS
<1>3. x \div d \in Nat
  <2> DEFINE q == x \div d
  <2>1. q \in Int /\ q >= 0
    BY <1>1, <1>2
  <2> HIDE DEF q
  <2>2. q \in Nat
    BY <2>1
  <2> QED
    BY <2>2 DEF q
<1> QED
  BY <1>1, <1>3, Zenon

\* There is one of each.
LEMMA OneRemainder ==
    ASSUME NEW x \in Nat, NEW d \in Nat \ {0}, NEW q \in Int, NEW r \in 0 .. d - 1, x = d * q + r
    PROVE  x % d = r
<1> DEFINE p == x \div d
           s == x % d
<1>1. p \in Nat /\ s \in 0 .. d - 1 /\ x = d * p + s
  BY Divides
<1> HIDE DEF p, s
<1>2. d * q \in Int /\ d * p \in Int
  BY <1>1
<1>3. CASE p >= q + 1
  <2>1. d * p >= d * (q + 1) /\ d * (q + 1) = d * q + d
    BY <1>1, <1>3
  <2> QED
    BY <1>1, <1>2, <2>1
<1>4. CASE p <= q - 1
  <2>1. d * p <= d * (q - 1) /\ d * (q - 1) = d * q - d
    BY <1>1, <1>4
  <2> QED
    BY <1>1, <1>2, <2>1
<1>5. CASE p = q
  <2>1. s = r
    BY <1>1, <1>2, <1>5
  <2> QED
    BY <2>1 DEF s
<1> QED
  BY <1>1, <1>3, <1>4, <1>5

\* A step that stays below the next multiple.
LEMMA StepInside ==
    ASSUME NEW x \in Nat, NEW d \in Nat \ {0}, NEW k \in Nat, (x % d) + k < d
    PROVE  (x + k) % d = (x % d) + k
<1> DEFINE q == x \div d
           r == x % d
<1>1. q \in Nat /\ r \in 0 .. d - 1 /\ x = d * q + r
  BY Divides
<1>2. r + k < d
  OBVIOUS
<1> HIDE DEF q, r
<1>3. d * q \in Nat
  BY <1>1
<1>4. x + k = d * q + (r + k) /\ r + k \in 0 .. d - 1 /\ x + k \in Nat
  BY <1>1, <1>2, <1>3
<1>5. (x + k) % d = r + k
  BY <1>1, <1>4, OneRemainder
<1> QED
  BY <1>5 DEF r

\* What is below is a multiple.
LEMMA BelowIs ==
    ASSUME NEW x \in Nat, NEW d \in Nat \ {0}
    PROVE  x - (x % d) \in Nat /\ (x - (x % d)) % d = 0
<1> DEFINE q == x \div d
           r == x % d
<1>1. q \in Nat /\ r \in 0 .. d - 1 /\ x = d * q + r
  BY Divides
<1> HIDE DEF q, r
<1>2. d * q \in Nat
  BY <1>1
<1>3. x - r = d * q + 0 /\ x - r \in Nat
  BY <1>1, <1>2
<1>4. (x - r) % d = 0
  BY <1>1, <1>3, OneRemainder
<1> QED
  BY <1>3, <1>4 DEF r

\* Sums and differences of multiples.
LEMMA Multiples ==
    ASSUME NEW d \in Nat \ {0}, NEW x \in Nat, NEW y \in Nat, x % d = 0, y % d = 0
    PROVE  (x + y) % d = 0 /\ (y <= x => (x - y) % d = 0)
           /\ (x < y => x + d <= y)
<1> DEFINE p == x \div d
           q == y \div d
<1>1. /\ p \in Nat /\ q \in Nat /\ x = d * p /\ y = d * q
  BY Divides
<1> HIDE DEF p, q
<1>2. /\ d * p \in Nat /\ d * q \in Nat
      /\ d * (p + q) = d * p + d * q
      /\ d * (p - q) = d * p - d * q
  <2>1. \A i, j, k \in Int : i * (j + k) = i * j + i * k /\ i * (j - k) = i * j - i * k
    OBVIOUS
  <2>2. d * p \in Nat /\ d * q \in Nat
    BY <1>1
  <2> QED
    BY <1>1, <2>1, <2>2
<1>3. x + y = d * (p + q) + 0 /\ x - y = d * (p - q) + 0 /\ p + q \in Int /\ p - q \in Int
  BY <1>1, <1>2
<1>4. (x + y) % d = 0
  BY <1>3, OneRemainder
<1>5. ASSUME y <= x PROVE (x - y) % d = 0
  <2>1. x - y \in Nat
    BY <1>5
  <2> QED
    BY <1>3, <2>1, OneRemainder
<1>6. ASSUME x < y PROVE x + d <= y
  <2>1. p < q
    <3> SUFFICES ASSUME p >= q PROVE FALSE
      BY <1>1
    <3>1. d * p >= d * q
      BY <1>1
    <3> QED
      BY <1>1, <1>6, <3>1
  <2>2. d * q >= d * (p + 1) /\ d * (p + 1) = d * p + d
    BY <1>1, <2>1
  <2> QED
    BY <1>1, <1>2, <2>2
<1> QED
  BY <1>4, <1>5, <1>6

\* The remainder by a multiple has the same remainder.
LEMMA Remains ==
    ASSUME NEW d \in Nat \ {0}, NEW m \in Nat \ {0}, m % d = 0, NEW x \in Nat
    PROVE  (x % m) % d = x % d
<1> DEFINE c == m \div d
           q == x \div m
           r == x % m
           p == r \div d
           s == r % d
<1>1. c \in Nat /\ m = d * c
  <2>1. c \in Nat /\ m = d * c + (m % d)
    BY Divides
  <2> HIDE DEF c
  <2>2. d * c \in Nat
    BY <2>1
  <2> QED
    BY <2>1, <2>2
<1>2. q \in Nat /\ r \in 0 .. m - 1 /\ r \in Nat /\ x = m * q + r
  <2>1. q \in Nat /\ r \in 0 .. m - 1 /\ x = m * q + r
    BY Divides
  <2> HIDE DEF q, r
  <2> QED
    BY <2>1
<1>3. p \in Nat /\ s \in 0 .. d - 1 /\ r = d * p + s
  BY <1>2, Divides
<1> HIDE DEF c, q, r, p, s
<1>4. m * q = d * (c * q) /\ c * q \in Nat
  BY <1>1, <1>2
<1>5. d * (c * q + p) = d * (c * q) + d * p /\ d * p \in Nat /\ c * q + p \in Int
  BY <1>3, <1>4
<1>6. x = d * (c * q + p) + s
  BY <1>2, <1>3, <1>4, <1>5
<1>7. x % d = s
  BY <1>3, <1>5, <1>6, OneRemainder
<1> QED
  BY <1>7 DEF s, r
-----------------------------------------------------------------------------
(***************************************************************************)
(* The plans.                                                              *)
(***************************************************************************)

\* The assumption on the sizes.
LEMMA Sizes ==
    /\ WordSize \in Nat /\ WordSize >= 1 /\ Page \in Nat /\ Page >= 1 /\ Page % WordSize = 0
    /\ Addrs \subseteq Nat /\ 0 \in Addrs /\ 0 \in Byte
    /\ MaxRetry \in Nat /\ MaxRetry >= 1 /\ MaxPolls \in Nat /\ MaxPolls >= 1
  BY MemoryAssumption

\* What the transfers are.
LEMMA Requests ==
    /\ Request("SELECT", "zero") \in Transfer /\ RdBuff \in Transfer /\ NullWrite \in Transfer
    /\ \A size \in {"byte", "word"} : Request("CSW", size) \in Transfer
    /\ \A a \in Addrs : Request("TAR", a) \in Transfer
    /\ \A v \in [Lanes -> Byte] : Request("DRW", v) \in Transfer
    /\ \A keep \in {"none", "byte", "word"} :
         Fetch("DRW", keep) \in Transfer /\ Fetch("RDBUFF", keep) \in Transfer
    /\ \A reg \in {"IDCODE", "STAT"} : Fetch(reg, "none") \in Transfer
    /\ \A value \in {"power", "normal"} : Request("CTRL", value) \in Transfer
    /\ Request("ABORT", "clear") \in Transfer
<1>1. /\ {"none", "zero", "byte", "word", "clear", "power", "normal"} \subseteq Values
      /\ Addrs \subseteq Values /\ [Lanes -> Byte] \subseteq Values
  BY DEF Values
<1> HIDE DEF Values
<1>2. ASSUME NEW reg \in {"SELECT", "CSW", "TAR", "DRW", "ABORT", "CTRL"}, NEW value \in Values,
             reg = "SELECT" => value = "zero", reg = "CSW" => value \in {"byte", "word"},
             reg = "TAR" => value \in Addrs, reg = "DRW" => value \in [Lanes -> Byte]
      PROVE  Request(reg, value) \in Transfer
  BY <1>2 DEF Transfer, Request
<1>3. ASSUME NEW reg \in {"DRW", "RDBUFF", "IDCODE", "STAT"}, NEW keep \in {"none", "byte", "word"}
      PROVE  Fetch(reg, keep) \in Transfer
  BY <1>1 DEF Transfer, Fetch
<1>4. NullWrite \in Transfer
  BY <1>1 DEF Transfer, NullWrite
<1>5. Request("SELECT", "zero") \in Transfer /\ Request("ABORT", "clear") \in Transfer
      /\ \A value \in {"power", "normal"} : Request("CTRL", value) \in Transfer
      /\ \A size \in {"byte", "word"} : Request("CSW", size) \in Transfer
  BY <1>1, <1>2
<1>6. /\ \A a \in Addrs : Request("TAR", a) \in Transfer
      /\ \A v \in [Lanes -> Byte] : Request("DRW", v) \in Transfer
  BY <1>1, <1>2
<1> QED
  BY <1>3, <1>4, <1>5, <1>6 DEF RdBuff

\* r is s, of length k, and then t, of length l.
Joined(S, r, s, k, t, l) ==
    /\ r \in Seq(S) /\ Len(r) = k + l
    /\ \A i \in 1 .. k : r[i] = s[i]
    /\ \A i \in 1 .. l : r[k + i] = t[i]

\* What comes where when two sequences are joined.
LEMMA Catenated ==
    ASSUME NEW S, NEW s \in Seq(S), NEW t \in Seq(S), NEW k \in Nat, NEW l \in Nat,
           Len(s) = k, Len(t) = l
    PROVE  Joined(S, s \o t, s, k, t, l)
<1> DEFINE r == s \o t
<1>1. /\ r \in Seq(S) /\ Len(r) = Len(s) + Len(t)
      /\ \A i \in 1 .. Len(s) + Len(t) : r[i] = IF i <= Len(s) THEN s[i] ELSE t[i - Len(s)]
  BY ConcatProperties
<1> HIDE DEF r
<1>2. \A i \in 1 .. k : r[i] = s[i]
  BY <1>1
<1>3. ASSUME NEW i \in 1 .. l PROVE r[k + i] = t[i]
  <2>1. k + i \in 1 .. k + l /\ ~(k + i <= k) /\ (k + i) - k = i
    OBVIOUS
  <2> QED
    BY <1>1, <2>1
<1>4. Joined(S, r, s, k, t, l)
  BY <1>1, <1>2, <1>3 DEF Joined
<1> QED
  BY <1>4 DEF r

\* write_ap of CSW.
LEMMA SetCswIs ==
    ASSUME NEW size \in {"byte", "word"}
    PROVE  /\ SetCsw(size) \in Seq(Transfer) /\ Len(SetCsw(size)) = 3
           /\ SetCsw(size)[1] = Request("SELECT", "zero") /\ SetCsw(size)[2] = Request("CSW", size)
           /\ SetCsw(size)[3] = RdBuff
<1> DEFINE x == Request("SELECT", "zero")
           y == Request("CSW", size)
           z == RdBuff
<1>1. x \in Transfer /\ y \in Transfer /\ z \in Transfer
  BY Requests
<1>2. SetCsw(size) = <<x, y, z>>
  BY DEF SetCsw
<1> HIDE DEF x, y, z
<1>3. <<x, y, z>> \in Seq(Transfer) /\ Len(<<x, y, z>>) = 3
      /\ <<x, y, z>>[1] = x /\ <<x, y, z>>[2] = y /\ <<x, y, z>>[3] = z
  BY <1>1
<1> QED
  BY <1>2, <1>3 DEF x, y, z

\* A plan of six transfers: CSW, and three more.
LEMMA SixPlan ==
    ASSUME NEW size \in {"byte", "word"}, NEW x \in Transfer, NEW y \in Transfer, NEW z \in Transfer
    PROVE  LET all == SetCsw(size) \o <<x, y, z>> IN
           /\ all \in Seq(Transfer) /\ Len(all) = 6
           /\ all[1] = Request("SELECT", "zero") /\ all[2] = Request("CSW", size) /\ all[3] = RdBuff
           /\ all[4] = x /\ all[5] = y /\ all[6] = z
<1> DEFINE s == SetCsw(size)
           t == <<x, y, z>>
           all == s \o t
<1>1. s \in Seq(Transfer) /\ Len(s) = 3
  BY SetCswIs
<1>2. t \in Seq(Transfer) /\ Len(t) = 3 /\ t[1] = x /\ t[2] = y /\ t[3] = z
  OBVIOUS
<1> HIDE DEF s, t
<1>3. 3 \in Nat
  OBVIOUS
<1>4. Joined(Transfer, all, s, 3, t, 3)
  BY <1>1, <1>2, <1>3, Catenated
<1> HIDE DEF all
<1>5. /\ all \in Seq(Transfer) /\ Len(all) = 6
      /\ all[1] = s[1] /\ all[2] = s[2] /\ all[3] = s[3] /\ all[4] = t[1] /\ all[5] = t[2] /\ all[6] = t[3]
  BY <1>4 DEF Joined
<1>6. /\ s[1] = Request("SELECT", "zero") /\ s[2] = Request("CSW", size) /\ s[3] = RdBuff
  BY SetCswIs DEF s
<1>7. /\ all \in Seq(Transfer) /\ Len(all) = 6
      /\ all[1] = Request("SELECT", "zero") /\ all[2] = Request("CSW", size) /\ all[3] = RdBuff
      /\ all[4] = x /\ all[5] = y /\ all[6] = z
  BY <1>2, <1>5, <1>6
<1> QED
  BY <1>7 DEF all, s, t

\* The transfers that set CSW, then those of t and u, then z.
LongIs(all, size, t, k, u, l, z) ==
    /\ all \in Seq(Transfer) /\ Len(all) = k + l + 4
    /\ all[1] = Request("SELECT", "zero") /\ all[2] = Request("CSW", size) /\ all[3] = RdBuff
    /\ \A i \in 1 .. k : all[i + 3] = t[i]
    /\ \A i \in 1 .. l : all[i + k + 3] = u[i]
    /\ all[k + l + 4] = z

\* A plan with any number of transfers in the middle.
LEMMA LongPlan ==
    ASSUME NEW size \in {"byte", "word"}, NEW t \in Seq(Transfer), NEW k \in Nat, Len(t) = k,
           NEW u \in Seq(Transfer), NEW l \in Nat, Len(u) = l, NEW z \in Transfer
    PROVE  LongIs(SetCsw(size) \o t \o u \o <<z>>, size, t, k, u, l, z)
<1> DEFINE s == SetCsw(size)
           e == <<z>>
           st == s \o t
           stu == st \o u
           all == stu \o e
<1>1. s \in Seq(Transfer) /\ Len(s) = 3 /\ s[1] = Request("SELECT", "zero")
      /\ s[2] = Request("CSW", size) /\ s[3] = RdBuff
  BY SetCswIs
<1>2. e \in Seq(Transfer) /\ Len(e) = 1 /\ e[1] = z
  OBVIOUS
<1> HIDE DEF s, e
<1>3. 3 \in Nat /\ 1 \in Nat /\ 3 + k \in Nat /\ (3 + k) + l \in Nat
  OBVIOUS
<1>4. Joined(Transfer, st, s, 3, t, k)
  BY <1>1, <1>3, Catenated
<1> HIDE DEF st
<1>5. st \in Seq(Transfer) /\ Len(st) = 3 + k
  BY <1>4 DEF Joined
<1>6. Joined(Transfer, stu, st, 3 + k, u, l)
  BY <1>3, <1>5, Catenated
<1> HIDE DEF stu
<1>7. stu \in Seq(Transfer) /\ Len(stu) = (3 + k) + l
  BY <1>6 DEF Joined
<1>8. Joined(Transfer, all, stu, (3 + k) + l, e, 1)
  BY <1>2, <1>3, <1>7, Catenated
<1> HIDE DEF all
<1>9. all \in Seq(Transfer) /\ Len(all) = k + l + 4
  BY <1>8 DEF Joined
<1>10. \A i \in 1 .. 3 : all[i] = s[i]
  <2>1. \A i \in 1 .. 3 : i \in 1 .. 3 + k /\ i \in 1 .. (3 + k) + l
    OBVIOUS
  <2> QED
    BY <1>4, <1>6, <1>8, <2>1 DEF Joined
<1>11. ASSUME NEW i \in 1 .. k PROVE all[i + 3] = t[i]
  <2>1. 3 + i \in 1 .. 3 + k /\ 3 + i \in 1 .. (3 + k) + l /\ 3 + i = i + 3
    OBVIOUS
  <2> QED
    BY <1>4, <1>6, <1>8, <2>1 DEF Joined
<1>12. ASSUME NEW i \in 1 .. l PROVE all[i + k + 3] = u[i]
  <2>1. (3 + k) + i \in 1 .. (3 + k) + l /\ (3 + k) + i = i + k + 3
    OBVIOUS
  <2> QED
    BY <1>6, <1>8, <2>1 DEF Joined
<1>13. all[k + l + 4] = z
  <2>1. 1 \in 1 .. 1 /\ ((3 + k) + l) + 1 = k + l + 4
    OBVIOUS
  <2> QED
    BY <1>2, <1>8, <2>1 DEF Joined
<1>14. all[1] = s[1] /\ all[2] = s[2] /\ all[3] = s[3]
  BY <1>10
<1>15. LongIs(all, size, t, k, u, l, z)
  BY <1>1, <1>9, <1>11, <1>12, <1>13, <1>14 DEF LongIs
<1> QED
  BY <1>15 DEF all, stu, st, s, e

\* A call of the user.
LEMMA CallIs ==
    ASSUME call \in Calls
    PROVE  /\ call.op \in {"read", "write", "read_word", "write_word"} /\ ~Connecting
           /\ (Reading \/ Writing) /\ ~(Reading /\ Writing)
           /\ call.addr \in Addrs /\ call.addr \in Nat /\ call.size \in Nat /\ call.data \in Seq(Byte)
           /\ Writing => Len(call.data) = call.size
           /\ call.op \in {"read_word", "write_word"} => call.size = WordSize /\ call.addr % WordSize = 0
           /\ \A b \in Nat : call.addr <= b /\ b < call.addr + call.size => b \in Addrs
<1>1. /\ call \in [op : {"read", "write", "read_word", "write_word"}, addr : Addrs, size : Nat,
                   data : Seq(Byte)]
      /\ call.addr .. (call.addr + call.size) - 1 \subseteq Addrs
      /\ call.op \in {"write", "write_word"} => Len(call.data) = call.size
      /\ call.op \in {"read_word", "write_word"} => call.size = WordSize /\ call.addr % WordSize = 0
  BY MemoryAssumption
<1>2. call.addr \in Nat
  BY <1>1, Sizes
<1>3. ASSUME NEW b \in Nat, call.addr <= b, b < call.addr + call.size PROVE b \in Addrs
  <2>1. b \in call.addr .. (call.addr + call.size) - 1
    BY <1>1, <1>2, <1>3
  <2> QED
    BY <1>1, <2>1
<1> QED
  BY <1>1, <1>2, <1>3 DEF Reading, Writing, Connecting

\* The size of a piece, and of a word that is one.
PieceSize == IF call.op \in {"read", "write"} THEN Piece ELSE WordSize

\* The piece is one byte or aligned words, inside the page and the call.
LEMMA PieceIs ==
    ASSUME call \in Calls, next \in Nat, call.addr <= next, next < call.addr + call.size, OneWord
    PROVE  /\ PieceSize \in Nat \ {0} /\ next \in Addrs
           /\ (next % Page) + PieceSize <= Page /\ next + PieceSize <= call.addr + call.size
           /\ ~(call.op \in {"read", "write"} /\ PieceSize = 1) =>
                next % WordSize = 0 /\ PieceSize % WordSize = 0
           /\ call.op \in {"read_word", "write_word"} =>
                PieceSize = WordSize /\ next = call.addr /\ next + PieceSize = call.addr + call.size
<1> DEFINE left == (call.addr + call.size) - next
           off == next % Page
           page == Page - off
<1>1. next \in Addrs /\ left \in Nat /\ left >= 1
  BY CallIs
<1>2. off \in 0 .. Page - 1
  BY Sizes, Divides
<1>3. page \in Nat /\ page >= 1
  BY <1>2, Sizes
<1>4. next % WordSize = 0 => off % WordSize = 0 /\ page % WordSize = 0 /\ off + WordSize <= Page
  <2> SUFFICES ASSUME next % WordSize = 0
               PROVE  off % WordSize = 0 /\ page % WordSize = 0 /\ off + WordSize <= Page
    OBVIOUS
  <2>0. WordSize \in Nat \ {0} /\ Page \in Nat \ {0} /\ Page % WordSize = 0
    BY Sizes
  <2>1. off % WordSize = 0
    BY <2>0, Remains
  <2> HIDE DEF off
  <2>2. off \in Nat /\ off < Page /\ off <= Page
    BY <1>2, <2>0
  <2>3. (Page - off) % WordSize = 0 /\ off + WordSize <= Page
    BY <2>0, <2>1, <2>2, Multiples
  <2> QED
    BY <2>1, <2>3
<1>5. Piece = IF next % WordSize # 0 \/ left < WordSize THEN 1
              ELSE IF left < page THEN left - (left % WordSize) ELSE page
  BY DEF Piece
<1>6. CASE call.op \in {"read", "write"}
  <2>1. PieceSize = Piece
    BY <1>6 DEF PieceSize
  <2>2. CASE next % WordSize # 0 \/ left < WordSize
    <3>1. PieceSize = 1
      BY <1>5, <2>1, <2>2
    <3>2. off + 1 <= Page
      BY <1>2, Sizes
    <3>3. next + 1 <= call.addr + call.size
      BY CallIs
    <3> QED
      BY <1>1, <1>6, <3>1, <3>2, <3>3
  <2>3. CASE ~(next % WordSize # 0 \/ left < WordSize) /\ left < page
    <3>1. PieceSize = left - (left % WordSize) /\ next % WordSize = 0 /\ left >= WordSize
      <4>1. WordSize \in Nat
        BY Sizes
      <4> QED
        BY <1>1, <1>5, <2>1, <2>3, <4>1
    <3> DEFINE rem == left % WordSize
               n == left - rem
    <3>0. left \in Nat /\ WordSize \in Nat \ {0} /\ WordSize \in Nat
      BY <1>1, Sizes
    <3> HIDE DEF left
    <3>a. rem \in 0 .. WordSize - 1
      BY <3>0, Divides
    <3>b. n \in Nat /\ n % WordSize = 0
      BY <3>0, BelowIs
    <3>2. rem \in 0 .. WordSize - 1 /\ n \in Nat /\ n % WordSize = 0 /\ PieceSize = n
      BY <3>a, <3>b, <3>1
    <3> HIDE DEF rem
    <3>3. n \in Nat /\ n >= 1 /\ n <= left
      BY <3>0, <3>1, <3>2
    <3> HIDE DEF n
    <3>4. off + n <= Page
      BY <1>2, <1>3, <2>3, <3>0, <3>3, Sizes
    <3>5. next + n <= call.addr + call.size
      BY <3>3, CallIs DEF left
    <3> QED
      BY <1>1, <1>6, <3>1, <3>2, <3>3, <3>4, <3>5
  <2>4. CASE ~(next % WordSize # 0 \/ left < WordSize) /\ ~(left < page)
    <3>1. PieceSize = page /\ next % WordSize = 0
      BY <1>5, <2>1, <2>4
    <3>2. page % WordSize = 0 /\ page <= left
      BY <1>1, <1>3, <1>4, <2>4, <3>1
    <3>3. off + page <= Page
      BY <1>2, Sizes
    <3>4. next + page <= call.addr + call.size
      <4> HIDE DEF page
      <4> QED BY <1>3, <3>2, CallIs
    <3> QED
      BY <1>1, <1>3, <1>6, <3>1, <3>2, <3>3, <3>4
  <2> QED
    BY <2>2, <2>3, <2>4
<1>7. CASE call.op \in {"read_word", "write_word"}
  <2>1. PieceSize = WordSize /\ call.size = WordSize /\ call.addr % WordSize = 0
    BY <1>7, CallIs DEF PieceSize
  <2>2. next = call.addr
    BY <1>7, CallIs DEF OneWord
  <2>3. next % WordSize = 0 /\ off + WordSize <= Page
    BY <1>4, <2>1, <2>2
  <2>4. WordSize % WordSize = 0
    <3>1. WordSize \in Nat \ {0} /\ WordSize = WordSize * 1 + 0 /\ 0 \in 0 .. WordSize - 1
      BY Sizes
    <3> QED
      BY <3>1, OneRemainder
  <2>5. next + WordSize = call.addr + call.size
    BY <2>1, <2>2
  <2>6. next + WordSize \in Nat
    BY Sizes
  <2> QED
    BY <1>1, <1>7, <2>1, <2>2, <2>3, <2>4, <2>5, <2>6, Sizes
<1> QED
  BY <1>6, <1>7, CallIs

\* The bytes of the call at b, on their lanes.
LEMMA LanedIs ==
    ASSUME call \in Calls, Writing, NEW b \in Nat, NEW n \in Nat \ {0}, call.addr <= b,
           b + n <= call.addr + call.size, (b % WordSize) + n <= WordSize
    PROVE  LET v == Laned(call.data, call.addr, b, n) IN
           /\ v \in [Lanes -> Byte]
           /\ \A i \in 0 .. n - 1 : v[(b + i) % WordSize] = call.data[((b + i) - call.addr) + 1]
<1> DEFINE r == b % WordSize
           v == Laned(call.data, call.addr, b, n)
           Place(l) == (b - call.addr) + (l - r) + 1
<1>1. r \in 0 .. WordSize - 1 /\ WordSize \in Nat
  BY Sizes, Divides
<1>2. v = [l \in Lanes |-> IF l \in r .. r + n - 1 THEN call.data[Place(l)] ELSE 0]
  BY DEF Laned
<1>0. /\ call.data \in Seq(Byte) /\ Len(call.data) = call.size /\ call.addr \in Nat /\ call.size \in Nat
  BY CallIs
<1> HIDE DEF r, v
<1>3. ASSUME NEW l \in Lanes, l \in r .. r + n - 1 PROVE call.data[Place(l)] \in Byte
  <2>1. Place(l) \in 1 .. call.size
    BY <1>0, <1>1, <1>3 DEF Lanes
  <2> HIDE DEF Place
  <2> QED
    BY <1>0, <2>1
<1>4. v \in [Lanes -> Byte]
  BY <1>2, <1>3, Sizes
<1>5. ASSUME NEW i \in 0 .. n - 1 PROVE v[(b + i) % WordSize] = call.data[((b + i) - call.addr) + 1]
  <2>0. (b % WordSize) + i = r + i /\ (b % WordSize) + n = r + n
    BY DEF r
  <2>1. r + i < WordSize /\ i \in Nat /\ WordSize \in Nat \ {0}
    BY <1>1, <2>0, Sizes
  <2>2. (b + i) % WordSize = r + i
    BY <2>0, <2>1, StepInside
  <2>a. i <= n - 1 /\ n \in Nat /\ r \in Nat
    BY <1>1
  <2> DEFINE k == r + i
  <2>b. k \in r .. r + n - 1
    BY <2>a, <2>1
  <2>c. k \in 0 .. WordSize - 1
    BY <2>a, <2>1
  <2> HIDE DEF k
  <2>d. k \in Lanes
    BY <2>c DEF Lanes
  <2>3. r + i \in Lanes /\ r + i \in r .. r + n - 1
    BY <2>b, <2>d, Zenon DEF k
  <2>4. Place(r + i) = ((b + i) - call.addr) + 1
    <3> DEFINE a == call.addr
    <3>1. a \in Nat /\ r \in Nat /\ i \in Nat
      BY <1>0, <1>1, <2>1
    <3>2. Place(r + i) = (b - a) + ((r + i) - r) + 1
      OBVIOUS
    <3> HIDE DEF a, Place
    <3>3. Place(r + i) = ((b + i) - a) + 1
      BY <3>1, <3>2
    <3> QED
      BY <3>3 DEF a
  <2> HIDE DEF Place
  <2>5. v[r + i] = call.data[Place(r + i)]
    BY <1>2, <2>3
  <2> QED
    BY <2>2, <2>4, <2>5
<1> QED
  BY <1>4, <1>5 DEF v

\* The transfer at each place.
LEMMA NthIs ==
    ASSUME NEW r, NEW a, NEW w \in Nat \ {0}, NEW size
    PROVE  /\ IsNth(call, r, 1, a, w, size) <=> r = Request("SELECT", "zero")
           /\ IsNth(call, r, 2, a, w, size) <=> r = Request("CSW", size)
           /\ IsNth(call, r, 3, a, w, size) <=> r = RdBuff
           /\ IsNth(call, r, 4, a, w, size) <=> r = Request("TAR", a)
           /\ IsNth(call, r, w + 5, a, w, size) <=>
                IF Reading THEN r = Fetch("RDBUFF", size) ELSE r \in {RdBuff, NullWrite}
           /\ \A p \in 5 .. w + 4 : IsNth(call, r, p, a, w, size) <=>
                IF Writing
                  THEN r = Request("DRW", Laned(call.data, call.addr, a + ((p - 5) * Unit(size)), Unit(size)))
                  ELSE r = Fetch("DRW", IF p = 5 THEN "none" ELSE "word")
<1>1. 1 # w + 5 /\ 2 # w + 5 /\ 3 # w + 5 /\ 4 # w + 5 /\ w + 5 # 1 /\ w + 5 # 2 /\ w + 5 # 3 /\ w + 5 # 4
  OBVIOUS
<1>2. \A p \in 5 .. w + 4 : p # 1 /\ p # 2 /\ p # 3 /\ p # 4 /\ p # w + 5
  OBVIOUS
<1>3. /\ IsNth(call, r, 1, a, w, size) <=> r = Request("SELECT", "zero")
      /\ IsNth(call, r, 2, a, w, size) <=> r = Request("CSW", size)
      /\ IsNth(call, r, 3, a, w, size) <=> r = RdBuff
      /\ IsNth(call, r, 4, a, w, size) <=> r = Request("TAR", a)
  BY <1>1 DEF IsNth, IsReading, IsWriting, Reading, Writing
<1>4. IsNth(call, r, w + 5, a, w, size) <=>
        IF Reading THEN r = Fetch("RDBUFF", size) ELSE r \in {RdBuff, NullWrite}
  BY <1>1 DEF IsNth, IsReading, IsWriting, Reading, Writing
<1>5. ASSUME NEW p \in 5 .. w + 4
      PROVE  IsNth(call, r, p, a, w, size) <=>
               IF Writing
                 THEN r = Request("DRW", Laned(call.data, call.addr, a + ((p - 5) * Unit(size)), Unit(size)))
                 ELSE r = Fetch("DRW", IF p = 5 THEN "none" ELSE "word")
  <2>1. p # 1 /\ p # 2 /\ p # 3 /\ p # 4 /\ p # w + 5
    BY <1>2
  <2> QED
    BY <2>1 DEF IsNth, IsReading, IsWriting, Reading, Writing
<1> QED
  BY <1>3, <1>4, <1>5

\* A plan of w accesses from address a.
IsPlan(s, a, w, size) ==
    /\ s \in Seq(Transfer) /\ Len(s) = w + 5
    /\ AreLeft(call, s, 0, a, w, size)

\* It is one if it is at each place.
LEMMA PlanAt ==
    ASSUME NEW s \in Seq(Transfer), NEW a, NEW w \in Nat \ {0}, NEW size, Len(s) = w + 5,
           s[1] = Request("SELECT", "zero"), s[2] = Request("CSW", size), s[3] = RdBuff,
           s[4] = Request("TAR", a), IsNth(call, s[w + 5], w + 5, a, w, size),
           \A p \in 5 .. w + 4 : IsNth(call, s[p], p, a, w, size)
    PROVE  IsPlan(s, a, w, size)
<1>1. ASSUME NEW i \in 1 .. Len(s) PROVE IsNth(call, s[i], i, a, w, size)
  <2>1. i = 1 \/ i = 2 \/ i = 3 \/ i = 4 \/ i = w + 5 \/ i \in 5 .. w + 4
    OBVIOUS
  <2> QED
    BY <2>1, NthIs
<1>2. \A i \in 1 .. Len(s) : 0 + i = i
  OBVIOUS
<1> QED
  BY <1>1, <1>2 DEF IsPlan, AreLeft

\* The plan of one access.
LEMMA OneAccess ==
    ASSUME NEW a \in Addrs, NEW size \in {"byte", "word"}, NEW y \in Transfer, NEW z \in Transfer,
           IsNth(call, y, 5, a, 1, size), IsNth(call, z, 6, a, 1, size)
    PROVE  IsPlan(SetCsw(size) \o <<Request("TAR", a), y, z>>, a, 1, size)
<1> DEFINE x == Request("TAR", a)
           s == SetCsw(size) \o <<x, y, z>>
<1>1. x \in Transfer
  BY Requests
<1>2. /\ s \in Seq(Transfer) /\ Len(s) = 6
      /\ s[1] = Request("SELECT", "zero") /\ s[2] = Request("CSW", size) /\ s[3] = RdBuff
      /\ s[4] = x /\ s[5] = y /\ s[6] = z
  BY <1>1, SixPlan
<1> HIDE DEF s
<1>3. 1 \in Nat \ {0} /\ 1 + 5 = 6 /\ \A p \in 5 .. 1 + 4 : p = 5
  OBVIOUS
<1>4. IsPlan(s, a, 1, size)
  BY <1>2, <1>3, PlanAt
<1> QED
  BY <1>4 DEF s

\* The plan of words read.
LEMMA BlockRead ==
    ASSUME Reading, ~Writing, NEW a \in Addrs, NEW w \in Nat \ {0}
    PROVE  IsPlan(ReadBlock(a, w), a, w, "word")
<1> DEFINE x == Request("TAR", a)
           y == Fetch("DRW", "none")
           f == Fetch("DRW", "word")
           z == Fetch("RDBUFF", "word")
           t == <<x, y>>
           u == [i \in 1 .. w - 1 |-> f]
           s == SetCsw("word") \o t \o u \o <<z>>
<1>1. x \in Transfer /\ y \in Transfer /\ f \in Transfer /\ z \in Transfer
  BY Requests
<1> HIDE DEF x, y, f, z
<1>2. t \in Seq(Transfer) /\ Len(t) = 2 /\ t[1] = x /\ t[2] = y
  BY <1>1
<1>3. u \in Seq(Transfer) /\ Len(u) = w - 1 /\ w - 1 \in Nat /\ \A i \in 1 .. w - 1 : u[i] = f
  BY <1>1
<1>4. ReadBlock(a, w) = s
  BY DEF ReadBlock, x, y, f, z
<1> HIDE DEF t, u
<1>5. 2 \in Nat /\ "word" \in {"byte", "word"}
  OBVIOUS
<1>6. /\ s \in Seq(Transfer) /\ Len(s) = 2 + (w - 1) + 4
      /\ s[1] = Request("SELECT", "zero") /\ s[2] = Request("CSW", "word") /\ s[3] = RdBuff
      /\ \A i \in 1 .. 2 : s[i + 3] = t[i]
      /\ \A i \in 1 .. w - 1 : s[i + 2 + 3] = u[i]
      /\ s[2 + (w - 1) + 4] = z
  <2>1. LongIs(s, "word", t, 2, u, w - 1, z)
    BY <1>1, <1>2, <1>3, <1>5, LongPlan
  <2> HIDE DEF s
  <2> QED
    BY <2>1 DEF LongIs
<1> HIDE DEF s
<1>7. s[1 + 3] = t[1] /\ s[2 + 3] = t[2]
  BY <1>6
<1>8. Len(s) = w + 5 /\ s[4] = x /\ s[5] = y /\ s[w + 5] = z
  <2>1. 2 + (w - 1) + 4 = w + 5 /\ 1 + 3 = 4 /\ 2 + 3 = 5
    OBVIOUS
  <2> QED
    BY <1>2, <1>6, <1>7, <2>1
<1>9. ASSUME NEW p \in 6 .. w + 4 PROVE s[p] = f
  <2>1. (p - 5) \in 1 .. w - 1 /\ (p - 5) + 2 + 3 = p
    OBVIOUS
  <2> QED
    BY <1>3, <1>6, <2>1
<1>10. ASSUME NEW p \in 5 .. w + 4 PROVE IsNth(call, s[p], p, a, w, "word")
  <2>1. p = 5 \/ p \in 6 .. w + 4
    OBVIOUS
  <2>2. CASE p = 5
    BY <1>8, <2>2, NthIs DEF y
  <2>3. CASE p \in 6 .. w + 4
    <3>1. p # 5 /\ s[p] = f
      BY <1>9, <2>3
    <3> QED
      BY <3>1, NthIs DEF f
  <2> QED
    BY <2>1, <2>2, <2>3
<1>11. IsNth(call, s[w + 5], w + 5, a, w, "word")
  BY <1>8, NthIs DEF z
<1>12. IsPlan(s, a, w, "word")
  BY <1>6, <1>8, <1>10, <1>11, PlanAt DEF x
<1> QED
  BY <1>4, <1>12

\* The plan of words written.
LEMMA BlockWritten ==
    ASSUME call \in Calls, Writing, ~Reading, NEW a \in Addrs, NEW w \in Nat \ {0}, a % WordSize = 0,
           call.addr <= a, a + (w * WordSize) <= call.addr + call.size
    PROVE  IsPlan(WriteBlock(a, w, call.data, call.addr), a, w, "word")
<1> DEFINE x == Request("TAR", a)
           b(i) == a + ((i - 1) * WordSize)
           v(i) == Laned(call.data, call.addr, b(i), WordSize)
           z == RdBuff
           t == <<x>>
           u == [i \in 1 .. w |-> Request("DRW", v(i))]
           s == SetCsw("word") \o t \o u \o <<z>>
<1>0. a \in Nat /\ WordSize \in Nat \ {0} /\ call.addr \in Nat /\ call.size \in Nat
  BY Sizes, CallIs
<1>1. x \in Transfer /\ z \in Transfer
  BY Requests
<1>2. ASSUME NEW i \in 1 .. w PROVE v(i) \in [Lanes -> Byte]
  <2> DEFINE k == (i - 1) * WordSize
  <2>1. k \in Nat /\ k + WordSize <= w * WordSize
    <3>1. i - 1 \in Nat /\ i \in Nat /\ i <= w
      OBVIOUS
    <3>2. k + WordSize = i * WordSize
      BY <1>0, <3>1
    <3>3. i * WordSize <= w * WordSize
      BY <1>0, <3>1
    <3> QED
      BY <1>0, <3>1, <3>2, <3>3
  <2>2. k % WordSize = 0
    <3>1. k = WordSize * (i - 1) + 0 /\ 0 \in 0 .. WordSize - 1 /\ i - 1 \in Int
      BY <1>0
    <3> QED
      BY <1>0, <2>1, <3>1, OneRemainder
  <2> HIDE DEF k
  <2>3. w * WordSize \in Nat
    BY <1>0
  <2> DEFINE c == a + k
  <2>4. c \in Nat /\ call.addr <= c /\ c + WordSize <= call.addr + call.size
    BY <1>0, <2>1, <2>3
  <2>5. c % WordSize = 0
    BY <1>0, <2>1, <2>2, Multiples
  <2>6. (c % WordSize) + WordSize <= WordSize
    BY <1>0, <2>5
  <2> HIDE DEF c
  <2>7. Laned(call.data, call.addr, c, WordSize) \in [Lanes -> Byte]
    BY <1>0, <2>4, <2>6, LanedIs
  <2> QED
    BY <2>7 DEF c, k
<1>3. \A i \in 1 .. w : Request("DRW", v(i)) \in Transfer
  BY <1>2, Requests
<1> HIDE DEF x, v, z
<1>4. t \in Seq(Transfer) /\ Len(t) = 1 /\ t[1] = x
  BY <1>1
<1>5. u \in Seq(Transfer) /\ Len(u) = w /\ w \in Nat /\ \A i \in 1 .. w : u[i] = Request("DRW", v(i))
  BY <1>3
<1>6. WriteBlock(a, w, call.data, call.addr) = s
  BY DEF WriteBlock, x, v, z
<1> HIDE DEF t, u
<1>7. 1 \in Nat /\ "word" \in {"byte", "word"}
  OBVIOUS
<1>8. /\ s \in Seq(Transfer) /\ Len(s) = 1 + w + 4
      /\ s[1] = Request("SELECT", "zero") /\ s[2] = Request("CSW", "word") /\ s[3] = RdBuff
      /\ \A i \in 1 .. 1 : s[i + 3] = t[i]
      /\ \A i \in 1 .. w : s[i + 1 + 3] = u[i]
      /\ s[1 + w + 4] = z
  <2>1. LongIs(s, "word", t, 1, u, w, z)
    BY <1>1, <1>4, <1>5, <1>7, LongPlan
  <2> HIDE DEF s
  <2> QED
    BY <2>1 DEF LongIs
<1> HIDE DEF s
<1>9. Len(s) = w + 5 /\ s[4] = x /\ s[w + 5] = z
  <2>1. 1 + w + 4 = w + 5 /\ 1 + 3 = 4 /\ 1 \in 1 .. 1
    OBVIOUS
  <2> QED
    BY <1>4, <1>8, <2>1
<1>10. ASSUME NEW p \in 5 .. w + 4 PROVE IsNth(call, s[p], p, a, w, "word")
  <2>1. (p - 4) \in 1 .. w /\ (p - 4) + 1 + 3 = p /\ (p - 4) - 1 = p - 5
    OBVIOUS
  <2>2. s[p] = Request("DRW", v(p - 4))
    BY <1>5, <1>8, <2>1
  <2>3. v(p - 4) = Laned(call.data, call.addr, a + ((p - 5) * WordSize), WordSize)
    BY <2>1 DEF v
  <2>4. Unit("word") = WordSize
    BY DEF Unit
  <2> QED
    BY <2>2, <2>3, <2>4, NthIs
<1>11. IsNth(call, s[w + 5], w + 5, a, w, "word")
  BY <1>9, NthIs DEF z
<1>12. IsPlan(s, a, w, "word")
  BY <1>8, <1>9, <1>10, <1>11, PlanAt DEF x
<1> QED
  BY <1>6, <1>12

\* What the accesses of the next piece are.
PieceUnit == IF call.op \in {"read", "write"} /\ PieceSize = 1 THEN "byte" ELSE "word"
PieceUnits == IF PieceUnit = "byte" THEN 1 ELSE PieceSize \div WordSize

\* The next piece is planned.
LEMMA Planned ==
    ASSUME call \in Calls, next \in Nat, call.addr <= next, next < call.addr + call.size, OneWord
    PROVE  /\ PieceUnit \in {"byte", "word"} /\ PieceUnits \in 1 .. Page
           /\ PieceSize = PieceUnits * Unit(PieceUnit)
           /\ PieceUnit = "byte" => PieceUnits = 1
           /\ PieceUnit = "word" => next % WordSize = 0
           /\ IsPlan(PlanOf(PieceSize), next, PieceUnits, PieceUnit)
<1> DEFINE n == PieceSize
           w == PieceUnits
<1>1. /\ n \in Nat /\ n >= 1 /\ next \in Addrs /\ n <= Page
      /\ next + n <= call.addr + call.size
      /\ (Reading \/ Writing) /\ ~(Reading /\ Writing)
      /\ call.addr \in Nat /\ call.size \in Nat
  <2>1. next % Page \in Nat /\ Page \in Nat
    BY Sizes, Divides
  <2> QED
    BY <2>1, PieceIs, CallIs
<1>2. CASE PieceUnit = "byte"
  <2>1. n = 1 /\ w = 1 /\ call.op \in {"read", "write"} /\ Unit("byte") = 1
    BY <1>2 DEF PieceUnit, PieceUnits, Unit
  <2>2. IsPlan(PlanOf(1), next, 1, "byte")
    <3>1. CASE call.op = "read"
      <4>1. PlanOf(1) = SetCsw("byte") \o <<Request("TAR", next), Fetch("DRW", "none"), Fetch("RDBUFF", "byte")>>
        BY <3>1 DEF PlanOf, ReadData
      <4>2. Fetch("DRW", "none") \in Transfer /\ Fetch("RDBUFF", "byte") \in Transfer
        BY Requests
      <4>3. 1 \in Nat \ {0} /\ 1 + 5 = 6 /\ 5 \in 5 .. 1 + 4
        OBVIOUS
      <4>4. IsNth(call, Fetch("DRW", "none"), 5, next, 1, "byte") /\ IsNth(call, Fetch("RDBUFF", "byte"), 6, next, 1, "byte")
        BY <1>1, <3>1, <4>3, NthIs DEF Reading
      <4> QED
        BY <1>1, <4>1, <4>2, <4>4, OneAccess
    <3>2. CASE call.op = "write"
      <4> DEFINE v == Laned(call.data, call.addr, next, 1)
                 z == IF next # 0 THEN RdBuff ELSE NullWrite
      <4>1. PlanOf(1) = SetCsw("byte") \o <<Request("TAR", next), Request("DRW", v), z>>
        BY <3>2 DEF PlanOf, WriteData
      <4>2. (next % WordSize) + 1 <= WordSize
        BY Sizes, Divides
      <4>3. 1 \in Nat \ {0} /\ 1 + 5 = 6 /\ 5 \in 5 .. 1 + 4 /\ (5 - 5) * 1 = 0 /\ next + 0 = next
        OBVIOUS
      <4>4. v \in [Lanes -> Byte]
        BY <1>1, <2>1, <3>2, <4>2, <4>3, LanedIs DEF Writing
      <4>5. Request("DRW", v) \in Transfer /\ z \in Transfer
        BY <4>4, Requests
      <4>6. IsNth(call, z, 6, next, 1, "byte")
        BY <1>1, <3>2, <4>3, NthIs DEF Writing
      <4>7. IsNth(call, Request("DRW", v), 5, next, 1, "byte")
        BY <2>1, <3>2, <4>3, NthIs DEF Writing
      <4> HIDE DEF v, z
      <4> QED
        BY <1>1, <4>1, <4>5, <4>6, <4>7, OneAccess
    <3> QED
      BY <2>1, <3>1, <3>2
  <2>3. 1 \in 1 .. Page /\ 1 = 1 * 1
    BY Sizes
  <2> QED
    BY <1>2, <2>1, <2>2, <2>3
<1>3. CASE PieceUnit = "word"
  <2>1. /\ ~(call.op \in {"read", "write"} /\ n = 1) /\ w = n \div WordSize /\ Unit("word") = WordSize
        /\ "word" # "byte"
    BY <1>3 DEF PieceUnit, PieceUnits, Unit
  <2>2. next % WordSize = 0 /\ n % WordSize = 0
    BY <2>1, PieceIs
  <2>3. w \in Nat /\ n = WordSize * w
    <3>1. WordSize \in Nat \ {0}
      BY Sizes
    <3>2. w \in Nat /\ n = WordSize * w + 0
      BY <1>1, <2>1, <2>2, <3>1, Divides
    <3> HIDE DEF w
    <3>3. WordSize * w \in Nat
      BY <3>1, <3>2
    <3> QED
      BY <3>2, <3>3
  <2> HIDE DEF w
  <2>4. w \in Nat \ {0} /\ w <= Page /\ n = w * WordSize
    <3>1. WordSize \in Nat /\ WordSize >= 1 /\ WordSize * w = w * WordSize
      BY <2>3, Sizes
    <3>2. w # 0
      BY <1>1, <2>3, <3>1
    <3>3. w <= w * WordSize
      BY <2>3, <3>1
    <3> QED
      BY <1>1, <2>3, <3>1, <3>2, <3>3, Sizes
  <2>5. w \in 1 .. Page
    BY <2>4, Sizes
  <2>6. IsPlan(PlanOf(n), next, w, "word")
    <3>1. CASE call.op = "read"
      <4>1. n > 1 /\ n # 1
        BY <1>1, <2>1, <3>1
      <4>2. PlanOf(n) = ReadBlock(next, w)
        BY <2>1, <3>1, <4>1 DEF PlanOf, w
      <4> QED
        BY <1>1, <2>4, <3>1, <4>2, BlockRead DEF Reading
    <3>2. CASE call.op = "write"
      <4>1. n > 1 /\ n # 1
        BY <1>1, <2>1, <3>2
      <4>2. PlanOf(n) = WriteBlock(next, w, call.data, call.addr)
        BY <2>1, <3>2, <4>1 DEF PlanOf, w
      <4>3. next + (w * WordSize) <= call.addr + call.size
        BY <1>1, <2>4
      <4> QED
        BY <1>1, <2>2, <2>4, <3>2, <4>2, <4>3, BlockWritten DEF Writing
    <3>3. CASE call.op \in {"read_word", "write_word"}
      <4>1. n = WordSize /\ w = 1
        <5>1. n = WordSize
          BY <3>3, PieceIs
        <5>2. w * WordSize = WordSize
          BY <2>4, <5>1
        <5>3. w < 2
          <6> SUFFICES ASSUME w >= 2 PROVE FALSE
            BY <2>4
          <6>1. w * WordSize >= 2 * WordSize
            BY <2>4, Sizes
          <6> QED
            BY <5>2, <6>1, Sizes
        <5> QED
          BY <2>4, <5>1, <5>3
      <4>2. 1 \in Nat \ {0} /\ 1 + 5 = 6 /\ 5 \in 5 .. 1 + 4
        OBVIOUS
      <4>3. CASE call.op = "read_word"
        <5>1. PlanOf(n) = SetCsw("word") \o <<Request("TAR", next), Fetch("DRW", "none"), Fetch("RDBUFF", "word")>>
          BY <4>3 DEF PlanOf, ReadData
        <5>2. Fetch("DRW", "none") \in Transfer /\ Fetch("RDBUFF", "word") \in Transfer
          BY Requests
        <5>3. IsNth(call, Fetch("DRW", "none"), 5, next, 1, "word") /\ IsNth(call, Fetch("RDBUFF", "word"), 6, next, 1, "word")
          BY <1>1, <4>2, <4>3, NthIs DEF Reading
        <5> QED
          BY <1>1, <4>1, <5>1, <5>2, <5>3, OneAccess
      <4>4. CASE call.op = "write_word"
        <5> DEFINE v == Laned(call.data, call.addr, next, WordSize)
                   z == IF next # 0 THEN RdBuff ELSE NullWrite
        <5>1. PlanOf(n) = SetCsw("word") \o <<Request("TAR", next), Request("DRW", v), z>>
          BY <4>4 DEF PlanOf, WriteData
        <5>2. (next % WordSize) + WordSize <= WordSize
          BY <2>2, Sizes
        <5>3. WordSize \in Nat \ {0} /\ (5 - 5) * WordSize = 0 /\ next + 0 = next
          BY Sizes
        <5>4. v \in [Lanes -> Byte]
          BY <1>1, <4>1, <4>4, <5>2, <5>3, LanedIs DEF Writing
        <5>5. Request("DRW", v) \in Transfer /\ z \in Transfer
          BY <5>4, Requests
        <5>6. IsNth(call, z, 6, next, 1, "word")
          BY <1>1, <4>2, <4>4, NthIs DEF Writing
        <5>7. IsNth(call, Request("DRW", v), 5, next, 1, "word")
          BY <2>1, <4>2, <4>4, <5>3, NthIs DEF Writing
        <5> HIDE DEF v, z
        <5> QED
          BY <1>1, <4>1, <5>1, <5>5, <5>6, <5>7, OneAccess
      <4> QED
        BY <3>3, <4>3, <4>4
    <3> QED
      BY <3>1, <3>2, <3>3, CallIs
  <2> QED
    BY <1>3, <2>1, <2>2, <2>4, <2>5, <2>6 DEF w
<1> QED
  BY <1>2, <1>3 DEF PieceUnit

-----------------------------------------------------------------------------
(***************************************************************************)
(* The ports.                                                              *)
(***************************************************************************)

\* The type invariant is that of the two ports and that of the host.
LEMMA Typed ==
    SwdTypeOK <=>
      /\ mem \in [Addrs -> Byte] /\ target \in Ports /\ cache \in Beliefs
      /\ tries \in 0 .. MaxRetry /\ polls \in 0 .. MaxPolls - 1
      /\ call \in Calls \union {Never, [Never EXCEPT !.op = "connect"]}
      /\ status \in {"new", "running", "true", "false", "crashed"}
      /\ next \in call.addr .. call.addr + call.size
      /\ got \in Seq(Byte \union {Junk}) /\ Len(got) <= call.size
      /\ trusted \in BOOLEAN /\ repeated \in BOOLEAN
  BY DEF SwdTypeOK, Ports, Beliefs

\* The ports u have these values.
PortsAre(u, select, csw, tar, posted, sticky) ==
    /\ u \in Ports /\ u.select = select /\ u.csw = csw /\ u.tar = tar
    /\ u.posted = posted /\ u.sticky = sticky

\* A field of the ports is changed, and only that.
LEMMA OnePort ==
    ASSUME NEW t \in Ports
    PROVE  /\ \A v \in {"zero", "other"} :
                PortsAre([t EXCEPT !.select = v], v, t.csw, t.tar, t.posted, t.sticky)
           /\ \A v \in {"byte", "word"} :
                PortsAre([t EXCEPT !.csw = v], t.select, v, t.tar, t.posted, t.sticky)
           /\ \A v \in Addrs : PortsAre([t EXCEPT !.tar = v], t.select, t.csw, v, t.posted, t.sticky)
           /\ \A v \in Addrs, w \in Word :
                PortsAre([t EXCEPT !.tar = v, !.posted = w], t.select, t.csw, v, w, t.sticky)
           /\ \A w \in Word : PortsAre([t EXCEPT !.posted = w], t.select, t.csw, t.tar, w, t.sticky)
           /\ \A w \in Word :
                PortsAre([t EXCEPT !.sticky = TRUE, !.posted = w], t.select, t.csw, t.tar, w, TRUE)
           /\ PortsAre([t EXCEPT !.sticky = FALSE], t.select, t.csw, t.tar, t.posted, FALSE)
  BY DEF Ports, PortsAre

\* The word of a read that gave nothing is a word.
LEMMA NoWordIs == NoWord \in Word
  BY DEF NoWord, Word

\* The word around an address is in the memory.
LEMMA WordInside ==
    ASSUME NEW x \in Addrs
    PROVE  \A l \in Lanes : (x - (x % WordSize)) + l \in Addrs
<1> DEFINE r == x % Page
           s == x % WordSize
<1>1. x \in Nat /\ WordSize \in Nat \ {0} /\ Page \in Nat \ {0} /\ Page % WordSize = 0
      /\ WordSize \in Nat /\ Page \in Nat
  BY Sizes
<1>2. r \in 0 .. Page - 1 /\ s \in 0 .. WordSize - 1
  BY <1>1, Divides
<1>3. r % WordSize = s
  BY <1>1, Remains
<1>4. r \in Nat
  BY <1>2
<1>5. r - (r % WordSize) \in Nat /\ (r - (r % WordSize)) % WordSize = 0
  BY <1>1, <1>4, BelowIs
<1> DEFINE c == r - s
<1>6. c \in Nat /\ c % WordSize = 0
  BY <1>3, <1>5
<1> HIDE DEF c
<1>7. c < Page
  BY <1>1, <1>2 DEF c
<1>8. c + WordSize <= Page
  BY <1>1, <1>6, <1>7, Multiples
<1>9. ASSUME NEW l \in Lanes PROVE (x - s) + l \in Addrs
  <2>1. l \in 0 .. WordSize - 1
    BY DEF Lanes
  <2>2. c + l \in 0 .. Page - 1
    BY <1>1, <1>6, <1>8, <2>1
  <2>3. (x - r) + (c + l) \in Addrs
    BY <2>2, MemoryAssumption
  <2> HIDE DEF r, s
  <2>4. (x - r) + ((r - s) + l) = (x - s) + l
    BY <1>1, <1>2, <2>1
  <2> QED
    BY <2>3, <2>4 DEF c
<1> QED
  BY <1>9

\* The fields of the two ports have their types.
LEMMA PortTypes ==
    ASSUME SwdTypeOK
    PROVE  /\ Width \in Nat \ {0} /\ Advanced \in Addrs /\ Fetched \in Word
           /\ \A v \in [Lanes -> Byte] : Stored(v) \in [Addrs -> Byte]
<1>1. mem \in [Addrs -> Byte] /\ target.tar \in Addrs /\ target.tar \in Nat
  BY Typed, Sizes DEF Ports
<1>2. Width \in Nat \ {0}
  BY Sizes DEF Width
<1>3. Advanced \in Addrs
  <2> DEFINE k == (target.tar + Width) % Page
  <2>1. target.tar + Width \in Nat /\ Page \in Nat \ {0}
    BY <1>1, <1>2, Sizes
  <2>2. k \in 0 .. Page - 1
    BY <2>1, Divides
  <2> HIDE DEF k
  <2>3. (target.tar - (target.tar % Page)) + k \in Addrs
    BY <1>1, <2>2, MemoryAssumption
  <2> QED
    BY <2>3 DEF Advanced, k
<1>4. Fetched \in Word
  <2>1. \A l \in Lanes : mem[(target.tar - (target.tar % WordSize)) + l] \in Byte
    BY <1>1, WordInside
  <2> QED
    BY <2>1 DEF Fetched, Word
<1>5. ASSUME NEW v \in [Lanes -> Byte] PROVE Stored(v) \in [Addrs -> Byte]
  <2>1. \A a \in Addrs : v[a % WordSize] \in Byte
    <3> SUFFICES ASSUME NEW a \in Addrs PROVE a % WordSize \in Lanes
      OBVIOUS
    <3> QED
      BY Sizes, Divides DEF Lanes
  <2> QED
    BY <1>1, <2>1 DEF Stored
<1> QED
  BY <1>2, <1>3, <1>4, <1>5

\* What an accepted request leaves.
LEMMA EffectIs ==
    ASSUME SwdTypeOK, NEW r \in Transfer, r.keep # "null", Effect(r)
    PROVE  /\ mem' \in [Addrs -> Byte] /\ target' \in Ports
           /\ r.reg # "ABORT" => target'.sticky = target.sticky
           /\ r.reg \notin {"SELECT", "CSW"} => target'.select = target.select /\ target'.csw = target.csw
           /\ ~(r.reg = "DRW" /\ r.write) => mem' = mem
           /\ r.reg \in {"RDBUFF", "IDCODE", "STAT", "CTRL"} => target' = target
           /\ r.reg = "SELECT" => target'.select = "zero" /\ target'.csw = target.csw
           /\ r.reg = "CSW" /\ target.select = "zero" =>
                target'.select = "zero" /\ target'.csw = r.value
           /\ r.reg = "TAR" /\ target.select = "zero" => target'.tar = r.value
           /\ r.reg = "DRW" /\ target.select = "zero" => target'.tar = Advanced
           /\ r.reg = "DRW" /\ ~r.write /\ target.select = "zero" => target'.posted = Fetched
           /\ r.reg = "DRW" /\ r.write /\ target.select = "zero" =>
                mem' = Stored(r.value) /\ target'.posted = target.posted
           /\ r.reg = "DRW" /\ r.write /\ target.select # "zero" => mem' = mem
<1>1. mem \in [Addrs -> Byte] /\ target \in Ports
  BY Typed
<1>2. /\ r.reg \in {"SELECT", "CSW", "TAR", "DRW", "RDBUFF", "IDCODE", "ABORT", "CTRL", "STAT"}
      /\ r.reg = "SELECT" => r.value = "zero"
      /\ r.reg = "CSW" => r.value \in {"byte", "word"}
      /\ r.reg = "TAR" => r.value \in Addrs
      /\ r.reg = "DRW" /\ r.write => r.value \in [Lanes -> Byte]
      /\ r.write \in BOOLEAN
  BY DEF Transfer
<1>3. CASE r.reg = "SELECT"
  <2>1. target' = [target EXCEPT !.select = "zero"] /\ mem' = mem
    BY <1>2, <1>3 DEF Effect
  <2>9. PortsAre(target', "zero", target.csw, target.tar, target.posted, target.sticky)
    BY <1>1, <2>1, OnePort
  <2> QED
    BY <1>1, <1>3, <2>1, <2>9 DEF PortsAre
<1>4. CASE r.reg = "CSW"
  <2>1. CASE target.select = "zero"
    <3>1. target' = [target EXCEPT !.csw = r.value] /\ mem' = mem
      BY <1>4, <2>1 DEF Effect
    <3>9. PortsAre(target', target.select, r.value, target.tar, target.posted, target.sticky)
      BY <1>1, <1>2, <1>4, <3>1, OnePort
    <3> QED
      BY <1>1, <1>2, <1>4, <2>1, <3>1, <3>9 DEF PortsAre
  <2>2. CASE target.select # "zero"
    <3>1. target' = target /\ mem' = mem
      BY <1>4, <2>2 DEF Effect
    <3> QED
      BY <1>1, <1>4, <2>2, <3>1
  <2> QED
    BY <2>1, <2>2
<1>5. CASE r.reg = "TAR"
  <2>1. CASE target.select = "zero"
    <3>1. target' = [target EXCEPT !.tar = r.value] /\ mem' = mem
      BY <1>5, <2>1 DEF Effect
    <3>9. PortsAre(target', target.select, target.csw, r.value, target.posted, target.sticky)
      BY <1>1, <1>2, <1>5, <3>1, OnePort
    <3> QED
      BY <1>1, <1>2, <1>5, <2>1, <3>1, <3>9 DEF PortsAre
  <2>2. CASE target.select # "zero"
    <3>1. target' = target /\ mem' = mem
      BY <1>5, <2>2 DEF Effect
    <3> QED
      BY <1>1, <1>5, <2>2, <3>1
  <2> QED
    BY <2>1, <2>2
<1>6. CASE r.reg = "DRW" /\ r.write
  <2>1. CASE target.select = "zero"
    <3>1. target' = [target EXCEPT !.tar = Advanced] /\ mem' = Stored(r.value)
      BY <1>6, <2>1 DEF Effect
    <3>2. Advanced \in Addrs /\ Stored(r.value) \in [Addrs -> Byte]
      BY <1>2, <1>6, PortTypes
    <3>9. PortsAre(target', target.select, target.csw, Advanced, target.posted, target.sticky)
      BY <1>1, <3>1, <3>2, OnePort
    <3> QED
      BY <1>1, <1>6, <2>1, <3>1, <3>2, <3>9 DEF PortsAre
  <2>2. CASE target.select # "zero"
    <3>1. target' = target /\ mem' = mem
      BY <1>6, <2>2 DEF Effect
    <3> QED
      BY <1>1, <1>6, <2>2, <3>1
  <2> QED
    BY <2>1, <2>2
<1>7. CASE r.reg = "DRW" /\ ~r.write
  <2>1. CASE target.select = "zero"
    <3>1. target' = [target EXCEPT !.tar = Advanced, !.posted = Fetched] /\ mem' = mem
      BY <1>7, <2>1 DEF Effect
    <3>2. Advanced \in Addrs /\ Fetched \in Word
      BY PortTypes
    <3>9. PortsAre(target', target.select, target.csw, Advanced, Fetched, target.sticky)
      BY <1>1, <3>1, <3>2, OnePort
    <3> QED
      BY <1>1, <1>7, <2>1, <3>1, <3>2, <3>9 DEF PortsAre
  <2>2. CASE target.select # "zero"
    <3>1. target' = [target EXCEPT !.posted = NoWord] /\ mem' = mem
      BY <1>7, <2>2 DEF Effect
    <3>9. PortsAre(target', target.select, target.csw, target.tar, NoWord, target.sticky)
      BY <1>1, <3>1, NoWordIs, OnePort
    <3> QED
      BY <1>1, <1>7, <2>2, <3>1, <3>9 DEF PortsAre
  <2> QED
    BY <2>1, <2>2
<1>8. CASE r.reg = "ABORT"
  <2>1. target' = [target EXCEPT !.sticky = FALSE] /\ mem' = mem
    BY <1>8 DEF Effect
  <2>9. PortsAre(target', target.select, target.csw, target.tar, target.posted, FALSE)
    BY <1>1, <2>1, OnePort
  <2> QED
    BY <1>1, <1>8, <2>1, <2>9 DEF PortsAre
<1>9. CASE r.reg \in {"RDBUFF", "IDCODE", "STAT", "CTRL"}
  <2>1. target' = target /\ mem' = mem
    BY <1>9 DEF Effect
  <2> QED
    BY <1>1, <1>9, <2>1
<1> QED
  BY <1>2, <1>3, <1>4, <1>5, <1>6, <1>7, <1>8, <1>9

\* The belief a request leaves.
LEMMA BelievedIs ==
    ASSUME SwdTypeOK, NEW r \in Transfer
    PROVE  /\ Believed(r) \in Beliefs
           /\ r.reg = "SELECT" => Believed(r).select = "zero" /\ Believed(r).csw = cache.csw
           /\ r.reg = "CSW" => Believed(r).csw = r.value /\ Believed(r).select = cache.select
           /\ r.reg \notin {"SELECT", "CSW"} => Believed(r) = cache
<1>1. cache \in Beliefs
  BY Typed
<1>2. r.reg = "SELECT" => r.value = "zero"
  BY DEF Transfer
<1>3. r.reg = "CSW" => r.value \in {"byte", "word"}
  BY DEF Transfer
<1>4. \A v \in {"byte", "word"} :
        LET u == [cache EXCEPT !.csw = v] IN u \in Beliefs /\ u.csw = v /\ u.select = cache.select
  BY <1>1 DEF Beliefs
<1>5. LET u == [cache EXCEPT !.select = "zero"] IN
      u \in Beliefs /\ u.select = "zero" /\ u.csw = cache.csw
  BY <1>1 DEF Beliefs
<1>6. CASE r.reg = "SELECT"
  <2>1. Believed(r) = [cache EXCEPT !.select = "zero"]
    BY <1>2, <1>6 DEF Believed
  <2> QED
    BY <1>5, <1>6, <2>1
<1>7. CASE r.reg = "CSW"
  <2>1. Believed(r) = [cache EXCEPT !.csw = r.value]
    BY <1>7 DEF Believed
  <2> QED
    BY <1>3, <1>4, <1>7, <2>1
<1>8. CASE r.reg \notin {"SELECT", "CSW"}
  <2>1. Believed(r) = cache
    BY <1>8 DEF Believed
  <2> QED
    BY <1>1, <1>8, <2>1
<1> QED
  BY <1>6, <1>7, <1>8

-----------------------------------------------------------------------------
(***************************************************************************)
(* The steps of a call.                                                    *)
(***************************************************************************)

\* The head of the list, and the rest.
LEMMA HeadIs ==
    ASSUME NEW s \in Seq(Transfer), s # <<>>
    PROVE  /\ Len(s) \in Nat \ {0} /\ Head(s) = s[1] /\ Head(s) \in Transfer
           /\ Tail(s) \in Seq(Transfer) /\ Len(Tail(s)) = Len(s) - 1
           /\ \A i \in 1 .. Len(s) - 1 : Tail(s)[i] = s[i + 1]
<1>1. Len(s) \in Nat
  OBVIOUS
<1>2. Len(s) # 0
  BY EmptySeq
<1>3. Head(s) = s[1] /\ Tail(s) \in Seq(Transfer) /\ Len(Tail(s)) = Len(s) - 1
      /\ \A i \in 1 .. Len(s) - 1 : Tail(s)[i] = s[i + 1]
  BY HeadTailProperties
<1>4. s[1] \in Transfer
  BY <1>1, <1>2, ElementOfSeq
<1> QED
  BY <1>1, <1>2, <1>3, <1>4

\* The call does not matter to what is unchanged.
LEMMA SameTypes ==
    ASSUME SwdTypeOK, mem' \in [Addrs -> Byte], target' \in Ports, cache' \in Beliefs,
           tries' \in 0 .. MaxRetry, polls' \in 0 .. MaxPolls - 1,
           status' \in {"new", "running", "true", "false", "crashed"},
           call' = call, next' = next, got' \in Seq(Byte \union {Junk}), Len(got') <= call.size,
           trusted' \in BOOLEAN, repeated' \in BOOLEAN
    PROVE  SwdTypeOK'
<1>1. /\ call \in Calls \union {Never, [Never EXCEPT !.op = "connect"]}
      /\ next \in call.addr .. call.addr + call.size
  BY Typed
<1> QED
  BY <1>1 DEF SwdTypeOK, Ports, Beliefs

\* A call that fails leaves nothing to trust.
LEMMA Failing ==
    ASSUME MemoryIInv, NEW what \in {"false", "crashed"}, Fails(what), mem' \in [Addrs -> Byte],
           target' \in Ports, cache' \in Beliefs, repeated' \in BOOLEAN
    PROVE  MemoryIInv'
<1>1. /\ status' = what /\ todo' = <<>> /\ tries' = 0 /\ trusted' = FALSE
      /\ polls' = polls /\ call' = call /\ next' = next /\ got' = got
  BY DEF Fails
<1>2. SwdTypeOK /\ OneWord
  BY DEF MemoryIInv
<1>3. /\ got \in Seq(Byte \union {Junk}) /\ Len(got) <= call.size /\ polls \in 0 .. MaxPolls - 1
      /\ 0 \in 0 .. MaxRetry
  BY <1>2, Typed, Sizes
<1>4. SwdTypeOK'
  BY <1>1, <1>2, <1>3, SameTypes
<1>5. CacheOK' /\ OneWord'
  BY <1>1, <1>2 DEF CacheOK, OneWord
<1>6. todo' \in Seq(Transfer)
  BY <1>1
<1>7. status' # "running" /\ status' # "true"
  BY <1>1
<1>8. ~InCall'
  BY <1>7 DEF InCall
<1> QED
  BY <1>1, <1>4, <1>5, <1>6, <1>7, <1>8 DEF MemoryIInv

\* The transfer of a piece that is next.
LEMMA PieceHead ==
    ASSUME NEW p \in Nat, NEW a, NEW w \in Nat \ {0}, NEW size,
           NEW s \in Seq(Transfer), s # <<>>,
           AreLeft(call, s, p, a, w, size)
    PROVE  /\ IsNth(call, Head(s), p + 1, a, w, size)
           /\ AreLeft(call, Tail(s), p + 1, a, w, size)
<1>1. /\ Len(s) \in Nat \ {0} /\ Head(s) = s[1]
      /\ Len(Tail(s)) = Len(s) - 1
      /\ \A i \in 1 .. Len(s) - 1 : Tail(s)[i] = s[i + 1]
  BY HeadIs
<1>2. \A i \in 1 .. Len(s) : IsNth(call, s[i], p + i, a, w, size)
  BY DEF AreLeft
<1>3. IsNth(call, s[1], p + 1, a, w, size)
  BY <1>1, <1>2
<1>4. ASSUME NEW i \in 1 .. Len(Tail(s)) PROVE IsNth(call, Tail(s)[i], (p + 1) + i, a, w, size)
  <2>1. i \in 1 .. Len(s) - 1 /\ i + 1 \in 1 .. Len(s) /\ p + (i + 1) = (p + 1) + i
    BY <1>1
  <2>2. IsNth(call, s[i + 1], p + (i + 1), a, w, size)
    BY <1>2, <2>1
  <2> QED
    BY <1>1, <2>1, <2>2
<1> QED
  BY <1>1, <1>3, <1>4 DEF AreLeft

\* A call that is not init_debug is one of the user's.
LEMMA UserCall ==
    ASSUME MemoryIInv, InCall, ~Connecting
    PROVE  call \in Calls
<1>1. call \in Calls \union {Never, [Never EXCEPT !.op = "connect"]} /\ call # Never
  BY Typed DEF MemoryIInv
<1>2. [Never EXCEPT !.op = "connect"].op = "connect"
  BY DEF Never
<1> QED
  BY <1>1, <1>2 DEF Connecting

\* What is known of a piece that is under way.
PieceKnown(p, a, w, size) ==
    /\ a \in Addrs /\ a \in Nat /\ w \in Nat \ {0} /\ w \in 1 .. Page /\ size \in {"byte", "word"}
    /\ p \in Nat /\ p <= w + 4 /\ Len(todo) = (w + 5) - p
    /\ InPiece(p, a, w, size)
    /\ IsNth(call, Head(todo), p + 1, a, w, size)
    /\ AreLeft(call, Tail(todo), p + 1, a, w, size)

\* A call that has transfers left stands somewhere in a piece of it, and what is left is
\* what that place says.
LEMMA InSomePiece ==
    ASSUME MemoryIInv, InCall, ~Connecting, todo # <<>>
    PROVE  \E p \in Nat, a \in Addrs, w \in 1 .. Page, size \in {"byte", "word"} :
             PieceKnown(p, a, w, size)
<1>1. SomePiece /\ todo \in Seq(Transfer)
  BY DEF MemoryIInv
<1>2. PICK p \in 0 .. Page + 4, a \in Addrs, w \in 1 .. Page, size \in {"byte", "word"} :
        Len(todo) + p = w + 5 /\ InPiece(p, a, w, size)
  BY <1>1 DEF SomePiece
<1>3. Len(todo) \in Nat \ {0}
  BY <1>1, HeadIs
<1>4. w \in Nat \ {0} /\ a \in Nat
  BY Sizes
<1>5. p \in Nat /\ p <= w + 4 /\ Len(todo) = (w + 5) - p
  BY <1>2, <1>3, <1>4, Sizes
<1>6. InPiece(p, a, w, size)
  BY <1>2
<1>7. AreLeft(call, todo, p, a, w, size)
  BY <1>6 DEF InPiece
<1>8. /\ IsNth(call, Head(todo), p + 1, a, w, size)
      /\ AreLeft(call, Tail(todo), p + 1, a, w, size)
  BY <1>1, <1>4, <1>5, <1>7, PieceHead
<1> QED
  BY <1>4, <1>5, <1>6, <1>8 DEF PieceKnown

\* A transfer that is tried again, with all as it was but for what a read of
\* DRW does to the ports.
LEMMA Again ==
    ASSUME MemoryIInv, InCall, todo # <<>>, Exchange(Head(todo)), tries' \in 1 .. MaxRetry,
           mem' = mem, target' \in Ports,
           target'.select = target.select, target'.csw = target.csw, target'.sticky = target.sticky,
           UNCHANGED <<todo, polls, call, status, next, got, trusted>>,
           (target' = target /\ repeated' = repeated)
             \/ (repeated' = TRUE /\ Head(todo).reg = "DRW" /\ ~Head(todo).write)
    PROVE  MemoryIInv'
<1> DEFINE r == Head(todo)
<1>1. SwdTypeOK /\ todo \in Seq(Transfer) /\ OneWord /\ CacheOK /\ r \in Transfer
  BY HeadIs DEF MemoryIInv
<1>2. cache' = Believed(r) /\ (tries > 0 \/ ~Cached(r))
  BY DEF Exchange
<1>3. /\ cache' \in Beliefs
      /\ r.reg = "SELECT" => cache'.select = "zero" /\ cache'.csw = cache.csw
      /\ r.reg = "CSW" => cache'.csw = r.value /\ cache'.select = cache.select
      /\ r.reg \notin {"SELECT", "CSW"} => cache' = cache
  BY <1>1, <1>2, BelievedIs
<1>4. /\ mem \in [Addrs -> Byte] /\ polls \in 0 .. MaxPolls - 1 /\ MaxRetry \in Nat
      /\ status \in {"new", "running", "true", "false", "crashed"}
      /\ got \in Seq(Byte \union {Junk}) /\ Len(got) <= call.size
      /\ trusted \in BOOLEAN /\ repeated \in BOOLEAN /\ tries' \in 0 .. MaxRetry
      /\ tries \in Nat
  BY <1>1, Typed, Sizes
<1>5. SwdTypeOK'
  <2>1. repeated' \in BOOLEAN
    BY <1>4
  <2> QED
    BY <1>1, <1>3, <1>4, <2>1, SameTypes
<1>6. OneWord' /\ todo' \in Seq(Transfer)
  BY <1>1 DEF OneWord
<1>7. CacheOK'
  <2>1. SUFFICES ASSUME trusted, ~target.sticky
                 PROVE  /\ cache'.select = "zero" /\ ~Trying("SELECT")' => target.select = "zero"
                        /\ cache'.csw # "fake" /\ ~Trying("CSW")' => target.csw = cache'.csw
    BY DEF CacheOK
  <2>2. /\ Trying("SELECT")' <=> r.reg = "SELECT"
        /\ Trying("CSW")' <=> r.reg = "CSW"
    BY <1>4 DEF Trying
  <2>3. /\ r.reg # "SELECT" => ~Trying("SELECT")
        /\ r.reg # "CSW" => ~Trying("CSW")
    BY DEF Trying
  <2>4. /\ cache.select = "zero" /\ ~Trying("SELECT") => target.select = "zero"
        /\ cache.csw # "fake" /\ ~Trying("CSW") => target.csw = cache.csw
    BY <1>1, <2>1 DEF CacheOK
  <2> HIDE DEF r
  <2> QED
    BY <1>3, <2>2, <2>3, <2>4
<1>8. InCall' /\ status' # "true" /\ call' # Never /\ todo' # <<>>
  BY <1>1 DEF InCall, MemoryIInv
<1>9. CASE Connecting
  <2>1. InConnect
    BY <1>9 DEF MemoryIInv
  <2>2. Len(todo) >= 6 => r.reg \in {"IDCODE", "ABORT"}
    <3>1. r = todo[1] /\ Len(todo) \in Nat \ {0}
      BY <1>1, HeadIs
    <3>2. Len(todo) <= 7 /\ r = ConnectPlan[(7 - Len(todo)) + 1]
      BY <2>1, <3>1 DEF InConnect
    <3>3. ConnectPlan[1] = Fetch("IDCODE", "none") /\ ConnectPlan[2] = Request("ABORT", "clear")
      BY DEF ConnectPlan
    <3>4. Fetch("IDCODE", "none").reg = "IDCODE" /\ Request("ABORT", "clear").reg = "ABORT"
      BY DEF Fetch, Request
    <3> HIDE DEF r
    <3>5. ASSUME Len(todo) >= 6 PROVE r \in {ConnectPlan[1], ConnectPlan[2]}
      <4>1. Len(todo) = 6 \/ Len(todo) = 7
        <5> DEFINE n == Len(todo)
        <5>1. n \in Nat /\ n <= 7 /\ n >= 6
          BY <3>1, <3>2, <3>5
        <5> HIDE DEF n
        <5>2. n = 6 \/ n = 7
          BY <5>1
        <5> QED
          BY <5>2 DEF n
      <4>2. (7 - 6) + 1 = 2 /\ (7 - 7) + 1 = 1
        OBVIOUS
      <4> QED
        BY <3>2, <4>1, <4>2
    <3> QED
      BY <3>3, <3>4, <3>5
  <2>3. r.reg # "CSW"
    <3>1. r = todo[1] /\ Len(todo) \in Nat \ {0}
      BY <1>1, HeadIs
    <3>2. Len(todo) <= 7 /\ r = ConnectPlan[(7 - Len(todo)) + 1]
      BY <2>1, <3>1 DEF InConnect
    <3>3. (7 - Len(todo)) + 1 \in 1 .. 7
      BY <3>1, <3>2
    <3>4. \A i \in 1 .. 7 : ConnectPlan[i].reg # "CSW"
      BY DEF ConnectPlan, Fetch, Request
    <3> HIDE DEF r
    <3> QED
      BY <3>2, <3>3, <3>4
  <2>4. InConnect'
    BY <1>3, <2>1, <2>2, <2>3 DEF InConnect
  <2>5. Connecting'
    BY <1>9 DEF Connecting
  <2> QED
    BY <1>5, <1>6, <1>7, <1>8, <2>4, <2>5 DEF MemoryIInv
<1>10. CASE ~Connecting
  <2>1. PICK p \in Nat, a \in Addrs, w \in 1 .. Page, size \in {"byte", "word"} :
          PieceKnown(p, a, w, size)
    BY <1>8, <1>10, InSomePiece
  <2>2. /\ IsPiece(call, next, a, w, size) /\ AreLeft(call, todo, p, a, w, size)
        /\ p >= 1 => cache.select = "zero"
        /\ p >= 2 => cache.csw = size
        /\ ReadTo(a + KeptAfter(p, size)) /\ WrittenTo(a)
        /\ ~target.sticky => WrittenTo(a + (DoneAfter(p, w) * Unit(size)))
        /\ InStep => PortsAt(call, mem, target, p, a, w, size)
    BY <2>1 DEF PieceKnown, InPiece
  <2>3. /\ p \in Nat /\ w \in Nat \ {0} /\ p <= w + 4 /\ IsNth(call, r, p + 1, a, w, size)
        /\ Len(todo) = (w + 5) - p
    BY <2>1 DEF PieceKnown
  <2>4. p >= 1 => cache'.select = "zero"
    BY <1>3, <2>2
  <2>5. p >= 2 => cache'.csw = size
    <3> SUFFICES ASSUME p >= 2 PROVE r.reg # "CSW"
      BY <1>3, <2>2
    <3>1. p + 1 = 3 \/ p + 1 = 4 \/ p + 1 = w + 5 \/ p + 1 \in 5 .. w + 4
      BY <2>3
    <3> HIDE DEF r
    <3>2. \/ r \in {RdBuff, NullWrite, Request("TAR", a), Fetch("RDBUFF", size)}
          \/ \E v : r = Request("DRW", v)
          \/ \E k : r = Fetch("DRW", k)
      BY <2>3, <3>1, NthIs
    <3> QED
      BY <3>2 DEF RdBuff, NullWrite, Request, Fetch
  <2>6. ReadTo(a + KeptAfter(p, size))' /\ WrittenTo(a)'
    BY <2>2 DEF ReadTo, WrittenTo, Reading, Writing
  <2>7. ~target'.sticky => WrittenTo(a + (DoneAfter(p, w) * Unit(size)))'
    BY <2>2 DEF WrittenTo, Writing
  <2>8. InStep' => PortsAt(call', mem', target', p, a, w, size)
    <3>1. CASE target' = target /\ repeated' = repeated
      BY <2>2, <3>1 DEF InStep, Writing
    <3>2. CASE repeated' = TRUE /\ r.reg = "DRW" /\ ~r.write
      <4>1. ~Writing
        <5> SUFFICES ASSUME Writing PROVE FALSE
          OBVIOUS
        <5>1. p + 1 = 1 \/ p + 1 = 2 \/ p + 1 = 3 \/ p + 1 = 4 \/ p + 1 = w + 5 \/ p + 1 \in 5 .. w + 4
          BY <2>3
        <5>2. call \in Calls
          BY <1>10, UserCall
        <5>3. ~Reading
          BY <5>2, CallIs
        <5> HIDE DEF r
        <5>4. \/ r \in {Request("SELECT", "zero"), Request("CSW", size), RdBuff, NullWrite, Request("TAR", a)}
              \/ \E v : r = Request("DRW", v)
          BY <2>3, <5>1, <5>3, NthIs
        <5> QED
          BY <3>2, <5>4 DEF RdBuff, NullWrite, Request, Fetch
      <4> QED
        BY <3>2, <4>1 DEF InStep, Writing
    <3> QED
      BY <3>1, <3>2
  <2>9. IsPiece(call', next', a, w, size) /\ AreLeft(call', todo', p, a, w, size)
    BY <2>2
  <2>10. InPiece(p, a, w, size)'
    BY <2>4, <2>5, <2>6, <2>7, <2>8, <2>9 DEF InPiece
  <2>11. Len(todo') + p = w + 5 /\ p \in 0 .. Page + 4
    <3>1. Len(todo) \in Nat /\ Page \in Nat /\ w <= Page
      BY <1>1, HeadIs, Sizes
    <3> QED
      BY <2>3, <3>1
  <2>12. SomePiece'
    BY <2>10, <2>11 DEF SomePiece
  <2>13. ~Connecting'
    BY <1>10 DEF Connecting
  <2> QED
    BY <1>5, <1>6, <1>7, <1>8, <2>12, <2>13 DEF MemoryIInv
<1> QED
  BY <1>9, <1>10

\* A transfer of a piece that is done, given what it leaves.
LEMMA Forward ==
    ASSUME MemoryIInv, InCall, ~Connecting, todo # <<>>,
           NEW p \in Nat, NEW a \in Addrs, NEW w \in 1 .. Page, NEW size \in {"byte", "word"},
           PieceKnown(p, a, w, size),
           todo' = Tail(todo), tries' = 0,
           UNCHANGED <<polls, call, status, next, trusted, repeated>>,
           mem' \in [Addrs -> Byte], target' \in Ports, cache' \in Beliefs,
           got' \in Seq(Byte \union {Junk}), Len(got') <= call.size,
           cache'.select = "zero", p >= 1 => cache'.csw = size,
           CacheOK', ReadTo(a + KeptAfter(p + 1, size))', WrittenTo(a)',
           ~target'.sticky => WrittenTo(a + (DoneAfter(p + 1, w) * Unit(size)))',
           InStep' => PortsAt(call, mem', target', p + 1, a, w, size),
           p = w + 4 => ~target'.sticky
    PROVE  MemoryIInv'
<1>1. SwdTypeOK /\ todo \in Seq(Transfer) /\ OneWord
  BY DEF MemoryIInv
<1>2. /\ Tail(todo) \in Seq(Transfer) /\ Len(Tail(todo)) = Len(todo) - 1 /\ Len(todo) \in Nat \ {0}
  BY <1>1, HeadIs
<1>3. /\ polls \in 0 .. MaxPolls - 1 /\ 0 \in 0 .. MaxRetry
      /\ status \in {"new", "running", "true", "false", "crashed"}
      /\ trusted \in BOOLEAN /\ repeated \in BOOLEAN
  BY <1>1, Typed, Sizes
<1>4. SwdTypeOK'
  BY <1>1, <1>3, SameTypes
<1>5. OneWord' /\ todo' \in Seq(Transfer)
  BY <1>1, <1>2 DEF OneWord
<1>6. InCall' /\ status' # "true" /\ call' # Never /\ ~Connecting'
  BY DEF InCall, MemoryIInv, Connecting
<1>7. /\ p \in Nat /\ w \in Nat \ {0} /\ p <= w + 4 /\ Len(todo) = (w + 5) - p
      /\ IsPiece(call, next, a, w, size) /\ AreLeft(call, Tail(todo), p + 1, a, w, size)
  BY DEF PieceKnown, InPiece
<1>8. CASE p = w + 4
  <2>1. Len(Tail(todo)) = 0
    BY <1>2, <1>7, <1>8
  <2>2. todo' = <<>>
    BY <1>2, <2>1, EmptySeq
  <2>3. next = a + (w * Unit(size))
    BY <1>7 DEF IsPiece
  <2>4. KeptAfter(p + 1, size) = w * Unit(size) /\ DoneAfter(p + 1, w) = w
    BY <1>7, <1>8 DEF KeptAfter, DoneAfter
  <2>5. a + KeptAfter(p + 1, size) = next /\ a + (DoneAfter(p + 1, w) * Unit(size)) = next
    BY <2>3, <2>4
  <2>6. ReadTo(next)' /\ WrittenTo(next)'
    <3> DEFINE x == a + KeptAfter(p + 1, size)
               y == a + (DoneAfter(p + 1, w) * Unit(size))
    <3>1. ReadTo(x)' /\ WrittenTo(y)'
      BY <1>8
    <3>2. next' = x /\ next' = y
      BY <2>5
    <3> HIDE DEF x, y
    <3> QED
      BY <3>1, <3>2 DEF ReadTo, WrittenTo
  <2>7. Between'
    BY <2>2, <2>6 DEF Between
  <2> QED
    BY <1>4, <1>5, <1>6, <2>2, <2>7 DEF MemoryIInv
<1>9. CASE p # w + 4
  <2>1. Len(Tail(todo)) # 0
    BY <1>2, <1>7, <1>9
  <2>2. todo' # <<>>
    BY <1>2, <2>1, EmptySeq
  <2> DEFINE q == p + 1
  <2>3. Len(todo') + q = w + 5 /\ q \in 0 .. Page + 4 /\ q >= 1 /\ (q >= 2 => p >= 1)
    BY <1>2, <1>7, <1>9, Sizes
  <2>4. IsPiece(call', next', a, w, size) /\ AreLeft(call', todo', q, a, w, size)
    BY <1>7
  <2>5. InPiece(q, a, w, size)'
    BY <2>3, <2>4 DEF InPiece
  <2> HIDE DEF q
  <2>6. SomePiece'
    BY <2>3, <2>5 DEF SomePiece
  <2> QED
    BY <1>4, <1>5, <1>6, <2>2, <2>6 DEF MemoryIInv
<1> QED
  BY <1>8, <1>9

-----------------------------------------------------------------------------
(***************************************************************************)
(* The accesses of a piece.                                                *)
(***************************************************************************)

\* The k-th access of a piece is in the page, the call and the memory.
AccessAt(x, a, w, k, size) ==
    /\ x \in Addrs /\ x \in Nat /\ a <= x /\ call.addr <= x
    /\ x + Unit(size) <= call.addr + call.size
    /\ (x % Page) + Unit(size) <= Page
    /\ k + 1 < w => (x % Page) + Unit(size) < Page
    /\ size = "word" => x % WordSize = 0

\* An element of a piece lies in the memory and in the range of the call, and the address
\* register has not left the page before the last one.
LEMMA Accesses ==
    ASSUME call \in Calls, NEW a \in Addrs, NEW w \in Nat \ {0}, NEW size \in {"byte", "word"},
           IsPiece(call, next, a, w, size), NEW k \in Nat, k < w
    PROVE  AccessAt(a + (k * Unit(size)), a, w, k, size)
<1> DEFINE u == Unit(size)
           o == k * u
           x == a + o
<1>1. u \in Nat /\ u >= 1 /\ a \in Nat /\ WordSize \in Nat \ {0} /\ Page \in Nat \ {0}
  BY Sizes DEF Unit
<1>2. o \in Nat /\ o + u <= w * u /\ (k + 1 < w => o + u < w * u)
  <2>1. o + u = (k + 1) * u /\ o \in Nat
    BY <1>1
  <2>2. (k + 1) * u <= w * u
    BY <1>1
  <2>3. ASSUME k + 1 < w PROVE (k + 1) * u + u <= w * u
    <3>1. (k + 2) * u <= w * u /\ (k + 2) * u = (k + 1) * u + u
      BY <1>1, <2>3
    <3> QED
      BY <3>1
  <2> DEFINE e == (k + 1) * u
             f == w * u
  <2>4. e \in Nat /\ f \in Nat
    BY <1>1
  <2> HIDE DEF e, f, o, u
  <2>5. o + u = e /\ e <= f /\ (k + 1 < w => e + u <= f)
    BY <2>1, <2>2, <2>3 DEF e, f, u, o
  <2>6. o \in Nat /\ o + u <= f /\ (k + 1 < w => o + u < f)
    BY <1>1, <2>1, <2>4, <2>5
  <2> QED
    BY <2>6 DEF f
<1>3. /\ (a % Page) + (w * u) <= Page /\ call.addr <= a /\ next = a + (w * u)
      /\ next <= call.addr + call.size /\ (size = "word" => a % WordSize = 0)
  BY DEF IsPiece
<1>4. size = "word" => o % WordSize = 0
  <2> SUFFICES ASSUME size = "word" PROVE o % WordSize = 0
    OBVIOUS
  <2>a. u = WordSize
    BY DEF Unit
  <2> HIDE DEF u
  <2>b. k * WordSize = WordSize * k + 0 /\ 0 \in 0 .. WordSize - 1
    BY <1>1
  <2>1. o = WordSize * k + 0 /\ 0 \in 0 .. WordSize - 1
    BY <2>a, <2>b
  <2> QED
    BY <1>1, <1>2, <2>1, OneRemainder
<1>5. a % Page \in Nat
  BY <1>1, Divides
<1> DEFINE f == w * u
<1>6. f \in Nat
  BY <1>1
<1> HIDE DEF u, o, f
<1>7. /\ o + u <= f /\ (k + 1 < w => o + u < f) /\ (a % Page) + f <= Page
      /\ next = a + f
  BY <1>2, <1>3 DEF f
<1>8. x \in Nat /\ a <= x /\ call.addr <= x /\ x + u <= call.addr + call.size
  BY <1>1, <1>2, <1>3, <1>6, <1>7, CallIs
<1>9. x \in Addrs
  <2>1. x < call.addr + call.size
    BY <1>1, <1>8, CallIs
  <2> QED
    BY <1>8, <2>1, CallIs
<1>10. x % Page = (a % Page) + o
  <2>1. (a % Page) + o < Page
    BY <1>1, <1>2, <1>5, <1>6, <1>7
  <2> QED
    BY <1>1, <1>2, <2>1, StepInside
<1>11. (x % Page) + u <= Page /\ (k + 1 < w => (x % Page) + u < Page)
  <2> HIDE DEF x
  <2> QED
    BY <1>1, <1>2, <1>5, <1>6, <1>7, <1>10
<1>12. size = "word" => x % WordSize = 0
  BY <1>1, <1>2, <1>3, <1>4, Multiples
<1>13. AccessAt(x, a, w, k, size)
  BY <1>8, <1>9, <1>11, <1>12 DEF AccessAt, u
<1> QED
  BY <1>13 DEF x, o, u

\* The bytes of an access are on the lanes of their addresses.
LEMMA LanesOf ==
    ASSUME NEW x \in Nat, NEW size \in {"byte", "word"}, size = "word" => x % WordSize = 0
    PROVE  /\ (x % WordSize) + Unit(size) <= WordSize
           /\ \A i \in 0 .. Unit(size) - 1 :
                /\ i \in Nat /\ (x % WordSize) + i < WordSize
                /\ (x + i) % WordSize = (x % WordSize) + i
<1> DEFINE s == x % WordSize
           u == Unit(size)
<1>1. WordSize \in Nat \ {0} /\ WordSize \in Nat /\ s \in 0 .. WordSize - 1
  BY Sizes, Divides
<1>2. u \in Nat /\ (u = 1 \/ (u = WordSize /\ s = 0))
  BY <1>1 DEF Unit
<1> HIDE DEF s, u
<1>3. s + u <= WordSize
  BY <1>1, <1>2
<1>4. ASSUME NEW i \in 0 .. u - 1 PROVE i \in Nat /\ s + i < WordSize
  BY <1>1, <1>2, <1>3
<1>5. ASSUME NEW i \in 0 .. u - 1 PROVE (x + i) % WordSize = s + i
  <2>1. (x % WordSize) + i < WordSize /\ i \in Nat
    BY <1>4 DEF s
  <2> QED
    BY <1>1, <2>1, StepInside DEF s
<1>6. /\ s + u <= WordSize
      /\ \A i \in 0 .. u - 1 : i \in Nat /\ s + i < WordSize /\ (x + i) % WordSize = s + i
  BY <1>3, <1>4, <1>5
<1> QED
  BY <1>6 DEF s, u

\* What the ports do when they are where the host thinks.
LEMMA PortsDo ==
    ASSUME SwdTypeOK, NEW x \in Nat, NEW size \in {"byte", "word"}, size = "word" => x % WordSize = 0,
           target.tar = x, target.csw = size
    PROVE  /\ Width = Unit(size) /\ Base = x
           /\ (x % Page) + Unit(size) < Page => Advanced = x + Unit(size)
           /\ OnLanes(mem, Fetched, x, size)
<1>1. Width = Unit(size) /\ Unit(size) \in Nat
  BY Sizes DEF Width, Unit
<1>2. Base = x
  <2>1. CASE size = "word"
    <3>1. x % Width = 0
      BY <1>1, <2>1 DEF Unit
    <3> QED
      BY <3>1 DEF Base
  <2>2. CASE size = "byte"
    <3>1. Width = 1 /\ x % 1 = 0
      <4>1. x = 1 * x + 0 /\ 1 \in Nat \ {0} /\ 0 \in 0 .. 1 - 1 /\ x \in Int
        OBVIOUS
      <4>2. x % 1 = 0
        BY <4>1, OneRemainder
      <4> QED
        BY <1>1, <2>2, <4>2 DEF Unit
    <3> QED
      BY <3>1 DEF Base
  <2> QED
    BY <2>1, <2>2
<1>3. ASSUME (x % Page) + Unit(size) < Page PROVE Advanced = x + Unit(size)
  <2> DEFINE u == Unit(size)
             o == x % Page
  <2>1. Page \in Nat \ {0} /\ Page \in Nat /\ o \in 0 .. Page - 1
    BY Sizes, Divides
  <2>2. (x + u) % Page = o + u
    BY <1>1, <1>3, <2>1, StepInside
  <2>3. Advanced = (x - o) + (o + u)
    BY <1>1, <2>2 DEF Advanced
  <2> HIDE DEF u, o
  <2>4. u \in Nat
    BY <1>1 DEF u
  <2>5. Advanced = x + u
    BY <2>1, <2>3, <2>4
  <2> QED
    BY <2>5 DEF u
<1>4. OnLanes(mem, Fetched, x, size)
  <2> DEFINE s == x % WordSize
  <2>1. s \in 0 .. WordSize - 1 /\ WordSize \in Nat
    BY Sizes, Divides
  <2>2. ASSUME NEW i \in 0 .. Unit(size) - 1 PROVE Fetched[(x + i) % WordSize] = mem[x + i]
    <3>1. i \in Nat /\ s + i < WordSize /\ (x + i) % WordSize = s + i
      BY LanesOf
    <3> HIDE DEF s
    <3> DEFINE l == s + i
    <3>2. l \in Lanes
      BY <2>1, <3>1 DEF Lanes
    <3>3. size = "word" \/ l = s
      <4>1. size = "byte" => i = 0
        BY DEF Unit
      <4> QED
        BY <2>1, <4>1
    <3>4. (x - s) + l = x + i
      BY <2>1, <3>1
    <3> HIDE DEF l
    <3>5. Fetched[l] = mem[(x - s) + l]
      BY <3>2, <3>3 DEF Fetched, s
    <3> QED
      BY <3>1, <3>4, <3>5 DEF l
  <2> QED
    BY <2>2 DEF OnLanes
<1> QED
  BY <1>1, <1>2, <1>3, <1>4

\* What is in the memory after a write of the call's bytes.
LEMMA StoredIs ==
    ASSUME SwdTypeOK, call \in Calls, Writing, NEW x \in Nat, NEW size \in {"byte", "word"},
           size = "word" => x % WordSize = 0, target.tar = x, target.csw = size,
           call.addr <= x, x + Unit(size) <= call.addr + call.size
    PROVE  LET m == Stored(Laned(call.data, call.addr, x, Unit(size))) IN
           \A b \in Addrs : m[b] = IF x <= b /\ b < x + Unit(size)
                                     THEN call.data[(b - call.addr) + 1] ELSE mem[b]
<1> DEFINE u == Unit(size)
           v == Laned(call.data, call.addr, x, u)
           m == Stored(v)
<1>1. Width = u /\ Base = x
  BY PortsDo
<1>2. u \in Nat \ {0} /\ u \in Nat
  BY Sizes DEF Unit
<1>3. \A i \in 0 .. u - 1 : v[(x + i) % WordSize] = call.data[((x + i) - call.addr) + 1]
  <2>1. (x % WordSize) + u <= WordSize
    BY LanesOf
  <2> HIDE DEF u
  <2> QED
    BY <1>2, <2>1, LanedIs DEF u
<1> HIDE DEF u, v
<1>4. ASSUME NEW b \in Addrs
      PROVE  m[b] = IF x <= b /\ b < x + u THEN call.data[(b - call.addr) + 1] ELSE mem[b]
  <2>1. b \in Nat
    BY Sizes
  <2>2. m[b] = IF b \in x .. x + u - 1 THEN v[b % WordSize] ELSE mem[b]
    BY <1>1 DEF Stored
  <2>3. b \in x .. x + u - 1 <=> x <= b /\ b < x + u
    BY <1>2, <2>1
  <2>4. ASSUME x <= b, b < x + u PROVE v[b % WordSize] = call.data[(b - call.addr) + 1]
    <3>1. b - x \in 0 .. u - 1 /\ x + (b - x) = b
      BY <1>2, <2>1, <2>4
    <3> QED
      BY <1>3, <3>1
  <2> QED
    BY <2>2, <2>3, <2>4
<1> QED
  BY <1>4 DEF v, u

\* What a read keeps is right, if the answer that was posted is.
LEMMA Keeping ==
    ASSUME SwdTypeOK, call \in Calls, Reading, NEW r, NEW p \in Nat, NEW a \in Addrs,
           NEW w \in Nat \ {0}, NEW size \in {"byte", "word"},
           IsPiece(call, next, a, w, size), r.keep = size, 5 <= p, p <= w + 4,
           call.addr + Len(got) = a + KeptAfter(p, size)
    PROVE  LET g == Kept(r, target.posted) IN
           /\ g \in Seq(Byte \union {Junk}) /\ Len(g) <= call.size
           /\ call.addr + Len(g) = a + KeptAfter(p + 1, size)
           /\ SameAs(call, mem, got)
                /\ OnLanes(mem, target.posted, a + ((p - 5) * Unit(size)), size)
              => SameAs(call, mem, g)
<1> DEFINE u == Unit(size)
           x == a + ((p - 5) * u)
           g == Kept(r, target.posted)
           v == target.posted
           S == Byte \union {Junk}
           n == Len(got)
<1>1. /\ u \in Nat \ {0} /\ u \in Nat /\ a \in Nat /\ call.addr \in Nat /\ call.size \in Nat
      /\ WordSize \in Nat \ {0} /\ WordSize \in Nat
  BY Sizes, CallIs DEF Unit
<1>2. got \in Seq(S) /\ n \in Nat /\ v \in [Lanes -> S]
  BY Typed DEF Ports, Word
<1>3. p - 5 \in Nat /\ p - 5 < w
  OBVIOUS
<1>4. AccessAt(x, a, w, p - 5, size)
  BY <1>3, Accesses
<1>5. /\ x \in Nat /\ x + u <= call.addr + call.size /\ (size = "word" => x % WordSize = 0)
      /\ call.addr <= x
  BY <1>4 DEF AccessAt
<1>6. KeptAfter(p, size) = (p - 5) * u /\ KeptAfter(p + 1, size) = (p - 5) * u + u
  <2>1. (p - 5) * u + u = (p - 4) * u /\ (p + 1) - 5 = p - 4 /\ ~(p + 1 <= 5) /\ (p = 5 => (p - 5) * u = 0)
    BY <1>1, <1>3
  <2>2. p <= 5 => p = 5
    OBVIOUS
  <2> QED
    BY <2>1, <2>2 DEF KeptAfter
<1>7. call.addr + n = x /\ a + KeptAfter(p + 1, size) = x + u
  <2> DEFINE o == (p - 5) * u
  <2>1. o \in Nat
    BY <1>1, <1>3
  <2>2. a + (o + u) = (a + o) + u
    BY <1>1, <2>1
  <2> QED
    BY <1>6, <2>2
<1> DEFINE Right(i) == v[(x + i) % WordSize]
<1>8. g \in Seq(S) /\ Len(g) = n + u /\ (\A i \in 1 .. n : g[i] = got[i])
      /\ \A i \in 0 .. u - 1 : g[n + 1 + i] = Right(i)
  <2> HIDE DEF x, g, v, n
  <2>1. CASE size = "byte"
    <3>1. u = 1
      BY <2>1 DEF Unit
    <3> DEFINE e == v[(next - 1) % WordSize]
    <3>2. next - 1 = x
      <4>1. next = a + (w * 1) /\ w = 1
        BY <2>1, <3>1 DEF IsPiece
      <4>2. x = a
        <5>1. p - 5 = 0
          BY <1>3, <4>1
        <5>2. 0 * u = 0 /\ a + 0 = a
          BY <1>1
        <5> QED
          BY <5>1, <5>2 DEF x
      <4> QED
        BY <1>1, <4>1, <4>2
    <3>3. g = Append(got, e)
      BY <2>1 DEF Kept, g, v
    <3>4. e \in S
      <4>1. x % WordSize \in Lanes
        BY <1>1, <1>5, Divides DEF Lanes
      <4> QED
        BY <1>2, <3>2, <4>1
    <3>5. e = Right(0)
      <4>1. x + 0 = x
        BY <1>5
      <4> QED
        BY <3>2, <4>1
    <3> HIDE DEF e, Right
    <3>6. g \in Seq(S) /\ Len(g) = n + 1 /\ (\A i \in 1 .. n : g[i] = got[i]) /\ g[n + 1] = e
      BY <1>2, <3>3, <3>4, AppendProperties DEF n
    <3>7. \A i \in 0 .. 1 - 1 : i = 0
      OBVIOUS
    <3>8. n + 1 + 0 = n + 1
      BY <1>2
    <3> QED
      BY <3>1, <3>5, <3>6, <3>7, <3>8
  <2>2. CASE size = "word"
    <3>1. u = WordSize
      BY <2>2 DEF Unit
    <3> DEFINE t == [i \in 1 .. WordSize |-> v[i - 1]]
    <3>2. g = got \o t
      BY <2>2 DEF Kept, g, v
    <3>3. t \in Seq(S) /\ Len(t) = WordSize /\ \A i \in 1 .. WordSize : t[i] = v[i - 1]
      <4>1. \A i \in 1 .. WordSize : i - 1 \in Lanes
        BY <1>1 DEF Lanes
      <4> QED
        BY <1>1, <1>2, <4>1
    <3> HIDE DEF t
    <3>4. Joined(S, g, got, n, t, WordSize)
      BY <1>1, <1>2, <3>2, <3>3, Catenated DEF n
    <3>5. ASSUME NEW i \in 0 .. u - 1 PROVE g[n + 1 + i] = Right(i)
      <4>1. i + 1 \in 1 .. WordSize /\ (i + 1) - 1 = i /\ n + (i + 1) = n + 1 + i
        BY <1>1, <1>2, <3>1
      <4>2. g[n + (i + 1)] = t[i + 1] /\ t[i + 1] = v[i]
        BY <3>3, <3>4, <4>1 DEF Joined
      <4>3. (x + i) % WordSize = i
        <5>1. (x + i) % WordSize = (x % WordSize) + i
          BY <1>5, LanesOf
        <5>2. 0 + i = i
          BY <1>1
        <5> QED
          BY <1>5, <2>2, <5>1, <5>2
      <4> QED
        BY <4>1, <4>2, <4>3
    <3> HIDE DEF Right
    <3>6. g \in Seq(S) /\ Len(g) = n + WordSize /\ \A i \in 1 .. n : g[i] = got[i]
      BY <3>4 DEF Joined
    <3> QED
      BY <3>1, <3>5, <3>6
  <2> QED
    BY <2>1, <2>2
<1>9. call.addr + Len(g) = x + u /\ Len(g) <= call.size
  <2> HIDE DEF x, g, n, u
  <2>1. call.addr + (n + u) = x + u /\ n + u <= call.size
    <3> DEFINE c == call.addr
               s == call.size
    <3>1. /\ c \in Nat /\ s \in Nat /\ u \in Nat /\ n \in Nat /\ x \in Nat
          /\ c + n = x /\ x + u <= c + s
      BY <1>1, <1>2, <1>5, <1>7
    <3> HIDE DEF c, s
    <3>2. c + (n + u) = x + u /\ n + u <= s
      BY <3>1
    <3> QED
      BY <3>2 DEF c, s
  <2> QED
    BY <1>8, <2>1
<1>10. ASSUME SameAs(call, mem, got), OnLanes(mem, v, x, size) PROVE SameAs(call, mem, g)
  <2>1. \A i \in 1 .. n : got[i] = mem[call.addr + (i - 1)]
    BY <1>10 DEF SameAs
  <2>2. \A i \in 0 .. u - 1 : Right(i) = mem[x + i]
    BY <1>10 DEF OnLanes
  <2> HIDE DEF x, g, n, u, v, Right
  <2>3. ASSUME NEW j \in 1 .. Len(g) PROVE g[j] = mem[call.addr + (j - 1)]
    <3>1. CASE j <= n
      <4>1. j \in 1 .. n
        BY <1>2, <3>1
      <4> QED
        BY <1>8, <2>1, <4>1
    <3>2. CASE ~(j <= n)
      <4> DEFINE i == j - (n + 1)
      <4>1. i \in 0 .. u - 1 /\ n + 1 + i = j /\ x + i = call.addr + (j - 1)
        BY <1>1, <1>2, <1>7, <1>8, <3>2
      <4> HIDE DEF i
      <4>2. g[n + 1 + i] = mem[x + i]
        BY <1>8, <2>2, <4>1
      <4> QED
        BY <4>1, <4>2
    <3> QED
      BY <3>1, <3>2
  <2> QED
    BY <2>3 DEF SameAs
<1>11. /\ g \in Seq(S) /\ Len(g) <= call.size /\ call.addr + Len(g) = a + KeptAfter(p + 1, size)
       /\ SameAs(call, mem, got) /\ OnLanes(mem, v, x, size) => SameAs(call, mem, g)
  <2>1. call.addr + Len(g) = a + KeptAfter(p + 1, size)
    BY <1>7, <1>9
  <2> HIDE DEF g, v, x
  <2> QED
    BY <1>8, <1>9, <1>10, <2>1
<1> QED
  BY <1>11 DEF g, v, x, u, S

\* The transfer that is next in a piece.
LEMMA KindIs ==
    ASSUME call \in Calls, NEW p \in Nat, NEW a \in Addrs, NEW w \in 1 .. Page,
           NEW size \in {"byte", "word"}, PieceKnown(p, a, w, size)
    PROVE  LET r == Head(todo) IN
           /\ p = 0 => r = Request("SELECT", "zero")
           /\ p = 1 => r = Request("CSW", size)
           /\ p = 2 => r = RdBuff
           /\ p = 3 => r = Request("TAR", a)
           /\ p \in 4 .. w + 3 /\ Writing =>
                r = Request("DRW", Laned(call.data, call.addr, a + ((p - 4) * Unit(size)), Unit(size)))
           /\ p \in 4 .. w + 3 /\ Reading => r = Fetch("DRW", IF p = 4 THEN "none" ELSE "word")
           /\ p = w + 4 /\ Writing => r \in {RdBuff, NullWrite}
           /\ p = w + 4 /\ Reading => r = Fetch("RDBUFF", size)
           /\ p = 0 \/ p = 1 \/ p = 2 \/ p = 3 \/ p \in 4 .. w + 3 \/ p = w + 4
<1> DEFINE r == Head(todo)
<1>1. p <= w + 4 /\ IsNth(call, r, p + 1, a, w, size) /\ w \in Nat \ {0}
  BY DEF PieceKnown
<1>2. ~(Reading /\ Writing)
  BY CallIs
<1> HIDE DEF r
<1>3. p = 0 \/ p = 1 \/ p = 2 \/ p = 3 \/ p \in 4 .. w + 3 \/ p = w + 4
  BY <1>1
<1>4. CASE p \in 4 .. w + 3
  <2>1. /\ p + 1 \in 5 .. w + 4 /\ (p + 1) - 5 = p - 4 /\ (p + 1 = 5 <=> p = 4)
        /\ p # 0 /\ p # 1 /\ p # 2 /\ p # 3 /\ p # w + 4
    BY <1>1, <1>4
  <2>2. IF Writing
          THEN r = Request("DRW", Laned(call.data, call.addr, a + ((p - 4) * Unit(size)), Unit(size)))
          ELSE r = Fetch("DRW", IF p = 4 THEN "none" ELSE "word")
    BY <1>1, <2>1, NthIs
  <2> QED
    BY <1>2, <1>3, <2>1, <2>2 DEF r
<1>5. CASE ~(p \in 4 .. w + 3)
  <2>1. /\ p = 0 => p + 1 = 1
        /\ p = 1 => p + 1 = 2
        /\ p = 2 => p + 1 = 3
        /\ p = 3 => p + 1 = 4
        /\ p = w + 4 => p + 1 = w + 5
    BY <1>1
  <2>2. /\ p = 0 => r = Request("SELECT", "zero")
        /\ p = 1 => r = Request("CSW", size)
        /\ p = 2 => r = RdBuff
        /\ p = 3 => r = Request("TAR", a)
    BY <1>1, <2>1, NthIs
  <2>3. p = w + 4 => IF Reading THEN r = Fetch("RDBUFF", size) ELSE r \in {RdBuff, NullWrite}
    BY <1>1, <2>1, NthIs
  <2> QED
    BY <1>2, <1>3, <1>5, <2>2, <2>3 DEF r
<1> QED
  BY <1>4, <1>5

\* The fields of a transfer.
LEMMA Fields ==
    /\ \A reg, value :
         /\ Request(reg, value).reg = reg /\ Request(reg, value).value = value
         /\ Request(reg, value).write = TRUE /\ Request(reg, value).keep = "none"
    /\ \A reg, keep :
         /\ Fetch(reg, keep).reg = reg /\ Fetch(reg, keep).write = FALSE
         /\ Fetch(reg, keep).keep = keep
    /\ RdBuff.reg = "RDBUFF" /\ RdBuff.write = FALSE /\ RdBuff.keep = "none"
    /\ NullWrite.reg = "DRW" /\ NullWrite.write = TRUE /\ NullWrite.keep = "null"
  BY DEF Request, Fetch, RdBuff, NullWrite

\* What the user has after a transfer of a piece.
LEMMA GotAfter ==
    ASSUME MemoryIInv, call \in Calls, NEW p \in Nat, NEW a \in Addrs, NEW w \in 1 .. Page,
           NEW size \in {"byte", "word"}, PieceKnown(p, a, w, size), ~target.sticky,
           Head(todo).keep # "null", got' = Kept(Head(todo), target.posted),
           UNCHANGED <<call, trusted, repeated>>, Reading => mem' = mem
    PROVE  /\ got' \in Seq(Byte \union {Junk}) /\ Len(got') <= call.size
           /\ ReadTo(a + KeptAfter(p + 1, size))'
<1> DEFINE r == Head(todo)
<1>1. /\ SwdTypeOK /\ got \in Seq(Byte \union {Junk}) /\ Len(got) <= call.size
  BY Typed DEF MemoryIInv
<1>2. /\ IsPiece(call, next, a, w, size) /\ ReadTo(a + KeptAfter(p, size)) /\ w \in Nat \ {0}
      /\ (InStep => PortsAt(call, mem, target, p, a, w, size)) /\ p <= w + 4
  BY DEF PieceKnown, InPiece
<1>3. ~(Reading /\ Writing)
  BY CallIs
<1>4. CASE Reading /\ p >= 5
  <2>1. r.keep = size
    <3> HIDE DEF r
    <3>1. CASE p = w + 4
      <4>1. r = Fetch("RDBUFF", size)
        BY <1>4, <3>1, KindIs DEF r
      <4> QED
        BY <4>1, Fields
    <3>2. CASE p # w + 4
      <4>1. p \in 4 .. w + 3 /\ p # 4 /\ w # 1
        BY <1>2, <1>4, <3>2
      <4>2. r = Fetch("DRW", "word")
        BY <1>4, <4>1, KindIs DEF r
      <4>3. size = "word"
        BY <1>2, <4>1 DEF IsPiece
      <4> QED
        BY <4>2, <4>3, Fields
    <3> QED
      BY <3>1, <3>2
  <2>2. call.addr + Len(got) = a + KeptAfter(p, size)
    BY <1>2, <1>4 DEF ReadTo
  <2> DEFINE g == Kept(r, target.posted)
  <2>3. /\ g \in Seq(Byte \union {Junk}) /\ Len(g) <= call.size
        /\ call.addr + Len(g) = a + KeptAfter(p + 1, size)
        /\ SameAs(call, mem, got)
             /\ OnLanes(mem, target.posted, a + ((p - 5) * Unit(size)), size)
           => SameAs(call, mem, g)
    <3> HIDE DEF r
    <3> QED
      BY <1>1, <1>2, <1>4, <2>1, <2>2, Keeping
  <2>4. ASSUME trusted, ~repeated PROVE SameAs(call, mem, g)
    <3>1. SameAs(call, mem, got)
      BY <1>2, <1>4, <2>4 DEF ReadTo
    <3>2. PortsAt(call, mem, target, p, a, w, size)
      BY <1>2, <2>4 DEF InStep
    <3>3. OnLanes(mem, target.posted, a + ((p - 5) * Unit(size)), size)
      BY <1>2, <1>4, <3>2 DEF PortsAt, Reading, IsReading
    <3> HIDE DEF g
    <3> QED
      BY <2>3, <3>1, <3>3
  <2>5. got' = g /\ mem' = mem
    BY <1>4
  <2> HIDE DEF g
  <2>6. ReadTo(a + KeptAfter(p + 1, size))'
    BY <2>3, <2>4, <2>5 DEF ReadTo
  <2> QED
    BY <2>3, <2>5, <2>6
<1>5. CASE ~(Reading /\ p >= 5)
  <2>1. r.keep = "none"
    <3>1. \/ r \in {Request("SELECT", "zero"), Request("CSW", size), RdBuff, Request("TAR", a), NullWrite}
          \/ r = Request("DRW", Laned(call.data, call.addr, a + ((p - 4) * Unit(size)), Unit(size)))
          \/ r = Fetch("DRW", "none")
      <4>1. Reading \/ Writing
        BY CallIs
      <4>2. p >= 5 \/ p \in 0 .. 4
        OBVIOUS
      <4>3. p = w + 4 => p >= 5
        BY <1>2
      <4>4. p \in 4 .. w + 3 /\ p \in 0 .. 4 => p = 4
        OBVIOUS
      <4> QED
        BY <1>5, <4>1, <4>2, <4>3, <4>4, KindIs
    <3>2. r.keep # "null"
      OBVIOUS
    <3> HIDE DEF r
    <3> QED
      BY <3>1, <3>2, Fields
  <2>2. got' = got
    BY <2>1 DEF Kept
  <2>3. ReadTo(a + KeptAfter(p + 1, size))'
    <3> SUFFICES ASSUME Reading PROVE ReadTo(a + KeptAfter(p + 1, size))'
      BY DEF ReadTo, Reading
    <3>1. KeptAfter(p + 1, size) = KeptAfter(p, size)
      BY <1>5 DEF KeptAfter
    <3>2. mem' = mem
      OBVIOUS
    <3> QED
      BY <1>2, <2>2, <3>1, <3>2 DEF ReadTo, Reading
  <2> QED
    BY <1>1, <2>2, <2>3
<1> QED
  BY <1>4, <1>5

\* A transfer the caches do not know leaves them right.
LEMMA CacheStays ==
    ASSUME CacheOK, todo # <<>>, Head(todo).reg \notin {"SELECT", "CSW"}, tries' = 0,
           cache' = cache, trusted' = trusted, target'.sticky = target.sticky,
           target'.select = target.select, target'.csw = target.csw
    PROVE  CacheOK'
<1>1. ~Trying("SELECT") /\ ~Trying("CSW")
  BY DEF Trying
<1> QED
  BY <1>1 DEF CacheOK

\* What the caches say of the ports in a piece.
LEMMA CacheTells ==
    ASSUME CacheOK, trusted, ~target.sticky, NEW p \in Nat, NEW a \in Addrs, NEW w \in 1 .. Page,
           NEW size \in {"byte", "word"}, PieceKnown(p, a, w, size), Head(todo).reg # "SELECT",
           p >= 1
    PROVE  /\ target.select = "zero"
           /\ p >= 2 /\ Head(todo).reg # "CSW" => target.csw = size
<1>1. ~Trying("SELECT") /\ (Head(todo).reg # "CSW" => ~Trying("CSW"))
  BY DEF Trying
<1>2. cache.select = "zero" /\ (p >= 2 => cache.csw = size) /\ size # "fake"
  BY DEF PieceKnown, InPiece
<1> QED
  BY <1>1, <1>2 DEF CacheOK

\* What is left alone of the memory stays written.
LEMMA NoStore ==
    ASSUME mem' = mem, call' = call, trusted' = trusted, NEW x
    PROVE  /\ WrittenTo(x) => WrittenTo(x)'
           /\ (trusted /\ Writing => PutTo(call, mem, x)) => WrittenTo(x)'
  BY DEF WrittenTo, Writing

\* What every transfer of a piece has that is taken.
TakenInPiece(p, a, w, size) ==
    /\ MemoryIInv /\ InCall /\ ~Connecting /\ call \in Calls /\ todo # <<>>
    /\ PieceKnown(p, a, w, size) /\ ~target.sticky
    /\ Head(todo).keep # "null" /\ cache' = Believed(Head(todo))
    /\ todo' = Tail(todo) /\ tries' = 0 /\ got' = Kept(Head(todo), target.posted)
    /\ UNCHANGED <<polls, call, status, next, trusted, repeated>>

\* It is next, and the host believes what it does.
LEMMA PieceFacts ==
    ASSUME NEW p \in Nat, NEW a \in Addrs, NEW w \in 1 .. Page, NEW size \in {"byte", "word"},
           TakenInPiece(p, a, w, size)
    PROVE  /\ MemoryIInv /\ InCall /\ ~Connecting /\ call \in Calls /\ todo # <<>>
           /\ SwdTypeOK /\ CacheOK /\ PieceKnown(p, a, w, size) /\ Head(todo) \in Transfer
           /\ p \in Nat /\ w \in Nat \ {0} /\ a \in Nat /\ p <= w + 4
           /\ IsPiece(call, next, a, w, size)
           /\ (p >= 1 => cache.select = "zero") /\ (p >= 2 => cache.csw = size)
           /\ WrittenTo(a) /\ WrittenTo(a + (DoneAfter(p, w) * Unit(size)))
           /\ (InStep => PortsAt(call, mem, target, p, a, w, size))
           /\ cache' \in Beliefs /\ cache'.select = "zero" /\ (p >= 1 => cache'.csw = size)
           /\ (Head(todo).reg \notin {"SELECT", "CSW"} => cache' = cache /\ p >= 2)
           /\ todo' = Tail(todo) /\ tries' = 0 /\ got' = Kept(Head(todo), target.posted)
           /\ UNCHANGED <<polls, call, status, next, trusted, repeated>>
           /\ ~target.sticky /\ Head(todo).keep # "null"
<1> DEFINE r == Head(todo)
<1>1. /\ MemoryIInv /\ InCall /\ ~Connecting /\ call \in Calls /\ todo # <<>>
      /\ PieceKnown(p, a, w, size) /\ ~target.sticky /\ r.keep # "null" /\ cache' = Believed(r)
      /\ todo' = Tail(todo) /\ tries' = 0 /\ got' = Kept(r, target.posted)
      /\ UNCHANGED <<polls, call, status, next, trusted, repeated>>
  BY DEF TakenInPiece
<1>2. SwdTypeOK /\ CacheOK /\ r \in Transfer
  BY <1>1, HeadIs DEF MemoryIInv
<1>3. /\ w \in Nat \ {0} /\ a \in Nat /\ p <= w + 4 /\ IsPiece(call, next, a, w, size)
      /\ (p >= 1 => cache.select = "zero") /\ (p >= 2 => cache.csw = size)
      /\ WrittenTo(a) /\ WrittenTo(a + (DoneAfter(p, w) * Unit(size)))
      /\ (InStep => PortsAt(call, mem, target, p, a, w, size))
  BY <1>1 DEF PieceKnown, InPiece
<1>4. /\ Believed(r) \in Beliefs
      /\ r.reg = "SELECT" => Believed(r).select = "zero" /\ Believed(r).csw = cache.csw
      /\ r.reg = "CSW" => Believed(r).csw = r.value /\ Believed(r).select = cache.select
      /\ r.reg \notin {"SELECT", "CSW"} => Believed(r) = cache
  <2> HIDE DEF r
  <2> QED
    BY <1>2, BelievedIs
<1>5. /\ p = 0 => r = Request("SELECT", "zero")
      /\ p = 1 => r = Request("CSW", size)
  BY <1>1, KindIs
<1>6. p >= 2 => r.reg \notin {"SELECT", "CSW"}
  <2> SUFFICES ASSUME p >= 2 PROVE r.reg \notin {"SELECT", "CSW"}
    OBVIOUS
  <2>1. p # 0 /\ p # 1 /\ (Reading \/ Writing)
    BY <1>1, CallIs
  <2>2. \/ r \in {RdBuff, NullWrite, Request("TAR", a), Fetch("RDBUFF", size)}
        \/ \E v : r = Request("DRW", v)
        \/ \E k : r = Fetch("DRW", k)
    BY <1>1, <2>1, KindIs
  <2> HIDE DEF r
  <2> QED
    BY <2>2, Fields
<1> HIDE DEF r
<1>7. (p = 0 => r.reg = "SELECT") /\ (p = 1 => r.reg = "CSW" /\ r.value = size)
  BY <1>5, Fields
<1>8. cache' \in Beliefs /\ cache'.select = "zero" /\ (p >= 1 => cache'.csw = size)
  <2>1. p = 0 \/ p = 1 \/ p >= 2
    OBVIOUS
  <2> QED
    BY <1>1, <1>3, <1>4, <1>6, <1>7, <2>1
<1>9. r.reg \notin {"SELECT", "CSW"} => cache' = cache /\ p >= 2
  <2>1. p = 0 \/ p = 1 \/ p >= 2
    OBVIOUS
  <2> QED
    BY <1>1, <1>4, <1>7, <2>1
<1> QED
  BY <1>1, <1>2, <1>3, <1>8, <1>9 DEF r

\* A transfer that is acknowledged in vain, with the memory as it was: the port
\* is in error, and the piece cannot end.
LEMMA VainInPiece ==
    ASSUME NEW p \in Nat, NEW a \in Addrs, NEW w \in 1 .. Page, NEW size \in {"byte", "word"},
           TakenInPiece(p, a, w, size), mem' = mem, target' \in Ports, target'.sticky = TRUE,
           Head(todo).write \/ Head(todo).reg = "DRW"
    PROVE  MemoryIInv'
<1>1. /\ MemoryIInv /\ InCall /\ ~Connecting /\ call \in Calls /\ todo # <<>>
      /\ SwdTypeOK /\ PieceKnown(p, a, w, size) /\ WrittenTo(a)
      /\ cache' \in Beliefs /\ cache'.select = "zero" /\ (p >= 1 => cache'.csw = size)
      /\ todo' = Tail(todo) /\ tries' = 0 /\ got' = Kept(Head(todo), target.posted)
      /\ UNCHANGED <<polls, call, status, next, trusted, repeated>>
      /\ ~target.sticky /\ Head(todo).keep # "null"
  BY PieceFacts
<1>2. mem \in [Addrs -> Byte]
  BY <1>1, Typed
<1>3. /\ got' \in Seq(Byte \union {Junk}) /\ Len(got') <= call.size
      /\ ReadTo(a + KeptAfter(p + 1, size))'
  BY <1>1, GotAfter
<1>4. CacheOK' /\ ~InStep'
  BY DEF CacheOK, InStep
<1>5. WrittenTo(a)'
  BY <1>1, NoStore
<1>6. p # w + 4
  <2> SUFFICES ASSUME p = w + 4 PROVE FALSE
    OBVIOUS
  <2>1. Reading \/ Writing
    BY <1>1, CallIs
  <2>2. Head(todo) \in {RdBuff, NullWrite, Fetch("RDBUFF", size)}
    BY <1>1, <2>1, KindIs
  <2> QED
    BY <1>1, <2>2, Fields
<1> QED
  BY <1>1, <1>2, <1>3, <1>4, <1>5, <1>6, Forward

\* A transfer before and after the accesses.
LEMMA TakenAround ==
    ASSUME NEW p \in Nat, NEW a \in Addrs, NEW w \in 1 .. Page, NEW size \in {"byte", "word"},
           TakenInPiece(p, a, w, size), Effect(Head(todo)), ~(p \in 4 .. w + 3)
    PROVE  MemoryIInv'
<1> DEFINE r == Head(todo)
<1>1. /\ MemoryIInv /\ InCall /\ ~Connecting /\ call \in Calls /\ todo # <<>>
      /\ SwdTypeOK /\ CacheOK /\ PieceKnown(p, a, w, size) /\ r \in Transfer
      /\ w \in Nat \ {0} /\ a \in Nat /\ p <= w + 4
      /\ WrittenTo(a) /\ WrittenTo(a + (DoneAfter(p, w) * Unit(size)))
      /\ (InStep => PortsAt(call, mem, target, p, a, w, size))
      /\ cache' \in Beliefs /\ cache'.select = "zero" /\ (p >= 1 => cache'.csw = size)
      /\ (r.reg \notin {"SELECT", "CSW"} => cache' = cache /\ p >= 2)
      /\ todo' = Tail(todo) /\ tries' = 0 /\ got' = Kept(r, target.posted)
      /\ UNCHANGED <<polls, call, status, next, trusted, repeated>>
      /\ ~target.sticky /\ r.keep # "null"
  <2>1. /\ SwdTypeOK /\ CacheOK /\ PieceKnown(p, a, w, size) /\ r \in Transfer
        /\ w \in Nat \ {0} /\ a \in Nat /\ p <= w + 4
        /\ (r.reg \notin {"SELECT", "CSW"} => cache' = cache /\ p >= 2)
    <3>1. MemoryIInv /\ PieceKnown(p, a, w, size) /\ todo # <<>>
      BY DEF TakenInPiece
    <3>2. SwdTypeOK /\ CacheOK /\ r \in Transfer
      BY <3>1, HeadIs DEF MemoryIInv
    <3>3. w \in Nat \ {0} /\ a \in Nat /\ p <= w + 4 /\ IsPiece(call, next, a, w, size)
      BY <3>1 DEF PieceKnown, InPiece
    <3>4. r.reg \notin {"SELECT", "CSW"} => cache' = cache /\ p >= 2
      BY PieceFacts
    <3> HIDE DEF r
    <3> QED
      BY <3>1, <3>2, <3>3, <3>4
  <2>2. /\ WrittenTo(a) /\ WrittenTo(a + (DoneAfter(p, w) * Unit(size)))
        /\ (InStep => PortsAt(call, mem, target, p, a, w, size))
        /\ cache' \in Beliefs /\ cache'.select = "zero" /\ (p >= 1 => cache'.csw = size)
    BY PieceFacts
  <2>3. /\ MemoryIInv /\ InCall /\ ~Connecting /\ call \in Calls /\ todo # <<>>
        /\ todo' = Tail(todo) /\ tries' = 0 /\ got' = Kept(r, target.posted)
        /\ UNCHANGED <<polls, call, status, next, trusted, repeated>>
        /\ ~target.sticky /\ r.keep # "null"
    BY DEF TakenInPiece
  <2> HIDE DEF r
  <2> QED
    BY <2>1, <2>2, <2>3
<1>2. Reading \/ Writing
  BY <1>1, CallIs
<1>3. /\ p = 0 => r = Request("SELECT", "zero")
      /\ p = 1 => r = Request("CSW", size)
      /\ p = 2 => r = RdBuff
      /\ p = 3 => r = Request("TAR", a)
      /\ p = w + 4 => r \in {RdBuff, Fetch("RDBUFF", size), NullWrite}
      /\ p = 0 \/ p = 1 \/ p = 2 \/ p = 3 \/ p = w + 4
  BY <1>1, <1>2, KindIs
<1>4. /\ mem' \in [Addrs -> Byte] /\ target' \in Ports
      /\ r.reg # "ABORT" => target'.sticky = target.sticky
      /\ r.reg \notin {"SELECT", "CSW"} => target'.select = target.select /\ target'.csw = target.csw
      /\ ~(r.reg = "DRW" /\ r.write) => mem' = mem
      /\ r.reg = "SELECT" => target'.select = "zero" /\ target'.csw = target.csw
      /\ r.reg = "CSW" /\ target.select = "zero" => target'.select = "zero" /\ target'.csw = r.value
      /\ r.reg = "TAR" /\ target.select = "zero" => target'.tar = r.value
  <2> HIDE DEF r
  <2> QED
    BY <1>1, EffectIs DEF r
<1>5. /\ p = 0 => r.reg = "SELECT"
      /\ p = 1 => r.reg = "CSW" /\ r.value = size
      /\ p = 2 => r.reg = "RDBUFF"
      /\ p = 3 => r.reg = "TAR" /\ r.value = a
      /\ p = w + 4 => r.reg = "RDBUFF"
  <2>1. r.keep # "null"
    BY <1>1
  <2> HIDE DEF r
  <2> QED
    BY <1>3, <2>1, Fields
<1>6. mem' = mem /\ target'.sticky = target.sticky
  <2> HIDE DEF r
  <2> QED
    BY <1>3, <1>4, <1>5
<1>7. /\ got' \in Seq(Byte \union {Junk}) /\ Len(got') <= call.size
      /\ ReadTo(a + KeptAfter(p + 1, size))'
  BY <1>1, <1>6, GotAfter
<1>8. CacheOK'
  <2>1. CASE p = 0
    <3>1. ~Trying("CSW") /\ target'.select = "zero" /\ target'.csw = target.csw
      BY <1>4, <1>5, <2>1 DEF Trying
    <3>2. cache'.csw = cache.csw
      <4>1. cache' = Believed(r)
        BY DEF TakenInPiece
      <4> HIDE DEF r
      <4> QED
        BY <1>1, <1>5, <2>1, <4>1, BelievedIs
    <3> QED
      BY <1>1, <1>6, <3>1, <3>2 DEF CacheOK
  <2>2. CASE p = 1
    <3>1. trusted => target.select = "zero"
      BY <1>1, <1>5, <2>2, CacheTells
    <3>2. trusted => target'.select = "zero" /\ target'.csw = size
      BY <1>4, <1>5, <2>2, <3>1
    <3> QED
      BY <1>1, <2>2, <3>2 DEF CacheOK
  <2>3. CASE p # 0 /\ p # 1
    <3>1. r.reg \notin {"SELECT", "CSW"}
      <4> HIDE DEF r
      <4> QED
        BY <1>3, <1>5, <2>3
    <3> QED
      BY <1>1, <1>4, <1>6, <3>1, CacheStays
  <2> QED
    BY <2>1, <2>2, <2>3
<1>9. WrittenTo(a)'
  BY <1>1, <1>6, NoStore
<1>10. DoneAfter(p + 1, w) = DoneAfter(p, w) /\ (p <= 3 => DoneAfter(p + 1, w) = 0)
       /\ (p = w + 4 => DoneAfter(p + 1, w) = w)
  <2>1. p <= 3 \/ p = w + 4
    BY <1>3
  <2> QED
    BY <1>1, <2>1 DEF DoneAfter
<1>11. WrittenTo(a + (DoneAfter(p + 1, w) * Unit(size)))'
  <2> DEFINE x == a + (DoneAfter(p + 1, w) * Unit(size))
  <2>1. WrittenTo(x)
    BY <1>1, <1>10
  <2> HIDE DEF x
  <2>2. WrittenTo(x)'
    BY <1>1, <1>6, <2>1, NoStore
  <2> QED
    BY <2>2 DEF x
<1>12. InStep' => PortsAt(call, mem', target', p + 1, a, w, size)
  <2> SUFFICES ASSUME InStep' PROVE PortsAt(call, mem', target', p + 1, a, w, size)
    OBVIOUS
  <2>1. ~(p + 1 >= 5 /\ p + 1 <= w + 4)
    BY <1>1, <1>3
  <2>2. CASE p = 3
    <3>1. trusted
      BY <1>1 DEF InStep
    <3>2. target.select = "zero"
      BY <1>1, <1>5, <2>2, <3>1, CacheTells
    <3>3. target'.tar = a
      BY <1>4, <1>5, <2>2, <3>2
    <3>4. DoneAfter(p + 1, w) = 0 /\ a + (0 * Unit(size)) = a
      BY <1>1, <1>10, <2>2, Sizes DEF Unit
    <3> QED
      BY <2>1, <3>3, <3>4 DEF PortsAt
  <2>3. CASE p # 3
    <3>1. ~(p + 1 >= 4 /\ DoneAfter(p + 1, w) < w)
      BY <1>1, <1>3, <1>10, <2>3
    <3> QED
      BY <2>1, <3>1 DEF PortsAt
  <2> QED
    BY <2>2, <2>3
<1>13. ~target'.sticky
  BY <1>1, <1>6
<1> QED
  BY <1>1, <1>4, <1>7, <1>8, <1>9, <1>11, <1>12, <1>13, Forward

\* An access of a piece: DRW.
LEMMA TakenAccess ==
    ASSUME NEW p \in Nat, NEW a \in Addrs, NEW w \in 1 .. Page, NEW size \in {"byte", "word"},
           TakenInPiece(p, a, w, size), Effect(Head(todo)), p \in 4 .. w + 3
    PROVE  MemoryIInv'
<1> DEFINE r == Head(todo)
           u == Unit(size)
           k == p - 4
           x == a + (k * u)
<1>1. /\ SwdTypeOK /\ CacheOK /\ PieceKnown(p, a, w, size) /\ r \in Transfer
      /\ w \in Nat \ {0} /\ a \in Nat /\ p <= w + 4 /\ IsPiece(call, next, a, w, size)
      /\ (r.reg \notin {"SELECT", "CSW"} => cache' = cache /\ p >= 2)
  <2>1. MemoryIInv /\ PieceKnown(p, a, w, size) /\ todo # <<>>
    BY DEF TakenInPiece
  <2>2. SwdTypeOK /\ CacheOK /\ r \in Transfer
    BY <2>1, HeadIs DEF MemoryIInv
  <2>3. w \in Nat \ {0} /\ a \in Nat /\ p <= w + 4 /\ IsPiece(call, next, a, w, size)
    BY <2>1 DEF PieceKnown, InPiece
  <2>4. r.reg \notin {"SELECT", "CSW"} => cache' = cache /\ p >= 2
    BY PieceFacts
  <2> HIDE DEF r
  <2> QED
    BY <2>1, <2>2, <2>3, <2>4
<1>2. /\ WrittenTo(a) /\ WrittenTo(a + (DoneAfter(p, w) * u))
      /\ (InStep => PortsAt(call, mem, target, p, a, w, size))
      /\ cache' \in Beliefs /\ cache'.select = "zero" /\ (p >= 1 => cache'.csw = size)
  BY PieceFacts
<1>3. /\ MemoryIInv /\ InCall /\ ~Connecting /\ call \in Calls /\ todo # <<>>
      /\ todo' = Tail(todo) /\ tries' = 0 /\ got' = Kept(r, target.posted)
      /\ UNCHANGED <<polls, call, status, next, trusted, repeated>>
      /\ ~target.sticky /\ r.keep # "null"
  BY DEF TakenInPiece
<1>4. (Reading \/ Writing) /\ ~(Reading /\ Writing)
  BY <1>3, CallIs
<1>5. /\ Writing => r = Request("DRW", Laned(call.data, call.addr, x, u))
      /\ Reading => r = Fetch("DRW", IF p = 4 THEN "none" ELSE "word")
  BY <1>1, <1>3, KindIs
<1>6. k \in Nat /\ k < w /\ p + 1 >= 5 /\ p + 1 <= w + 4 /\ p >= 4 /\ p + 1 >= 4 /\ p # w + 4
  BY <1>1
<1>7. AccessAt(x, a, w, k, size)
  <2> HIDE DEF k
  <2> QED
    BY <1>1, <1>3, <1>6, Accesses
<1>8. /\ x \in Addrs /\ x \in Nat /\ a <= x /\ call.addr <= x /\ x + u <= call.addr + call.size
      /\ (k + 1 < w => (x % Page) + u < Page) /\ (size = "word" => x % WordSize = 0)
  BY <1>7 DEF AccessAt
<1>9. DoneAfter(p, w) = k /\ DoneAfter(p + 1, w) = k + 1 /\ (p + 1) - 5 = k
  BY <1>1, <1>6 DEF DoneAfter
<1>10. a + ((k + 1) * u) = x + u /\ u \in Nat
  <2>1. u \in Nat /\ k \in Nat
    BY <1>6, Sizes DEF Unit
  <2> HIDE DEF u, k
  <2>2. (k + 1) * u = k * u + u /\ k * u \in Nat
    BY <2>1
  <2> QED
    BY <1>1, <2>1, <2>2
<1>11. /\ Writing => r.reg = "DRW" /\ r.write /\ r.value = Laned(call.data, call.addr, x, u)
       /\ Reading => r.reg = "DRW" /\ ~r.write
  <2> HIDE DEF r, x, u
  <2> QED
    BY <1>5, Fields
<1>12. r.reg = "DRW"
  BY <1>4, <1>11
<1>13. /\ mem' \in [Addrs -> Byte] /\ target' \in Ports /\ target'.sticky = target.sticky
       /\ target'.select = target.select /\ target'.csw = target.csw
       /\ ~r.write => mem' = mem
       /\ target.select = "zero" => target'.tar = Advanced
       /\ ~r.write /\ target.select = "zero" => target'.posted = Fetched
       /\ r.write /\ target.select = "zero" => mem' = Stored(r.value)
  <2>1. r.reg = "DRW" /\ Effect(r) /\ r.keep # "null" /\ r \in Transfer /\ SwdTypeOK
    BY <1>1, <1>3, <1>12
  <2> HIDE DEF r
  <2> QED
    BY <2>1, EffectIs
<1>14. Reading => mem' = mem
  BY <1>11, <1>13
<1>15. /\ got' \in Seq(Byte \union {Junk}) /\ Len(got') <= call.size
       /\ ReadTo(a + KeptAfter(p + 1, size))'
  BY <1>1, <1>3, <1>14, GotAfter
<1>16. CacheOK'
  <2>1. r.reg \notin {"SELECT", "CSW"}
    BY <1>12
  <2> QED
    BY <1>1, <1>3, <1>13, <2>1, CacheStays
<1>17. trusted => target.select = "zero" /\ target.csw = size
  BY <1>1, <1>3, <1>6, <1>12, CacheTells
<1>18. trusted /\ (Writing \/ ~repeated) => target.tar = x
  <2> SUFFICES ASSUME trusted, Writing \/ ~repeated PROVE target.tar = x
    OBVIOUS
  <2>1. PortsAt(call, mem, target, p, a, w, size)
    BY <1>2, <1>3 DEF InStep
  <2>2. target.tar = a + (DoneAfter(p, w) * u)
    <3>1. p >= 4 /\ DoneAfter(p, w) < w
      BY <1>6, <1>9
    <3> QED
      BY <2>1, <3>1 DEF PortsAt
  <2> QED
    BY <1>9, <2>2
<1>19. \A b \in Addrs : trusted /\ Writing =>
         mem'[b] = IF x <= b /\ b < x + u THEN call.data[(b - call.addr) + 1] ELSE mem[b]
  <2> SUFFICES ASSUME trusted, Writing
               PROVE  \A b \in Addrs : mem'[b] = IF x <= b /\ b < x + u
                                                   THEN call.data[(b - call.addr) + 1] ELSE mem[b]
    OBVIOUS
  <2>1. target.tar = x /\ target.csw = size /\ target.select = "zero"
    BY <1>17, <1>18
  <2>2. mem' = Stored(Laned(call.data, call.addr, x, u))
    BY <1>11, <1>13, <2>1
  <2> HIDE DEF x
  <2> QED
    BY <1>1, <1>3, <1>8, <2>1, <2>2, StoredIs
<1> HIDE DEF r, x, k, u
<1>20. WrittenTo(a)'
  <2> SUFFICES ASSUME trusted, Writing PROVE PutTo(call, mem', a)
    BY <1>3 DEF WrittenTo, Writing
  <2>1. PutTo(call, mem, a)
    BY <1>2 DEF WrittenTo
  <2> SUFFICES ASSUME NEW b \in call.addr .. a - 1 PROVE mem'[b] = call.data[(b - call.addr) + 1]
    BY DEF PutTo
  <2>2. mem[b] = call.data[(b - call.addr) + 1]
    BY <2>1 DEF PutTo
  <2>3. call.addr \in Nat /\ call.size \in Nat
    BY <1>3, CallIs
  <2>4. b \in Nat /\ call.addr <= b /\ b < x /\ b < call.addr + call.size
    BY <1>1, <1>8, <1>10, <2>3
  <2>5. b \in Addrs /\ ~(x <= b)
    BY <1>3, <1>8, <2>4, CallIs
  <2> QED
    BY <1>19, <2>2, <2>5
<1>21. WrittenTo(x + u)'
  <2> SUFFICES ASSUME trusted, Writing PROVE PutTo(call, mem', x + u)
    BY <1>3 DEF WrittenTo, Writing
  <2>1. PutTo(call, mem, x)
    <3>1. x = a + (DoneAfter(p, w) * u)
      BY <1>9 DEF x
    <3> QED
      BY <1>2, <3>1 DEF WrittenTo
  <2>2. call.addr \in Nat /\ call.size \in Nat
    BY <1>3, CallIs
  <2> SUFFICES ASSUME NEW b \in call.addr .. (x + u) - 1
               PROVE  mem'[b] = call.data[(b - call.addr) + 1]
    BY DEF PutTo
  <2>3. b \in Nat /\ call.addr <= b /\ b < x + u /\ b < call.addr + call.size
    BY <1>8, <1>10, <2>2
  <2>4. b \in Addrs
    BY <1>3, <2>3, CallIs
  <2>5. CASE x <= b
    BY <1>19, <2>3, <2>4, <2>5
  <2>6. CASE ~(x <= b)
    <3>1. b \in call.addr .. x - 1
      BY <1>8, <2>2, <2>3, <2>6
    <3> QED
      BY <1>19, <2>1, <2>4, <2>6, <3>1 DEF PutTo
  <2> QED
    BY <2>5, <2>6
<1>22. WrittenTo(a + (DoneAfter(p + 1, w) * Unit(size)))'
  <2> DEFINE y == a + (DoneAfter(p + 1, w) * Unit(size))
             z == x + u
  <2>1. y = z
    BY <1>9, <1>10 DEF u
  <2>2. WrittenTo(z)'
    BY <1>21
  <2> HIDE DEF y, z
  <2>3. WrittenTo(y)'
    BY <2>1, <2>2
  <2> QED
    BY <2>3 DEF y
<1>23. InStep' => PortsAt(call, mem', target', p + 1, a, w, size)
  <2> SUFFICES ASSUME InStep' PROVE PortsAt(call, mem', target', p + 1, a, w, size)
    OBVIOUS
  <2>1. trusted /\ (Writing \/ ~repeated)
    BY <1>3 DEF InStep, Writing
  <2>2. target.tar = x /\ target.csw = size /\ target.select = "zero"
    BY <1>17, <1>18, <2>1
  <2>3. /\ (x % Page) + u < Page => Advanced = x + u
        /\ OnLanes(mem, Fetched, x, size)
    BY <1>1, <1>8, <2>2, PortsDo DEF u
  <2>4. ASSUME DoneAfter(p + 1, w) < w PROVE target'.tar = a + (DoneAfter(p + 1, w) * Unit(size))
    <3>1. k + 1 < w
      BY <1>9, <2>4
    <3>2. target'.tar = x + u
      BY <1>8, <1>13, <2>2, <2>3, <3>1
    <3> QED
      BY <1>9, <1>10, <3>2 DEF u
  <2>5. ASSUME IsReading(call) PROVE OnLanes(mem', target'.posted, a + (((p + 1) - 5) * Unit(size)), size)
    <3>1. Reading
      BY <2>5 DEF Reading, IsReading
    <3>2. mem' = mem /\ target'.posted = Fetched
      BY <1>11, <1>13, <2>2, <3>1
    <3>3. a + (((p + 1) - 5) * Unit(size)) = x
      BY <1>9 DEF x, u
    <3> QED
      BY <2>3, <3>2, <3>3
  <2> QED
    BY <2>4, <2>5 DEF PortsAt
<1>24. ~target'.sticky /\ cache'.csw = size
  BY <1>2, <1>3, <1>6, <1>13
<1> QED
  BY <1>1, <1>2, <1>3, <1>13, <1>15, <1>16, <1>20, <1>22, <1>23, <1>24, Forward

\* A transfer of a piece that the target takes, or takes in vain.
LEMMA PieceTaken ==
    ASSUME MemoryIInv, InCall, ~Connecting, todo # <<>>, Exchange(Head(todo)),
           Head(todo).keep # "null",
           Taken(Head(todo)) \/ TakenInVain(Head(todo))
    PROVE  MemoryIInv'
<1> DEFINE r == Head(todo)
<1>1. PICK p \in Nat, a \in Addrs, w \in 1 .. Page, size \in {"byte", "word"} :
        PieceKnown(p, a, w, size)
  BY InSomePiece
<1>2. call \in Calls
  BY UserCall
<1>3. r.reg \in {"SELECT", "CSW", "TAR", "DRW", "RDBUFF"}
  <2>1. Reading \/ Writing
    BY <1>2, CallIs
  <2>2. \/ r \in {RdBuff, NullWrite}
        \/ \E reg \in {"SELECT", "CSW", "TAR", "DRW"} : \E v : r = Request(reg, v)
        \/ \E reg \in {"RDBUFF", "DRW"} : \E k : r = Fetch(reg, k)
    BY <1>1, <1>2, <2>1, KindIs
  <2> HIDE DEF r
  <2> QED
    BY <2>2, Fields
<1>4. Accepts(r) /\ Acknowledged(r) /\ r.keep # "null" /\ cache' = Believed(r)
  BY DEF Taken, TakenInVain, Exchange
<1>5. ~target.sticky
  <2> HIDE DEF r
  <2> QED
    BY <1>3, <1>4 DEF Accepts
<1>6. /\ todo' = Tail(todo) /\ tries' = 0 /\ got' = Kept(r, target.posted)
      /\ UNCHANGED <<polls, call, status, next, trusted, repeated>>
  <2> HIDE DEF r
  <2> QED
    BY <1>3, <1>4 DEF Acknowledged
<1>7. TakenInPiece(p, a, w, size)
  BY <1>1, <1>2, <1>4, <1>5, <1>6 DEF TakenInPiece
<1>8. CASE Taken(r)
  <2>1. Effect(r)
    BY <1>8 DEF Taken
  <2>2. CASE p \in 4 .. w + 3
    BY <1>7, <2>1, <2>2, TakenAccess
  <2>3. CASE ~(p \in 4 .. w + 3)
    BY <1>7, <2>1, <2>3, TakenAround
  <2> QED
    BY <2>2, <2>3
<1>9. CASE TakenInVain(r)
  <2>1. /\ r.write \/ r.reg = "DRW"
        /\ target' = [target EXCEPT !.sticky = TRUE, !.posted = IF r.write THEN @ ELSE NoWord]
        /\ mem' = mem
    BY <1>9 DEF TakenInVain
  <2> DEFINE v == IF r.write THEN target.posted ELSE NoWord
  <2>2. target \in Ports /\ v \in Word
    <3>1. target \in Ports
      BY Typed DEF MemoryIInv
    <3> QED
      BY <3>1, NoWordIs DEF Ports
  <2>3. target' = [target EXCEPT !.sticky = TRUE, !.posted = v]
    BY <2>1
  <2> HIDE DEF v
  <2>4. PortsAre(target', target.select, target.csw, target.tar, v, TRUE)
    BY <2>2, <2>3, OnePort
  <2>5. target' \in Ports /\ target'.sticky = TRUE
    BY <2>4 DEF PortsAre
  <2> QED
    BY <1>7, <2>1, <2>5, VainInPiece
<1> QED
  BY <1>8, <1>9

\* A transfer of init_debug.
ConnectHead(n) ==
    /\ n \in 1 .. 7 /\ Len(todo) = n /\ Head(todo) = ConnectPlan[8 - n]
    /\ Len(Tail(todo)) = n - 1
    /\ \A i \in 1 .. n - 1 : Tail(todo)[i] = ConnectPlan[(7 - (n - 1)) + i]
    /\ Head(todo).reg \in {"IDCODE", "ABORT", "SELECT", "CTRL", "STAT"}
    /\ Head(todo).keep = "none"
    /\ n = 7 => Head(todo).reg = "IDCODE"
    /\ Head(todo).reg = "ABORT" => n = 6

\* Connecting goes on with the next transfer of its list.
LEMMA ConnectNext ==
    ASSUME todo \in Seq(Transfer), todo # <<>>, InConnect
    PROVE  \E n \in 1 .. 7 : ConnectHead(n)
<1> DEFINE n == Len(todo)
<1>1. /\ n \in Nat \ {0} /\ Head(todo) = todo[1] /\ Len(Tail(todo)) = n - 1
      /\ \A i \in 1 .. n - 1 : Tail(todo)[i] = todo[i + 1]
  BY HeadIs
<1>2. n <= 7 /\ \A i \in 1 .. n : todo[i] = ConnectPlan[(7 - n) + i]
  BY DEF InConnect
<1> HIDE DEF n
<1>3. n \in 1 .. 7 /\ (7 - n) + 1 = 8 - n /\ 1 \in 1 .. n /\ 8 - n \in 1 .. 7
  BY <1>1, <1>2
<1>4. Head(todo) = ConnectPlan[8 - n]
  BY <1>1, <1>2, <1>3
<1>5. ASSUME NEW i \in 1 .. n - 1 PROVE Tail(todo)[i] = ConnectPlan[(7 - (n - 1)) + i]
  <2>1. i + 1 \in 1 .. n /\ (7 - n) + (i + 1) = (7 - (n - 1)) + i
    BY <1>3
  <2> QED
    BY <1>1, <1>2, <2>1
<1>6. /\ \A i \in 1 .. 7 : /\ ConnectPlan[i].reg \in {"IDCODE", "ABORT", "SELECT", "CTRL", "STAT"}
                           /\ ConnectPlan[i].keep = "none"
                           /\ ConnectPlan[i].reg = "ABORT" => i = 2
      /\ ConnectPlan[1].reg = "IDCODE"
  BY DEF ConnectPlan, Fetch, Request
<1>7. (n = 7 => 8 - n = 1) /\ (8 - n = 2 => n = 6)
  BY <1>3
<1>8. ConnectHead(n)
  BY <1>1, <1>3, <1>4, <1>5, <1>6, <1>7 DEF ConnectHead, n
<1> QED
  BY <1>3, <1>8

\* It is done, or STAT is to be read again.
LEMMA ConnectForward ==
    ASSUME MemoryIInv, InCall, Connecting, NEW n \in 1 .. 7, ConnectHead(n), todo # <<>>,
           todo' = Tail(todo) \/ (todo' = todo /\ Head(todo).reg = "STAT"), tries' = 0,
           UNCHANGED <<call, status, next, got, trusted, repeated>>, mem' = mem,
           polls' \in 0 .. MaxPolls - 1, target' \in Ports, cache' \in Beliefs,
           CacheOK', cache'.csw = "fake", Head(todo).reg \in {"IDCODE", "ABORT", "STAT"} => cache' = cache
    PROVE  MemoryIInv'
<1>1. SwdTypeOK /\ todo \in Seq(Transfer) /\ OneWord /\ InConnect
  BY DEF MemoryIInv
<1>2. /\ mem \in [Addrs -> Byte] /\ 0 \in 0 .. MaxRetry
      /\ status \in {"new", "running", "true", "false", "crashed"}
      /\ got \in Seq(Byte \union {Junk}) /\ Len(got) <= call.size
      /\ trusted \in BOOLEAN /\ repeated \in BOOLEAN
  BY <1>1, Typed, Sizes
<1>3. SwdTypeOK' /\ OneWord'
  BY <1>1, <1>2, SameTypes DEF OneWord
<1>4. todo' \in Seq(Transfer)
  BY <1>1, HeadIs
<1>5. InConnect'
  <2>1. /\ Len(todo) = n /\ Len(Tail(todo)) = n - 1
        /\ \A i \in 1 .. n - 1 : Tail(todo)[i] = ConnectPlan[(7 - (n - 1)) + i]
        /\ (n = 7 => Head(todo).reg = "IDCODE")
    BY DEF ConnectHead
  <2>2. (Len(todo) >= 6 => cache = Unset) /\ Len(todo) <= 7
        /\ \A i \in 1 .. Len(todo) : todo[i] = ConnectPlan[(7 - Len(todo)) + i]
    BY <1>1 DEF InConnect
  <2>3. CASE todo' = todo /\ Head(todo).reg = "STAT"
    BY <2>2, <2>3 DEF InConnect
  <2>4. CASE todo' = Tail(todo)
    <3>1. Len(todo') = n - 1 /\ n - 1 <= 7 /\ (n - 1 >= 6 => n = 7)
      BY <2>1, <2>4
    <3>2. n = 7 => cache' = Unset
      BY <2>1, <2>2
    <3> QED
      BY <2>1, <2>4, <3>1, <3>2 DEF InConnect
  <2> QED
    BY <2>3, <2>4
<1>6. InCall' /\ status' # "true" /\ call' # Never /\ Connecting'
  BY DEF InCall, MemoryIInv, Connecting
<1> QED
  BY <1>3, <1>4, <1>5, <1>6 DEF MemoryIInv

\* A transfer of init_debug that the target takes, or takes in vain.
LEMMA ConnectTaken ==
    ASSUME MemoryIInv, InCall, Connecting, todo # <<>>, Exchange(Head(todo)),
           Head(todo).keep # "null",
           Taken(Head(todo)) \/ TakenInVain(Head(todo))
    PROVE  MemoryIInv'
<1> DEFINE r == Head(todo)
<1>1. SwdTypeOK /\ todo \in Seq(Transfer) /\ CacheOK /\ InConnect /\ r \in Transfer
  BY HeadIs DEF MemoryIInv
<1>2. PICK n \in 1 .. 7 : ConnectHead(n)
  BY <1>1, ConnectNext
<1>3. /\ r.reg \in {"IDCODE", "ABORT", "SELECT", "CTRL", "STAT"} /\ r.keep = "none"
      /\ (r.reg = "ABORT" => n = 6) /\ Len(todo) = n
  BY <1>2 DEF ConnectHead
<1>4. Accepts(r) /\ Acknowledged(r) /\ r.keep # "null" /\ cache' = Believed(r)
  BY DEF Taken, TakenInVain, Exchange
<1>5. /\ cache \in Beliefs /\ target \in Ports /\ polls \in 0 .. MaxPolls - 1 /\ MaxPolls \in Nat
      /\ mem \in [Addrs -> Byte] /\ repeated \in BOOLEAN
  BY <1>1, Typed, Sizes
<1>6. cache.csw = "fake" /\ (r.reg = "ABORT" => cache = Unset)
  BY <1>1, <1>3 DEF InConnect
<1>7. /\ cache' \in Beliefs /\ cache'.csw = "fake"
      /\ r.reg = "SELECT" => cache'.select = "zero"
      /\ r.reg # "SELECT" => cache' = cache
  <2> HIDE DEF r
  <2> QED
    BY <1>1, <1>3, <1>4, <1>6, BelievedIs
<1>8. mem' = mem /\ target' \in Ports
      /\ (target'.sticky = TRUE \/ (Taken(r) /\ Effect(r)))
  <2>1. CASE Taken(r)
    <3>1. Effect(r)
      BY <2>1 DEF Taken
    <3> HIDE DEF r
    <3> QED
      BY <1>1, <1>3, <1>4, <2>1, <3>1, EffectIs
  <2>2. CASE TakenInVain(r)
    <3>1. /\ target' = [target EXCEPT !.sticky = TRUE, !.posted = IF r.write THEN @ ELSE NoWord]
          /\ mem' = mem
      BY <2>2 DEF TakenInVain
    <3> DEFINE v == IF r.write THEN target.posted ELSE NoWord
    <3>2. v \in Word
      BY <1>5, NoWordIs DEF Ports
    <3>3. target' = [target EXCEPT !.sticky = TRUE, !.posted = v]
      BY <3>1
    <3> HIDE DEF v
    <3>4. PortsAre(target', target.select, target.csw, target.tar, v, TRUE)
      BY <1>5, <3>2, <3>3, OnePort
    <3> QED
      BY <3>1, <3>4 DEF PortsAre
  <2> QED
    BY <2>1, <2>2
<1>9. ASSUME tries' = 0, trusted' = trusted PROVE CacheOK'
  <2>1. CASE target'.sticky = TRUE
    BY <2>1 DEF CacheOK
  <2>2. CASE Effect(r)
    <3>1. /\ r.reg # "ABORT" => target'.sticky = target.sticky
          /\ r.reg # "SELECT" => target'.select = target.select /\ target'.csw = target.csw
          /\ r.reg = "SELECT" => target'.select = "zero"
      <4> HIDE DEF r
      <4> QED
        BY <1>1, <1>3, <1>4, <2>2, EffectIs
    <3>2. CASE r.reg = "ABORT"
      <4>1. cache' = Unset
        BY <1>6, <1>7, <3>2
      <4>2. cache'.select = "fake" /\ cache'.csw = "fake"
        BY <4>1 DEF Unset
      <4> QED
        BY <4>2 DEF CacheOK
    <3>3. CASE r.reg = "SELECT"
      BY <1>7, <3>1, <3>3 DEF CacheOK
    <3>4. CASE r.reg \notin {"ABORT", "SELECT"}
      <4>1. r.reg \notin {"SELECT", "CSW"} /\ cache' = cache
        <5> HIDE DEF r
        <5> QED
          BY <1>3, <1>7, <3>4
      <4>2. target'.sticky = target.sticky /\ target'.select = target.select /\ target'.csw = target.csw
        BY <3>1, <3>4
      <4> QED
        BY <1>1, <1>9, <4>1, <4>2, CacheStays
    <3> QED
      BY <3>2, <3>3, <3>4
  <2> QED
    BY <1>8, <2>1, <2>2
<1>10. got' \in {got} \/ ~(todo' = Tail(todo) /\ got' = Kept(r, target.posted))
  BY <1>3 DEF Kept
<1>11. r.reg \in {"IDCODE", "ABORT", "STAT"} => cache' = cache
  BY <1>7
<1>12. tries' = 0 /\ UNCHANGED <<call, next, repeated>>
  BY <1>4 DEF Acknowledged
<1>13. \/ todo' = Tail(todo) /\ got' = Kept(r, target.posted) /\ UNCHANGED <<status, polls, trusted>>
       \/ /\ r.reg = "STAT" /\ polls + 1 < MaxPolls /\ polls' = polls + 1
          /\ UNCHANGED <<status, todo, got, trusted>>
       \/ /\ r.reg = "STAT" /\ polls + 1 = MaxPolls
          /\ status' = "false" /\ todo' = <<>> /\ trusted' = FALSE /\ UNCHANGED <<got, polls>>
  <2> HIDE DEF r
  <2> QED
    BY <1>4 DEF Acknowledged
<1>14. CASE todo' = Tail(todo) /\ got' = Kept(r, target.posted) /\ UNCHANGED <<status, polls, trusted>>
  <2>1. got' = got /\ CacheOK'
    BY <1>9, <1>10, <1>12, <1>14
  <2> QED
    BY <1>2, <1>5, <1>7, <1>8, <1>11, <1>12, <1>14, <2>1, ConnectForward
<1>15. CASE /\ r.reg = "STAT" /\ polls + 1 < MaxPolls /\ polls' = polls + 1
            /\ UNCHANGED <<status, todo, got, trusted>>
  <2>1. polls' \in 0 .. MaxPolls - 1
    BY <1>5, <1>15
  <2>2. CacheOK'
    BY <1>9, <1>12, <1>15
  <2> QED
    BY <1>2, <1>5, <1>7, <1>8, <1>11, <1>12, <1>15, <2>1, <2>2, ConnectForward
<1>16. CASE status' = "false" /\ todo' = <<>> /\ trusted' = FALSE /\ UNCHANGED <<got, polls>>
  <2>1. Fails("false")
    BY <1>12, <1>16 DEF Fails
  <2>2. "false" \in {"false", "crashed"} /\ mem' \in [Addrs -> Byte] /\ repeated' \in BOOLEAN
    BY <1>5, <1>8, <1>12
  <2> QED
    BY <1>7, <1>8, <2>1, <2>2, Failing
<1> QED
  BY <1>13, <1>14, <1>15, <1>16

\* What is tried again for want of a good answer, or given up.
LEMMA TriedAgain ==
    ASSUME MemoryIInv, InCall, todo # <<>>, Exchange(Head(todo)), Retried(Head(todo)),
           mem' = mem, target' \in Ports,
           target'.select = target.select, target'.csw = target.csw, target'.sticky = target.sticky,
           repeated' \in BOOLEAN,
           (target' = target /\ repeated' = repeated)
             \/ (repeated' = TRUE /\ Head(todo).reg = "DRW" /\ ~Head(todo).write),
           call' = call, next' = next
    PROVE  MemoryIInv'
<1>1. SwdTypeOK /\ todo \in Seq(Transfer) /\ Head(todo) \in Transfer
  BY HeadIs DEF MemoryIInv
<1>2. cache' \in Beliefs
  BY <1>1, BelievedIs DEF Exchange
<1>3. mem \in [Addrs -> Byte] /\ tries \in 0 .. MaxRetry /\ MaxRetry \in Nat
  BY <1>1, Typed, Sizes
<1>4. CASE GivesUp
  <2>1. Fails("false") /\ "false" \in {"false", "crashed"}
    BY <1>4 DEF Retried
  <2> QED
    BY <1>2, <1>3, <2>1, Failing
<1>5. CASE ~GivesUp
  <2>1. tries' = tries + 1 /\ UNCHANGED <<todo, polls, call, status, next, got, trusted>>
    BY <1>5 DEF Retried
  <2>2. tries' \in 1 .. MaxRetry
    BY <1>3, <1>5, <2>1 DEF GivesUp
  <2> QED
    BY <2>1, <2>2, Again
<1> QED
  BY <1>4, <1>5

\* A transfer that is answered.
LEMMA AnswerKeeps ==
    ASSUME MemoryIInv, Answer
    PROVE  MemoryIInv'
<1> DEFINE r == Head(todo)
<1>1. InCall /\ todo # <<>> /\ Exchange(r) /\ Answered(r)
  BY DEF Answer, Transfers
<1>2. SwdTypeOK /\ todo \in Seq(Transfer) /\ r \in Transfer
  BY <1>1, HeadIs DEF MemoryIInv
<1>3. cache' \in Beliefs
  BY <1>1, <1>2, BelievedIs DEF Exchange
<1>4. /\ mem \in [Addrs -> Byte] /\ target \in Ports /\ repeated \in BOOLEAN
  BY <1>2, Typed
<1>5. CASE r.keep # "null" /\ (Taken(r) \/ TakenInVain(r))
  BY <1>1, <1>5, PieceTaken, ConnectTaken
<1>6. CASE r.keep # "null" /\ ReadGarbled(r)
  <2>1. Effect(r) /\ ~r.write /\ repeated' = (repeated \/ r.reg = "DRW") /\ Retried(r)
    BY <1>6 DEF ReadGarbled
  <2>2. r.reg \in {"DRW", "RDBUFF", "IDCODE", "STAT"}
    BY <1>2, <2>1 DEF Transfer
  <2>3. /\ mem' = mem /\ target' \in Ports /\ target'.sticky = target.sticky
        /\ target'.select = target.select /\ target'.csw = target.csw
        /\ r.reg # "DRW" => target' = target
    <3>1. r \in Transfer /\ r.keep # "null" /\ Effect(r) /\ ~r.write /\ SwdTypeOK
          /\ r.reg \in {"DRW", "RDBUFF", "IDCODE", "STAT"}
      BY <1>2, <1>6, <2>1, <2>2
    <3> HIDE DEF r
    <3> QED
      BY <3>1, EffectIs
  <2>4. repeated' \in BOOLEAN /\ (r.reg = "DRW" => repeated' = TRUE)
        /\ (r.reg # "DRW" => repeated' = repeated)
    <3>1. CASE r.reg = "DRW"
      BY <2>1, <3>1
    <3>2. CASE r.reg # "DRW"
      <4>1. repeated' = repeated
        BY <1>4, <2>1, <3>2, Zenon
      <4> QED
        BY <1>4, <3>2, <4>1
    <3> QED
      BY <3>1, <3>2
  <2>5. (target' = target /\ repeated' = repeated)
          \/ (repeated' = TRUE /\ r.reg = "DRW" /\ ~r.write)
    BY <2>1, <2>3, <2>4
  <2>6. call' = call /\ next' = next
    BY <2>1 DEF Retried, Fails
  <2> QED
    BY <1>1, <2>1, <2>3, <2>4, <2>5, <2>6, TriedAgain
<1>7. CASE Refused(r)
  <2>1. Retried(r) /\ mem' = mem /\ target' = target /\ repeated' = repeated
    BY <1>7 DEF Refused
  <2>2. call' = call /\ next' = next
    BY <2>1 DEF Retried, Fails
  <2> QED
    BY <1>1, <1>4, <2>1, <2>2, TriedAgain
<1>8. CASE NoReply(r)
  <2>1. Fails("false") /\ mem' = mem /\ target' = target /\ repeated' = repeated
        /\ "false" \in {"false", "crashed"}
    BY <1>8 DEF NoReply
  <2> QED
    BY <1>3, <1>4, <2>1, Failing
<1>9. CASE Crashes(r)
  <2>1. Fails("crashed") /\ mem' = mem /\ target' = target /\ repeated' = repeated
        /\ "crashed" \in {"false", "crashed"}
    BY <1>9 DEF Crashes
  <2> QED
    BY <1>3, <1>4, <2>1, Failing
<1> QED
  BY <1>1, <1>5, <1>6, <1>7, <1>8, <1>9 DEF Answered

\* A transfer that is answered WAIT and tried again.
LEMMA WaitKeeps ==
    ASSUME MemoryIInv, Wait
    PROVE  MemoryIInv'
<1>1. /\ InCall /\ todo # <<>> /\ Exchange(Head(todo))
      /\ tries' = (IF tries < MaxRetry THEN tries + 1 ELSE tries)
      /\ UNCHANGED <<mem, target, todo, polls, call, status, next, got, trusted, repeated>>
  BY DEF Wait, Transfers, Waits
<1>2. target \in Ports /\ tries \in 0 .. MaxRetry /\ MaxRetry \in Nat /\ MaxRetry >= 1
  BY Typed, Sizes DEF MemoryIInv
<1>3. tries' \in 1 .. MaxRetry
  BY <1>1, <1>2
<1> QED
  BY <1>1, <1>2, <1>3, Again

\* What the caches know is passed over: SELECT, or CSW and the read after it.
LEMMA SkipKeeps ==
    ASSUME MemoryIInv, Skip
    PROVE  MemoryIInv'
<1> DEFINE r == Head(todo)
<1>1. /\ InCall /\ todo # <<>> /\ tries = 0 /\ Cached(r)
      /\ todo' = (IF r.reg = "CSW" THEN Tail(Tail(todo)) ELSE Tail(todo))
      /\ UNCHANGED <<mem, target, cache, tries, polls, call, status, next, got, trusted, repeated>>
  BY DEF Skip
<1>2. SwdTypeOK /\ todo \in Seq(Transfer) /\ CacheOK /\ OneWord /\ r \in Transfer
  BY <1>1, HeadIs DEF MemoryIInv
<1>3. /\ mem \in [Addrs -> Byte] /\ target \in Ports /\ cache \in Beliefs
      /\ polls \in 0 .. MaxPolls - 1 /\ 0 \in 0 .. MaxRetry
      /\ status \in {"new", "running", "true", "false", "crashed"}
      /\ got \in Seq(Byte \union {Junk}) /\ Len(got) <= call.size
      /\ trusted \in BOOLEAN /\ repeated \in BOOLEAN
  BY <1>2, Typed, Sizes
<1>4. CacheOK'
  <2>1. /\ ~Trying("SELECT") /\ ~Trying("CSW") /\ ~Trying("SELECT")' /\ ~Trying("CSW")'
    BY <1>1 DEF Trying
  <2> QED
    BY <1>1, <1>2, <2>1 DEF CacheOK
<1>5. r.reg \in {"SELECT", "CSW"} /\ (r.reg = "SELECT" => cache.select = r.value)
      /\ (r.reg = "CSW" => cache.csw = r.value)
  <2>1. Cached(r)
    BY <1>1
  <2> HIDE DEF r
  <2> QED
    BY <2>1 DEF Cached
<1>6. CASE Connecting
  <2>1. InConnect
    BY <1>1, <1>6 DEF MemoryIInv
  <2>2. PICK n \in 1 .. 7 : ConnectHead(n)
    BY <1>1, <1>2, <2>1, ConnectNext
  <2>3. r.reg \in {"IDCODE", "ABORT", "SELECT", "CTRL", "STAT"}
    BY <2>2 DEF ConnectHead
  <2>4. r.reg # "CSW" /\ r.reg \notin {"IDCODE", "ABORT", "STAT"}
    <3> HIDE DEF r
    <3> QED
      BY <1>5, <2>3
  <2>5. todo' = Tail(todo) /\ tries' = 0 /\ cache'.csw = "fake"
    BY <1>1, <2>1, <2>4 DEF InConnect
  <2> QED
    BY <1>1, <1>3, <1>4, <1>6, <2>2, <2>4, <2>5, ConnectForward
<1>7. CASE ~Connecting
  <2>1. PICK p \in Nat, a \in Addrs, w \in 1 .. Page, size \in {"byte", "word"} :
          PieceKnown(p, a, w, size)
    BY <1>1, <1>7, InSomePiece
  <2>2. call \in Calls
    BY <1>1, <1>7, UserCall
  <2>3. /\ IsPiece(call, next, a, w, size) /\ AreLeft(call, Tail(todo), p + 1, a, w, size)
        /\ (p >= 1 => cache.select = "zero") /\ ReadTo(a + KeptAfter(p, size)) /\ WrittenTo(a)
        /\ Len(todo) = (w + 5) - p /\ w \in Nat \ {0}
    BY <2>1 DEF PieceKnown, InPiece
  <2>4. (p = 0 /\ r.reg = "SELECT" /\ r.value = "zero") \/ (p = 1 /\ r.reg = "CSW" /\ r.value = size)
    <3>1. Reading \/ Writing
      BY <2>2, CallIs
    <3>2. \/ p = 0 /\ r = Request("SELECT", "zero")
          \/ p = 1 /\ r = Request("CSW", size)
          \/ r \in {RdBuff, NullWrite}
          \/ \E v : r = Request("TAR", v)
          \/ \E v : r = Request("DRW", v)
          \/ \E reg \in {"RDBUFF", "DRW"} : \E k : r = Fetch(reg, k)
      BY <2>1, <2>2, <3>1, KindIs
    <3> HIDE DEF r
    <3> QED
      BY <1>5, <3>2, Fields
  <2>5. CASE p = 0 /\ r.reg = "SELECT" /\ r.value = "zero"
    <3>1. todo' = Tail(todo) /\ tries' = 0 /\ cache'.select = "zero" /\ p # w + 4
      BY <1>1, <1>5, <2>3, <2>5
    <3>2. KeptAfter(p + 1, size) = KeptAfter(p, size) /\ DoneAfter(p + 1, w) = 0
      BY <2>5 DEF KeptAfter, DoneAfter
    <3>3. ReadTo(a + KeptAfter(p + 1, size))'
      BY <1>1, <2>3, <3>2 DEF ReadTo, Reading
    <3>4. WrittenTo(a)' /\ a + (DoneAfter(p + 1, w) * Unit(size)) = a
      <4>1. a + (0 * Unit(size)) = a
        BY Sizes DEF Unit
      <4>2. WrittenTo(a)'
        BY <1>1, <2>3 DEF WrittenTo, Writing
      <4> QED
        BY <3>2, <4>1, <4>2
    <3>5. WrittenTo(a + (DoneAfter(p + 1, w) * Unit(size)))'
      <4> DEFINE x == a + (DoneAfter(p + 1, w) * Unit(size))
      <4>1. x = a
        BY <3>4
      <4> HIDE DEF x
      <4>2. WrittenTo(x)'
        BY <3>4, <4>1
      <4> QED
        BY <4>2 DEF x
    <3>6. PortsAt(call, mem', target', p + 1, a, w, size)
      BY <2>5 DEF PortsAt
    <3>7. (p >= 1 => cache'.csw = size)
      BY <2>5
    <3> QED
      BY <1>1, <1>3, <1>4, <1>7, <2>1, <3>1, <3>3, <3>4, <3>5, <3>6, <3>7, Forward
  <2>6. CASE p = 1 /\ r.reg = "CSW" /\ r.value = size
    <3> DEFINE t == Tail(todo)
               s == Tail(t)
    <3>1. t \in Seq(Transfer) /\ Len(t) = w + 3
      BY <1>1, <1>2, <2>3, <2>6, HeadIs
    <3>2. t # <<>>
      BY <2>3, <3>1
    <3> HIDE DEF t
    <3>3. s \in Seq(Transfer) /\ Len(s) = w + 2
      BY <2>3, <3>1, <3>2, HeadIs
    <3>4. AreLeft(call, s, 3, a, w, size)
      <4>1. AreLeft(call, t, 2, a, w, size) /\ 2 \in Nat
        BY <2>3, <2>6 DEF t
      <4>2. AreLeft(call, s, 2 + 1, a, w, size)
        BY <2>3, <3>1, <3>2, <4>1, PieceHead
      <4> QED
        BY <4>2
    <3> HIDE DEF s
    <3>5. todo' = s /\ tries' = 0 /\ s # <<>>
      BY <1>1, <2>3, <2>6, <3>3 DEF s, t
    <3>6. cache'.select = "zero" /\ cache'.csw = size
      BY <1>1, <1>5, <2>3, <2>6
    <3>7. KeptAfter(3, size) = KeptAfter(p, size) /\ DoneAfter(3, w) = 0
      BY <2>6 DEF KeptAfter, DoneAfter
    <3>8. ReadTo(a + KeptAfter(3, size))'
      BY <1>1, <2>3, <3>7 DEF ReadTo, Reading
    <3>9. WrittenTo(a)'
      BY <1>1, <2>3 DEF WrittenTo, Writing
    <3>10. WrittenTo(a + (DoneAfter(3, w) * Unit(size)))'
      <4> DEFINE x == a + (DoneAfter(3, w) * Unit(size))
      <4>1. x = a
        BY <3>7, Sizes DEF Unit
      <4> HIDE DEF x
      <4>2. WrittenTo(x)'
        BY <3>9, <4>1
      <4> QED
        BY <4>2 DEF x
    <3>11. PortsAt(call', mem', target', 3, a, w, size)
      BY DEF PortsAt
    <3>12. IsPiece(call', next', a, w, size) /\ AreLeft(call', todo', 3, a, w, size)
      BY <1>1, <2>3, <3>4, <3>5
    <3>13. InPiece(3, a, w, size)'
      BY <3>6, <3>8, <3>9, <3>10, <3>11, <3>12 DEF InPiece
    <3>14. SomePiece'
      <4>1. Len(todo') + 3 = w + 5 /\ 3 \in 0 .. Page + 4
        BY <2>3, <3>3, <3>5, Sizes
      <4> QED
        BY <3>13, <4>1 DEF SomePiece
    <3>15. SwdTypeOK' /\ OneWord'
      BY <1>1, <1>2, <1>3, SameTypes DEF OneWord
    <3>16. InCall' /\ status' # "true" /\ call' # Never /\ ~Connecting' /\ todo' \in Seq(Transfer)
           /\ todo' # <<>>
      BY <1>1, <1>7, <3>3, <3>5 DEF InCall, MemoryIInv, Connecting
    <3> QED
      BY <1>4, <3>14, <3>15, <3>16 DEF MemoryIInv
  <2> QED
    BY <2>4, <2>5, <2>6
<1> QED
  BY <1>6, <1>7

\* A piece that is through is followed by the next piece of the call.
LEMMA NextPieceKeeps ==
    ASSUME MemoryIInv, NextPiece
    PROVE  MemoryIInv'
<1>1. /\ InCall /\ todo = <<>> /\ next < call.addr + call.size
      /\ todo' = PlanOf(PieceSize) /\ next' = next + PieceSize
      /\ UNCHANGED <<mem, target, cache, tries, polls, call, status, got, trusted, repeated>>
  BY DEF NextPiece, PieceSize
<1>2. SwdTypeOK /\ CacheOK /\ OneWord
  BY DEF MemoryIInv
<1>3. ~Connecting
  <2>1. call \in Calls \union {Never, [Never EXCEPT !.op = "connect"]}
    BY <1>2, Typed
  <2>2. CASE call \in Calls
    BY <2>2, CallIs
  <2>3. CASE call \notin Calls
    <3>1. call.addr = 0 /\ call.size = 0 /\ next \in 0 .. 0
      <4>1. call.addr = 0 /\ call.size = 0
        BY <2>1, <2>3 DEF Never
      <4>2. next \in call.addr .. call.addr + call.size
        BY <1>2, Typed
      <4> QED
        BY <4>1, <4>2
    <3> QED
      BY <1>1, <3>1
  <2> QED
    BY <2>2, <2>3
<1>4. call \in Calls
  BY <1>1, <1>3, UserCall
<1>5. call.addr \in Nat /\ call.size \in Nat /\ next \in call.addr .. call.addr + call.size
  BY <1>2, <1>4, CallIs, Typed
<1>6. next \in Nat /\ call.addr <= next
  BY <1>5
<1> DEFINE n == PieceSize
<1>7. /\ n \in Nat \ {0} /\ next \in Addrs
      /\ (next % Page) + n <= Page /\ next + n <= call.addr + call.size
      /\ call.op \in {"read_word", "write_word"} => next + n = call.addr + call.size
  BY <1>1, <1>2, <1>4, <1>6, PieceIs
<1>8. PICK w \in 1 .. Page, size \in {"byte", "word"}, a \in Addrs :
        /\ a = next /\ n = w * Unit(size) /\ (size = "byte" => w = 1)
        /\ (size = "word" => next % WordSize = 0) /\ IsPlan(PlanOf(n), next, w, size)
  <2> DEFINE w == PieceUnits
             size == PieceUnit
  <2>1. /\ size \in {"byte", "word"} /\ w \in 1 .. Page
        /\ n = w * Unit(size) /\ (size = "byte" => w = 1)
        /\ (size = "word" => next % WordSize = 0) /\ IsPlan(PlanOf(n), next, w, size)
    BY <1>1, <1>2, <1>4, <1>6, Planned
  <2> HIDE DEF w, size, n
  <2> QED
    BY <1>7, <2>1
<1> HIDE DEF n
<1>9. /\ todo' \in Seq(Transfer) /\ Len(todo') = w + 5 /\ AreLeft(call', todo', 0, a, w, size)
      /\ next' = a + n /\ w \in Nat \ {0}
  BY <1>1, <1>8 DEF IsPlan, n
<1>10. Between /\ tries = 0
  BY <1>1, <1>3 DEF MemoryIInv, Between
<1>11. /\ next' \in Nat /\ next' \in call.addr .. call.addr + call.size
  BY <1>5, <1>6, <1>7, <1>8, <1>9
<1>12. IsPiece(call', next', a, w, size)
  BY <1>1, <1>6, <1>7, <1>8, <1>9 DEF IsPiece
<1>13. KeptAfter(0, size) = 0 /\ DoneAfter(0, w) = 0 /\ a + 0 = a /\ a + (0 * Unit(size)) = a
  BY Sizes DEF KeptAfter, DoneAfter, Unit
<1>14. ReadTo(a)' /\ WrittenTo(a)'
  BY <1>1, <1>8, <1>10 DEF Between, ReadTo, WrittenTo, Reading, Writing
<1>15. ReadTo(a + KeptAfter(0, size))' /\ WrittenTo(a + (DoneAfter(0, w) * Unit(size)))'
  <2> DEFINE x == a + KeptAfter(0, size)
             y == a + (DoneAfter(0, w) * Unit(size))
  <2>1. x = a /\ y = a
    BY <1>13
  <2> HIDE DEF x, y
  <2>2. ReadTo(x)' /\ WrittenTo(y)'
    BY <1>14, <2>1
  <2> QED
    BY <2>2 DEF x, y
<1>16. PortsAt(call', mem', target', 0, a, w, size)
  BY DEF PortsAt
<1>17. InPiece(0, a, w, size)'
  BY <1>9, <1>12, <1>14, <1>15, <1>16 DEF InPiece
<1>18. SomePiece'
  <2>1. Len(todo') + 0 = w + 5 /\ 0 \in 0 .. Page + 4
    BY <1>9, Sizes
  <2> QED
    BY <1>17, <2>1 DEF SomePiece
<1>19. SwdTypeOK'
  <2>1. call \in Calls \union {Never, [Never EXCEPT !.op = "connect"]}
    BY <1>4
  <2> QED
    BY <1>1, <1>2, <1>11, <2>1 DEF SwdTypeOK
<1>20. CacheOK'
  <2>1. /\ ~Trying("SELECT") /\ ~Trying("CSW") /\ ~Trying("SELECT")' /\ ~Trying("CSW")'
    BY <1>1, <1>10 DEF Trying
  <2> QED
    BY <1>1, <1>2, <2>1 DEF CacheOK
<1>21. OneWord'
  <2>1. call.op \in {"read_word", "write_word"} => next' = call.addr + call.size
    BY <1>1, <1>7 DEF n
  <2> QED
    BY <1>1, <2>1 DEF OneWord
<1>22. InCall' /\ status' # "true" /\ call' # Never /\ ~Connecting' /\ todo' # <<>>
  <2>1. Len(todo') # 0
    BY <1>9
  <2>2. todo' # <<>>
    BY <2>1
  <2> QED
    BY <1>1, <1>3, <2>2 DEF InCall, MemoryIInv, Connecting
<1> QED
  BY <1>9, <1>18, <1>19, <1>20, <1>21, <1>22 DEF MemoryIInv

\* Nothing but the status changes.
LEMMA ReturnKeeps ==
    ASSUME MemoryIInv, Return
    PROVE  MemoryIInv'
<1>1. /\ InCall /\ todo = <<>> /\ next = call.addr + call.size /\ status' = "true"
      /\ UNCHANGED <<mem, target, cache, todo, tries, polls, call, next, got, trusted, repeated>>
  BY DEF Return
<1>2. SwdTypeOK /\ CacheOK /\ OneWord /\ (~Connecting => Between)
  BY <1>1 DEF MemoryIInv
<1>3. /\ mem \in [Addrs -> Byte] /\ target \in Ports /\ cache \in Beliefs
      /\ tries \in 0 .. MaxRetry /\ polls \in 0 .. MaxPolls - 1
      /\ got \in Seq(Byte \union {Junk}) /\ Len(got) <= call.size
      /\ trusted \in BOOLEAN /\ repeated \in BOOLEAN
  BY <1>2, Typed
<1>4. SwdTypeOK' /\ OneWord'
  BY <1>1, <1>2, <1>3, SameTypes DEF OneWord
<1>5. CacheOK'
  <2>1. /\ ~Trying("SELECT") /\ ~Trying("CSW") /\ ~Trying("SELECT")' /\ ~Trying("CSW")'
    BY <1>1 DEF Trying
  <2> QED
    BY <1>1, <1>2, <2>1 DEF CacheOK
<1>6. ~InCall' /\ todo' = <<>> /\ todo' \in Seq(Transfer)
  BY <1>1 DEF InCall
<1>7. ASSUME ~Connecting' PROVE Between' /\ next' = call'.addr + call'.size
  <2>1. Between
    BY <1>1, <1>2, <1>7 DEF Connecting
  <2> QED
    BY <1>1, <2>1 DEF Between, ReadTo, WrittenTo, Reading, Writing
<1>8. tries' = 0
  BY <1>1 DEF MemoryIInv
<1> QED
  BY <1>4, <1>5, <1>6, <1>7, <1>8 DEF MemoryIInv

\* A new call has nothing read, written or under way.
LEMMA UserKeeps ==
    ASSUME MemoryIInv, User
    PROVE  MemoryIInv'
<1>1. SwdTypeOK /\ CacheOK /\ ~InCall /\ todo = <<>> /\ tries = 0
  <2>1. status # "running"
    BY DEF User, Connect, Call, Begins
  <2> QED
    BY <2>1 DEF MemoryIInv, InCall
<1>2. /\ mem \in [Addrs -> Byte] /\ target \in Ports /\ cache \in Beliefs /\ trusted \in BOOLEAN
      /\ 0 \in 0 .. MaxRetry /\ 0 \in 0 .. MaxPolls - 1
  BY <1>1, Typed, Sizes
<1>3. CASE Connect
  <2> DEFINE c == [Never EXCEPT !.op = "connect"]
  <2>1. /\ c.op = "connect" /\ c.addr = 0 /\ c.size = 0
    BY DEF Never
  <2>2. /\ call' = c /\ status' = "running" /\ next' = 0 /\ got' = <<>>
        /\ todo' = ConnectPlan /\ tries' = 0 /\ polls' = 0 /\ repeated' = FALSE
        /\ mem' = mem /\ target' = target /\ cache' = Unset /\ trusted' = TRUE
    BY <1>3, <2>1 DEF Connect, Begins
  <2>3. /\ Unset \in Beliefs /\ Unset.csw = "fake" /\ Unset.select = "fake"
    BY DEF Unset, Beliefs
  <2>4. call' \in Calls \union {Never, [Never EXCEPT !.op = "connect"]}
    BY <2>2
  <2>5. /\ next' \in call'.addr .. call'.addr + call'.size
        /\ got' \in Seq(Byte \union {Junk}) /\ Len(got') <= call'.size
    <3> HIDE DEF c
    <3>1. 0 \in 0 .. 0 + 0
      OBVIOUS
    <3>2. <<>> \in Seq(Byte \union {Junk}) /\ Len(<<>>) = 0
      OBVIOUS
    <3> QED
      BY <2>1, <2>2, <3>1, <3>2
  <2> HIDE DEF c
  <2>6. SwdTypeOK'
    BY <1>2, <2>2, <2>3, <2>4, <2>5 DEF SwdTypeOK, Ports, Beliefs
  <2>7. CacheOK'
    BY <2>2, <2>3 DEF CacheOK
  <2>8. OneWord' /\ Connecting' /\ call' # Never
    <3>1. Never.op = "none"
      BY DEF Never
    <3> QED
      BY <2>1, <2>2, <3>1 DEF OneWord, Connecting
  <2>9. ConnectPlan \in Seq(Transfer) /\ Len(ConnectPlan) = 7
    <3>1. /\ Fetch("IDCODE", "none") \in Transfer /\ Fetch("STAT", "none") \in Transfer
          /\ Request("ABORT", "clear") \in Transfer /\ Request("SELECT", "zero") \in Transfer
          /\ Request("CTRL", "power") \in Transfer /\ Request("CTRL", "normal") \in Transfer
      BY Requests
    <3> QED
      BY <3>1 DEF ConnectPlan
  <2>10. InConnect'
    <3>1. \A i \in 1 .. 7 : (7 - 7) + i = i
      OBVIOUS
    <3> HIDE DEF c
    <3>2. 7 <= 7
      OBVIOUS
    <3> QED
      BY <2>2, <2>3, <2>9, <3>1, <3>2 DEF InConnect
  <2>11. todo' # <<>> /\ InCall' /\ status' # "true"
    <3>1. Len(todo') = 7
      BY <2>2, <2>9
    <3> QED
      BY <2>2, <3>1 DEF InCall
  <2> QED
    BY <2>2, <2>6, <2>7, <2>8, <2>9, <2>10, <2>11 DEF MemoryIInv
<1>4. ASSUME NEW c \in Calls, Call(c) PROVE MemoryIInv'
  <2>1. /\ call' = c /\ status' = "running" /\ next' = c.addr /\ got' = <<>>
        /\ todo' = <<>> /\ tries' = 0 /\ polls' = 0 /\ repeated' = FALSE
        /\ mem' = mem /\ target' = target /\ cache' = cache /\ trusted' = trusted
    BY <1>4 DEF Call, Begins
  <2>2. c.addr \in Nat /\ c.size \in Nat /\ c.op # "connect"
    <3>1. c \in [op : {"read", "write", "read_word", "write_word"}, addr : Addrs, size : Nat,
                 data : Seq(Byte)]
      BY MemoryAssumption
    <3> QED
      BY <3>1, Sizes
  <2>3. /\ next' \in call'.addr .. call'.addr + call'.size
        /\ got' \in Seq(Byte \union {Junk}) /\ Len(got') = 0 /\ Len(got') <= call'.size
    <3>1. c.addr \in c.addr .. c.addr + c.size
      BY <2>2
    <3>2. <<>> \in Seq(Byte \union {Junk}) /\ Len(<<>>) = 0
      OBVIOUS
    <3> QED
      BY <2>1, <2>2, <3>1, <3>2
  <2>4. SwdTypeOK'
    BY <1>2, <2>1, <2>3 DEF SwdTypeOK, Ports, Beliefs
  <2>5. CacheOK'
    <3>1. /\ ~Trying("SELECT") /\ ~Trying("CSW") /\ ~Trying("SELECT")' /\ ~Trying("CSW")'
      BY <1>1, <2>1 DEF Trying
    <3> QED
      BY <1>1, <2>1, <3>1 DEF CacheOK
  <2>6. OneWord' /\ ~Connecting'
    BY <2>1, <2>2 DEF OneWord, Connecting
  <2>7. call' # Never
    <3>1. Never.op = "none"
      BY DEF Never
    <3>2. c.op # "none"
      BY MemoryAssumption
    <3> QED
      BY <2>1, <3>1, <3>2
  <2>8. ReadTo(next)'
    <3>1. c.addr + 0 = c.addr
      BY <2>2
    <3>2. SameAs(call', mem', got')
      <4>1. \A i \in 1 .. Len(got') : FALSE
        BY <2>3
      <4> QED
        BY <4>1 DEF SameAs
    <3> QED
      BY <2>1, <2>3, <3>1, <3>2 DEF ReadTo
  <2>9. WrittenTo(next)'
    <3>1. \A b \in c.addr .. c.addr - 1 : FALSE
      BY <2>2
    <3> QED
      BY <2>1, <3>1 DEF WrittenTo, PutTo
  <2>10. Between' /\ status' # "true" /\ todo' \in Seq(Transfer) /\ InCall'
    BY <2>1, <2>8, <2>9 DEF Between, InCall
  <2> QED
    BY <2>1, <2>4, <2>5, <2>6, <2>7, <2>10 DEF MemoryIInv
<1> QED
  BY <1>3, <1>4 DEF User

\* Nothing changes.
LEMMA StutterKeeps ==
    ASSUME MemoryIInv, UNCHANGED vars
    PROVE  MemoryIInv'
<1>1. UNCHANGED <<mem, target, cache, todo, tries, polls, call, status, next, got, trusted, repeated>>
  BY DEF vars, host
<1>2. SwdTypeOK' /\ todo' \in Seq(Transfer)
  BY <1>1 DEF MemoryIInv, SwdTypeOK
<1>3. CacheOK' /\ OneWord'
  BY <1>1 DEF MemoryIInv, CacheOK, OneWord, Trying
<1>4. /\ ~InCall' => todo' = <<>>
      /\ todo' = <<>> => tries' = 0
      /\ InCall' => call' # Never
  BY <1>1 DEF MemoryIInv, InCall
<1>5. InCall' /\ Connecting' => InConnect'
  BY <1>1 DEF MemoryIInv, InCall, Connecting, InConnect
<1>6. Between => Between'
  BY <1>1 DEF Between, ReadTo, WrittenTo, Reading, Writing
<1>7. SomePiece => SomePiece'
  <2> SUFFICES ASSUME SomePiece PROVE SomePiece'
    OBVIOUS
  <2>1. PICK p \in 0 .. Page + 4, a \in Addrs, w \in 1 .. Page, size \in {"byte", "word"} :
          Len(todo) + p = w + 5 /\ InPiece(p, a, w, size)
    BY DEF SomePiece
  <2>2. InPiece(p, a, w, size)'
    BY <1>1, <2>1 DEF InPiece, ReadTo, WrittenTo, InStep, Reading, Writing
  <2> QED
    BY <1>1, <2>1, <2>2 DEF SomePiece
<1>8. InCall' /\ ~Connecting' => IF todo' = <<>> THEN Between' ELSE SomePiece'
  <2> SUFFICES ASSUME InCall', ~Connecting' PROVE IF todo' = <<>> THEN Between' ELSE SomePiece'
    OBVIOUS
  <2>1. InCall /\ ~Connecting
    BY <1>1 DEF InCall, Connecting
  <2>2. IF todo = <<>> THEN Between ELSE SomePiece
    BY <2>1 DEF MemoryIInv
  <2> QED
    BY <1>1, <1>6, <1>7, <2>2
<1>9. status' = "true" => Connecting' \/ (Between' /\ next' = call'.addr + call'.size)
  <2>1. status = "true" => Connecting \/ (Between /\ next = call.addr + call.size)
    BY DEF MemoryIInv
  <2> QED
    BY <1>1, <1>6, <2>1 DEF Connecting
<1> QED
  BY <1>2, <1>3, <1>4, <1>5, <1>8, <1>9 DEF MemoryIInv

\* Nothing was done yet.
LEMMA InitKeeps ==
    ASSUME Init
    PROVE  MemoryIInv
<1>1. /\ mem = FirstMem /\ cache = Unset /\ todo = <<>> /\ tries = 0 /\ polls = 0
      /\ call = Never /\ status = "new" /\ next = 0 /\ got = <<>>
      /\ trusted = FALSE /\ repeated = FALSE
      /\ target \in [select : {"zero", "other"}, csw : {"byte", "word"}, tar : {0},
                     posted : {NoWord}, sticky : BOOLEAN]
  BY DEF Init
<1>2. mem \in [Addrs -> Byte] /\ 0 \in 0 .. MaxRetry /\ 0 \in 0 .. MaxPolls - 1
  BY <1>1, Sizes, MemoryAssumption
<1>3. target \in Ports
  BY <1>1, NoWordIs, Sizes DEF Ports
<1>4. cache \in Beliefs
  BY <1>1 DEF Unset, Beliefs
<1>5. Never.op = "none" /\ Never.addr = 0 /\ Never.size = 0
  BY DEF Never
<1>6. next \in call.addr .. call.addr + call.size /\ got \in Seq(Byte \union {Junk})
      /\ Len(got) <= call.size
  BY <1>1, <1>5
<1>7. SwdTypeOK
  BY <1>1, <1>2, <1>3, <1>4, <1>6, Typed
<1>8. CacheOK /\ OneWord /\ ~InCall /\ status # "true" /\ todo \in Seq(Transfer)
  BY <1>1, <1>5 DEF CacheOK, OneWord, InCall
<1> QED
  BY <1>1, <1>7, <1>8 DEF MemoryIInv

\* Every step of the specification keeps the invariant.
LEMMA MemoryInductive ==
    ASSUME MemoryIInv, [Next]_vars
    PROVE  MemoryIInv'
<1>1. CASE User
  BY <1>1, UserKeeps
<1>2. CASE NextPiece
  BY <1>2, NextPieceKeeps
<1>3. CASE Return
  BY <1>3, ReturnKeeps
<1>4. CASE Skip
  BY <1>4, SkipKeeps
<1>5. CASE Answer
  BY <1>5, AnswerKeeps
<1>6. CASE Wait
  BY <1>6, WaitKeeps
<1>7. CASE UNCHANGED vars
  BY <1>7, StutterKeeps
<1> QED
  BY <1>1, <1>2, <1>3, <1>4, <1>5, <1>6, <1>7 DEF Next, Step

-----------------------------------------------------------------------------
(***************************************************************************)
(* The theorems.                                                           *)
(***************************************************************************)

\* The inductive invariant of memory access: where the ports, the caches and
\* what the user has are after every transfer.
THEOREM MemoryIInvHolds == Spec => []MemoryIInv
<1>1. Init => MemoryIInv
  BY InitKeeps
<1>2. MemoryIInv /\ [Next]_vars => MemoryIInv'
  BY MemoryInductive
<1> QED
  BY <1>1, <1>2, PTL DEF Spec

\* A write that returned true is in the memory.
LEMMA WritesRightFrom == MemoryIInv => WritesRight
<1> SUFFICES ASSUME MemoryIInv, trusted, status = "true", Writing, NEW a \in Covered
             PROVE  mem[a] = call.data[(a - call.addr) + 1]
  BY DEF WritesRight, GivenStored
<1>1. ~Connecting
  BY DEF Writing, Connecting
<1>2. WrittenTo(next) /\ next = call.addr + call.size
  BY <1>1 DEF MemoryIInv, Between
<1>3. PutTo(call, mem, call.addr + call.size)
  BY <1>2 DEF WrittenTo
<1> QED
  BY <1>3 DEF PutTo, Covered

\* A read that returned true, of which no read of DRW was done again, has what
\* is in the memory.
LEMMA ReadsRightFrom == MemoryIInv => ReadsRight
<1> SUFFICES ASSUME MemoryIInv, trusted, ~repeated, status = "true", Reading
             PROVE  got = [i \in 1 .. call.size |-> mem[call.addr + (i - 1)]]
  BY DEF ReadsRight, GotRight
<1>1. ~Connecting
  BY DEF Reading, Connecting
<1>2. ReadTo(next) /\ next = call.addr + call.size /\ SwdTypeOK
  BY <1>1 DEF MemoryIInv, Between
<1>3. call.addr + Len(got) = call.addr + call.size /\ SameAs(call, mem, got)
  BY <1>2 DEF ReadTo
<1>4. got \in Seq(Byte \union {Junk})
  BY <1>2, Typed
<1>5. call \in Calls
  <2>1. call \in Calls \union {Never, [Never EXCEPT !.op = "connect"]}
    BY <1>2, Typed
  <2>2. Never.op = "none" /\ [Never EXCEPT !.op = "connect"].op = "connect"
    BY DEF Never
  <2> QED
    BY <2>1, <2>2 DEF Reading
<1>6. call.addr \in Nat /\ call.size \in Nat
  BY <1>5, CallIs
<1>7. Len(got) = call.size
  BY <1>3, <1>4, <1>6
<1>8. \A i \in 1 .. call.size : got[i] = mem[call.addr + (i - 1)]
  BY <1>3, <1>7 DEF SameAs
<1>9. got = [i \in 1 .. Len(got) |-> got[i]]
  BY <1>4
<1> QED
  BY <1>7, <1>8, <1>9

\* MemoryInv of swd_iface.cpp's memory access: the types, and that a write
\* that returned true is in the memory.
THEOREM MemoryInvHolds == Spec => []MemoryInv
<1>1. MemoryIInv => MemoryInv
  BY WritesRightFrom DEF MemoryInv, MemoryIInv
<1> QED
  BY <1>1, MemoryIInvHolds, PTL

\* ReadsRight of read_memory and read_word: a read that returned true, of
\* which no read of DRW was done again, has what is in the memory.
THEOREM ReadsRightHolds == Spec => []ReadsRight
  BY ReadsRightFrom, MemoryIInvHolds, PTL

\* Where a step writes.
LEMMA StepWrites ==
    ASSUME MemoryIInv, [Next]_vars, trusted, NEW b \in Addrs, mem'[b] # mem[b]
    PROVE  Writing /\ b \in Covered
<1> DEFINE r == Head(todo)
<1>1. mem' # mem
  OBVIOUS
<1>2. Answer
  BY <1>1 DEF Next, User, Connect, Call, Begins, Step, NextPiece, Return, Skip, Wait, Waits,
              vars
<1>3. InCall /\ todo # <<>> /\ Exchange(r) /\ Answered(r)
  BY <1>2 DEF Answer, Transfers
<1>4. Accepts(r) /\ Effect(r) /\ r.keep # "null"
  BY <1>1, <1>3 DEF Answered, Taken, TakenInVain, ReadGarbled, Crashes, Refused, NoReply, Exchange
<1>5. SwdTypeOK /\ CacheOK /\ todo \in Seq(Transfer) /\ r \in Transfer
  BY <1>3, HeadIs DEF MemoryIInv
<1>6. r.reg = "DRW" /\ r.write /\ (target.select = "zero" => mem' = Stored(r.value))
  <2>1. mem' # mem
    BY <1>1
  <2> HIDE DEF r
  <2> QED
    BY <1>4, <1>5, <2>1, EffectIs
<1>7. ~target.sticky
  <2> HIDE DEF r
  <2> QED
    BY <1>4, <1>6 DEF Accepts
<1>8. ~Connecting
  <2> SUFFICES ASSUME Connecting PROVE FALSE
    OBVIOUS
  <2>1. InConnect
    BY <1>3 DEF MemoryIInv
  <2>2. PICK n \in 1 .. 7 : ConnectHead(n)
    BY <1>3, <1>5, <2>1, ConnectNext
  <2> QED
    BY <1>6, <2>2 DEF ConnectHead
<1>9. PICK p \in Nat, a \in Addrs, w \in 1 .. Page, size \in {"byte", "word"} :
        PieceKnown(p, a, w, size)
  BY <1>3, <1>8, InSomePiece
<1>10. call \in Calls
  BY <1>3, <1>8, UserCall
<1>11. /\ IsPiece(call, next, a, w, size) /\ w \in Nat \ {0} /\ a \in Nat
       /\ (InStep => PortsAt(call, mem, target, p, a, w, size))
  BY <1>9 DEF PieceKnown, InPiece
<1>12. Writing /\ p \in 4 .. w + 3
       /\ r = Request("DRW", Laned(call.data, call.addr, a + ((p - 4) * Unit(size)), Unit(size)))
  <2>1. Reading \/ Writing
    BY <1>10, CallIs
  <2>2. \/ Writing /\ p \in 4 .. w + 3
           /\ r = Request("DRW", Laned(call.data, call.addr, a + ((p - 4) * Unit(size)), Unit(size)))
        \/ r \in {RdBuff, NullWrite}
        \/ \E reg \in {"SELECT", "CSW", "TAR"} : \E v : r = Request(reg, v)
        \/ \E reg \in {"RDBUFF", "DRW"} : \E k : r = Fetch(reg, k)
    BY <1>9, <1>10, <2>1, KindIs
  <2>3. r.reg = "DRW" /\ r.write /\ r.keep # "null"
    BY <1>4, <1>6
  <2> HIDE DEF r
  <2> QED
    BY <2>2, <2>3, Fields
<1>13. target.select = "zero" /\ target.csw = size
  <2>1. p >= 1 /\ p >= 2 /\ r.reg # "SELECT" /\ r.reg # "CSW"
    BY <1>6, <1>12
  <2> QED
    BY <1>5, <1>7, <1>9, <2>1, CacheTells
<1> DEFINE u == Unit(size)
           k == p - 4
           x == a + (k * u)
<1>14. k \in Nat /\ k < w /\ DoneAfter(p, w) = k /\ p >= 4
  BY <1>11, <1>12 DEF DoneAfter
<1>15. target.tar = x
  <2>1. PortsAt(call, mem, target, p, a, w, size)
    BY <1>7, <1>11, <1>12 DEF InStep
  <2> QED
    BY <1>14, <2>1 DEF PortsAt
<1>16. AccessAt(x, a, w, k, size)
  <2> HIDE DEF k
  <2> QED
    BY <1>10, <1>11, <1>14, Accesses
<1>17. /\ x \in Nat /\ call.addr <= x /\ x + u <= call.addr + call.size
       /\ (size = "word" => x % WordSize = 0)
  BY <1>16 DEF AccessAt
<1>18. mem' = Stored(Laned(call.data, call.addr, x, u))
  <2>1. r.value = Laned(call.data, call.addr, x, u)
    <3>1. r = Request("DRW", Laned(call.data, call.addr, x, u))
      BY <1>12
    <3> HIDE DEF r, x, u
    <3> QED
      BY <3>1, Fields
  <2> QED
    BY <1>6, <1>13, <2>1
<1> HIDE DEF x, k
<1>19. mem'[b] = IF x <= b /\ b < x + u THEN call.data[(b - call.addr) + 1] ELSE mem[b]
  BY <1>5, <1>10, <1>12, <1>13, <1>15, <1>17, <1>18, StoredIs
<1>20. x <= b /\ b < x + u
  BY <1>19
<1>21. b \in call.addr .. (call.addr + call.size) - 1
  <2>1. call.addr \in Nat /\ call.size \in Nat /\ b \in Nat /\ u \in Nat
    BY <1>10, CallIs, Sizes DEF Unit
  <2> HIDE DEF u
  <2> QED
    BY <1>17, <1>20, <2>1
<1> QED
  BY <1>12, <1>21 DEF Covered

\* WritesInRange of write_memory: while no call has failed, a step changes only
\* bytes the call was asked to write.
THEOREM WritesInRangeHolds == Spec => WritesInRange
<1>1. MemoryIInv /\ [Next]_vars =>
        [trusted => \A a \in Addrs : mem'[a] # mem[a] => Writing /\ a \in Covered]_vars
  BY StepWrites
<1> QED
  BY <1>1, MemoryIInvHolds, PTL DEF Spec, WritesInRange
=============================================================================

----------------------------- MODULE SwdMemory -----------------------------
(***************************************************************************)
(* Access to the target's memory over SWD (swd_iface.cpp): transfers with  *)
(* their retries, the SELECT and CSW caches, posted reads, and the blocks  *)
(* and bytes read_memory and write_memory are made of.                     *)
(*                                                                         *)
(* A call is a list of transfers, `todo', whose head is tried until the    *)
(* target answers.  The debug port and the memory access port are external *)
(* (the operators over `target'); the code relies on what they say.        *)
(***************************************************************************)
EXTENDS Integers, Sequences, SequencesExt

CONSTANTS
  WordSize,    \* bytes of a word (4 in the code)
  Page,        \* TARGET_AUTO_INCREMENT_PAGE_SIZE (1024 in the code)
  Addrs,       \* the addresses of the memory: 0 .. n, whole pages
  Byte,        \* values of a byte, 0 among them
  Junk,        \* what is read where nothing was put
  FirstMem,    \* the memory at the start
  Calls,       \* the calls the user makes
  MaxRetry,    \* MAX_SWD_RETRY (100 in the code)
  MaxPolls     \* `timeout' of the power-up poll (100 in the code)

\* The memory has whole pages.  Calls stay inside it, and words are aligned: all
\* callers of read_word and write_word name a debug register.
ASSUME MemoryAssumption ==
  /\ WordSize \in Nat \ {0} /\ Page \in Nat \ {0} /\ Page % WordSize = 0
  /\ Addrs \subseteq Nat /\ 0 \in Addrs
  /\ \A a \in Addrs, i \in 0 .. Page - 1 : (a - (a % Page)) + i \in Addrs
  /\ 0 \in Byte /\ Junk \notin Byte
  /\ FirstMem \in [Addrs -> Byte]
  /\ Calls \subseteq [op : {"read", "write", "read_word", "write_word"},
                     addr : Addrs, size : Nat, data : Seq(Byte)]
  /\ \A c \in Calls :
       /\ c.addr .. (c.addr + c.size) - 1 \subseteq Addrs
       /\ c.op \in {"write", "write_word"} => Len(c.data) = c.size
       /\ c.op \in {"read_word", "write_word"} => c.size = WordSize /\ c.addr % WordSize = 0
  /\ MaxRetry \in Nat \ {0} /\ MaxPolls \in Nat \ {0}

VARIABLES
  mem,         \* the target's memory
  target,      \* its ports: select, csw, tar, posted, sticky
  cache,       \* _dap_state: what the host believes select and csw to be
  todo,        \* the transfers left of the present piece of the call
  tries,       \* `i' of transfer_retry, up to MaxRetry
  polls,       \* `i' of the power-up poll
  call,        \* the call in progress or the last one
  status,      \* "running", or what the call returned
  next,        \* the address the next piece starts at
  got,         \* the bytes read so far
  trusted,     \* history: no call has failed since the last init_debug
  repeated     \* history: a DRW read of this call was done again

host == <<cache, todo, tries, polls, call, status, next, got>>
vars == <<mem, target, host, trusted, repeated>>

Lanes == 0 .. WordSize - 1
Word == [Lanes -> Byte \union {Junk}]
NoWord == [l \in Lanes |-> Junk]

----------------------------------------------------------------------------
(* The target (external): a memory access port behind a debug port.        *)

Width == IF target.csw = "byte" THEN 1 ELSE WordSize
Base == target.tar - (target.tar % Width)

\* The word a read of DRW fetches; a byte arrives on the lane of its address.
Fetched ==
  [l \in Lanes |->
     IF target.csw = "word" \/ l = target.tar % WordSize
       THEN mem[(target.tar - (target.tar % WordSize)) + l] ELSE Junk]

Stored(v) == [a \in Addrs |-> IF a \in Base .. Base + Width - 1 THEN v[a % WordSize] ELSE mem[a]]

\* The address register increments inside its page only.
Advanced == (target.tar - (target.tar % Page)) + ((target.tar + Width) % Page)

\* After an error the port refuses everything but what shows or clears it.
Accepts(r) == target.sticky => r.reg \in {"IDCODE", "STAT", "ABORT"}

\* What an accepted request does.
Effect(r) ==
  LET bank == target.select = "zero" IN
  CASE r.reg = "ABORT"  -> target' = [target EXCEPT !.sticky = FALSE] /\ UNCHANGED mem
    [] r.reg = "SELECT" -> target' = [target EXCEPT !.select = r.value] /\ UNCHANGED mem
    [] r.reg = "CSW" /\ bank -> target' = [target EXCEPT !.csw = r.value] /\ UNCHANGED mem
    [] r.reg = "TAR" /\ bank -> target' = [target EXCEPT !.tar = r.value] /\ UNCHANGED mem
    [] r.reg = "DRW" /\ bank /\ r.write ->
         target' = [target EXCEPT !.tar = Advanced] /\ mem' = Stored(r.value)
    [] r.reg = "DRW" /\ bank /\ ~r.write ->
         target' = [target EXCEPT !.tar = Advanced, !.posted = Fetched] /\ UNCHANGED mem
    [] r.reg = "DRW" /\ ~bank /\ ~r.write ->
         target' = [target EXCEPT !.posted = NoWord] /\ UNCHANGED mem
    [] OTHER -> UNCHANGED <<target, mem>>

----------------------------------------------------------------------------
(* The transfers of a call.                                                *)

Request(reg, value) == [reg |-> reg, write |-> TRUE, value |-> value, keep |-> "none"]
Fetch(reg, keep) == [reg |-> reg, write |-> FALSE, value |-> "none", keep |-> keep]

RdBuff == Fetch("RDBUFF", "none")
NullWrite == [reg |-> "DRW", write |-> TRUE, value |-> "none", keep |-> "null"]

\* write_ap of CSW: SELECT, the register, and a read that reports its fate.
SetCsw(size) == <<Request("SELECT", "zero"), Request("CSW", size), RdBuff>>

\* read_data: the answer to the read of DRW comes with RDBUFF.
ReadData(size, a) ==
  SetCsw(size) \o <<Request("TAR", a), Fetch("DRW", "none"), Fetch("RDBUFF", size)>>

WriteData_SameSize(size, a, v) == <<Request("TAR", a), Request("DRW", v), RdBuff>>

\* write_data: the `if (address)' without braces belongs to the assignment of
\* the request, so that at address 0 DRW is written again, from a null pointer.
WriteData(size, a, v) ==
  SetCsw(size) \o <<Request("TAR", a), Request("DRW", v),
                    IF a # 0 THEN RdBuff ELSE NullWrite>>

ReadBlock_NotPosted(a, words) ==
  SetCsw("word") \o <<Request("TAR", a)>>
    \o [i \in 1 .. words |-> Fetch("DRW", "word")] \o <<RdBuff>>

ReadBlock(a, words) ==
  SetCsw("word") \o <<Request("TAR", a), Fetch("DRW", "none")>>
    \o [i \in 1 .. words - 1 |-> Fetch("DRW", "word")] \o <<Fetch("RDBUFF", "word")>>

\* The bytes of `data' at address a, on their lanes.
Laned(data, from, a, n) ==
  [l \in Lanes |-> IF l \in a % WordSize .. (a % WordSize) + n - 1
                     THEN data[(a - from) + (l - (a % WordSize)) + 1] ELSE 0]

WriteBlock_NoReport(a, words, data, from) ==
  SetCsw("word") \o <<Request("TAR", a)>>
    \o [i \in 1 .. words |-> Request("DRW", Laned(data, from, a + ((i - 1) * WordSize), WordSize))]

WriteBlock(a, words, data, from) ==
  SetCsw("word") \o <<Request("TAR", a)>>
    \o [i \in 1 .. words |-> Request("DRW", Laned(data, from, a + ((i - 1) * WordSize), WordSize))]
    \o <<RdBuff>>

\* init_debug: `jtag_to_swd' ends with a read of IDCODE.
ConnectPlan ==
  <<Fetch("IDCODE", "none"), Request("ABORT", "clear"), Request("SELECT", "zero"),
    Request("CTRL", "power"), Fetch("STAT", "none"), Request("CTRL", "normal"),
    Request("SELECT", "zero")>>

\* The bytes the next piece covers: one, or whole words of one page.
Piece ==
  LET left == (call.addr + call.size) - next IN
  IF next % WordSize # 0 \/ left < WordSize THEN 1
  ELSE LET page == Page - (next % Page) IN
       IF left < page THEN left - (left % WordSize) ELSE page

PlanOf(n) ==
  CASE call.op = "read" /\ n = 1 -> ReadData("byte", next)
    [] call.op = "read" /\ n > 1 -> ReadBlock(next, n \div WordSize)
    [] call.op = "write" /\ n = 1 ->
         WriteData("byte", next, Laned(call.data, call.addr, next, 1))
    [] call.op = "write" /\ n > 1 -> WriteBlock(next, n \div WordSize, call.data, call.addr)
    [] call.op = "read_word" -> ReadData("word", next)
    [] call.op = "write_word" -> WriteData("word", next, Laned(call.data, call.addr, next, WordSize))

----------------------------------------------------------------------------
Unset == [select |-> "fake", csw |-> "fake"]
Never == [op |-> "none", addr |-> 0, size |-> 0, data |-> <<>>]

Init ==
  /\ mem = FirstMem
  /\ target \in [select : {"zero", "other"}, csw : {"byte", "word"}, tar : {0},
                 posted : {NoWord}, sticky : BOOLEAN]
  /\ cache = Unset
  /\ todo = <<>> /\ tries = 0 /\ polls = 0
  /\ call = Never /\ status = "new" /\ next = 0 /\ got = <<>>
  /\ trusted = FALSE /\ repeated = FALSE

Begins(c, plan) ==
  /\ status # "running"
  /\ call' = c /\ status' = "running" /\ next' = c.addr /\ got' = <<>>
  /\ todo' = plan /\ tries' = 0 /\ polls' = 0
  /\ repeated' = FALSE
  /\ UNCHANGED <<mem, target>>

\* init_debug, and the same from a new process: the caches get fake values.
Connect ==
  /\ Begins([Never EXCEPT !.op = "connect"], ConnectPlan)
  /\ cache' = Unset /\ trusted' = TRUE

\* A call of the user, who may go on after a failed one: set_target_state
\* resumes or resets the target without connecting again.
Call(c) ==
  /\ status \in {"true", "false"}
  /\ Begins(c, <<>>)
  /\ UNCHANGED <<cache, trusted>>

User == Connect \/ \E c \in Calls : Call(c)

----------------------------------------------------------------------------
InCall == status = "running"

Fails(what) ==
  /\ status' = what /\ todo' = <<>> /\ tries' = 0 /\ trusted' = FALSE
  /\ UNCHANGED <<polls, call, next, got>>

\* The loops of read_memory and write_memory; read_word and write_word are a
\* piece of one word.
NextPiece ==
  /\ InCall /\ todo = <<>> /\ next < call.addr + call.size
  /\ LET n == IF call.op \in {"read", "write"} THEN Piece ELSE WordSize IN
       todo' = PlanOf(n) /\ next' = next + n
  /\ UNCHANGED <<mem, target, cache, tries, polls, call, status, got, trusted, repeated>>

Return ==
  /\ InCall /\ todo = <<>> /\ next = call.addr + call.size
  /\ status' = "true"
  /\ UNCHANGED <<mem, target, cache, todo, tries, polls, call, next, got, trusted, repeated>>

\* write_dp and write_ap: a register that is believed to hold the value is not
\* written; for CSW the read after it is not done either.
Cached(r) ==
  \/ r.reg = "SELECT" /\ cache.select = r.value
  \/ r.reg = "CSW" /\ cache.csw = r.value

Skip ==
  /\ InCall /\ todo # <<>> /\ tries = 0 /\ Cached(Head(todo))
  /\ todo' = IF Head(todo).reg = "CSW" THEN Tail(Tail(todo)) ELSE Tail(todo)
  /\ UNCHANGED <<mem, target, cache, tries, polls, call, status, next, got, trusted, repeated>>

\* The cache is set before the transfer, whatever becomes of it.
Believed(r) ==
  CASE r.reg = "SELECT" -> [cache EXCEPT !.select = r.value]
    [] r.reg = "CSW"    -> [cache EXCEPT !.csw = r.value]
    [] OTHER            -> cache

\* One exchange of transfer_retry, for the request at the head.
Exchange(r) ==
  /\ tries > 0 \/ ~Cached(r)
  /\ cache' = Believed(r)

\* What is kept of an answer: nothing, the byte on its lane, or the word.
Kept(r, w) ==
  CASE r.keep = "none" -> got
    [] r.keep = "byte" -> Append(got, w[(next - 1) % WordSize])
    [] r.keep = "word" -> got \o [i \in 1 .. WordSize |-> w[i - 1]]

\* TRANSFER_OK: on to the next transfer.  STAT is read again until it shows
\* power, MaxPolls times at most.
Acknowledged(r) ==
  /\ tries' = 0
  /\ UNCHANGED <<call, next, repeated>>
  /\ \/ /\ todo' = Tail(todo) /\ got' = Kept(r, target.posted)
        /\ UNCHANGED <<status, polls, trusted>>
     \/ /\ r.reg = "STAT" /\ polls + 1 < MaxPolls
        /\ polls' = polls + 1
        /\ UNCHANGED <<status, todo, got, trusted>>
     \/ /\ r.reg = "STAT" /\ polls + 1 = MaxPolls
        /\ status' = "false" /\ todo' = <<>> /\ trusted' = FALSE
        /\ UNCHANGED <<got, polls>>

\* Any other answer but WAIT and NO_REPLY: MaxRetry exchanges in all.
GivesUp == tries + 1 >= MaxRetry
Retried_FromZero(r) ==
  tries' = 0 /\ UNCHANGED <<todo, polls, call, status, next, got, trusted>>

Retried(r) ==
  IF GivesUp THEN Fails("false")
  ELSE /\ tries' = tries + 1
       /\ UNCHANGED <<todo, polls, call, status, next, got, trusted>>

Taken(r) == Accepts(r) /\ Effect(r) /\ Acknowledged(r)

\* The target has acknowledged, but the data of a write arrive with a wrong
\* parity or the memory access fails: nothing is done and the port is in error.
TakenInVain(r) ==
  /\ Accepts(r)
  /\ r.write \/ r.reg = "DRW"
  /\ target' = [target EXCEPT !.sticky = TRUE,
                              !.posted = IF r.write THEN @ ELSE NoWord]
  /\ UNCHANGED mem
  /\ Acknowledged(r)

\* The answer to a read arrives with a wrong parity: TRANSFER_ERROR, but the
\* target has done the read.
ReadGarbled(r) ==
  /\ Accepts(r) /\ ~r.write /\ Effect(r)
  /\ repeated' = (repeated \/ r.reg = "DRW")
  /\ Retried(r)

\* FAULT, or an acknowledge that is none of the known ones.
Refused(r) == Retried(r) /\ UNCHANGED <<mem, target, repeated>>

NoReply(r) == Fails("false") /\ UNCHANGED <<mem, target, repeated>>

\* WAIT is repeated without limit.
Waits(r) ==
  /\ tries' = IF tries < MaxRetry THEN tries + 1 ELSE tries
  /\ UNCHANGED <<mem, target, todo, polls, call, status, next, got, trusted, repeated>>

Transfers == InCall /\ todo # <<>> /\ Exchange(Head(todo))

\* Once the target has acknowledged a write, the word to send is read: from a
\* null pointer here.
Crashes(r) ==
  /\ r.keep = "null" /\ Accepts(r)
  /\ Fails("crashed") /\ UNCHANGED <<mem, target, repeated>>

Answered(r) ==
  \/ r.keep # "null" /\ (Taken(r) \/ TakenInVain(r) \/ ReadGarbled(r))
  \/ Crashes(r) \/ Refused(r) \/ NoReply(r)

Answer == Transfers /\ Answered(Head(todo))
Wait == Transfers /\ Waits(Head(todo))

Step == NextPiece \/ Return \/ Skip \/ Answer \/ Wait
Next == User \/ Step

\* The host goes on by itself.  That the target does not answer WAIT for ever
\* is an assumption: the code repeats it without limit.
Spec == Init /\ [][Next]_vars
FairSpec == Spec /\ WF_vars(Step) /\ WF_vars(Answer)

----------------------------------------------------------------------------
(* Properties.                                                             *)

Covered == call.addr .. (call.addr + call.size) - 1
Reading == call.op \in {"read", "read_word"}
Writing == call.op \in {"write", "write_word"}

\* Types of the state; the address register stays in the memory, and the next
\* piece in what the call covers.
SwdTypeOK ==
  /\ mem \in [Addrs -> Byte]
  /\ target \in [select : {"zero", "other"}, csw : {"byte", "word"}, tar : Addrs,
                  posted : Word, sticky : BOOLEAN]
  /\ cache \in [select : {"zero", "fake"}, csw : {"byte", "word", "fake"}]
  /\ tries \in 0 .. MaxRetry /\ polls \in 0 .. MaxPolls - 1
  /\ call \in Calls \union {Never, [Never EXCEPT !.op = "connect"]}
  /\ status \in {"new", "running", "true", "false", "crashed"}
  /\ next \in call.addr .. call.addr + call.size
  /\ got \in Seq(Byte \union {Junk}) /\ Len(got) <= call.size
  /\ trusted \in BOOLEAN /\ repeated \in BOOLEAN

\* What a read returned, it found at the addresses it was asked for.
GotRight ==
  status = "true" /\ Reading =>
    got = [i \in 1 .. call.size |-> mem[call.addr + (i - 1)]]

\* read_memory and read_word: whatever was retried, refused or lost on the
\* way, the bytes of a read that returns true are those of the memory, if no
\* call has failed since init_debug and no read of DRW was done again.
ReadsRight == trusted /\ ~repeated => GotRight

\* transfer_retry under read_block: the same with reads of DRW that were done
\* again.  Does not hold: they are answered with the next word.
RetriedReadsRight == trusted => GotRight

\* What a write that returned true was given is in the memory.
GivenStored ==
  status = "true" /\ Writing =>
    \A a \in Covered : mem[a] = call.data[(a - call.addr) + 1]

\* write_memory and write_word: true means written, although the target
\* acknowledges a write before its fate is known.
WritesRight == trusted => GivenStored

\* The invariant of memory access: types, and what was written is there.
MemoryInv == SwdTypeOK /\ WritesRight

\* A step of a call changes no byte outside the range it was asked to write,
\* and none at all if it reads: blocks and bytes go where they belong.
WritesInRange ==
  [][trusted => \A a \in Addrs : mem'[a] # mem[a] => Writing /\ a \in Covered]_vars

\* transfer_retry and the loops above it: every call returns.
CallReturns == (status = "running") ~> (status # "running")
============================================================================

-------------------------- MODULE SwdTargetProofs --------------------------
(***************************************************************************)
(* What holds of the target's core, for every list of core registers,      *)
(* every limit of the polls and every range of the read command.           *)
(***************************************************************************)
EXTENDS SwdTarget, SequenceTheorems, TLAPS

N == Len(RegOrder)

-----------------------------------------------------------------------------
(***************************************************************************)
(* The plans, place by place.                                              *)
(***************************************************************************)
IsSeq(s) == \E S : s \in Seq(S)

\* One sequence after another.
Joined(r, s, t) ==
    /\ IsSeq(r) /\ Len(s) \in Nat /\ Len(t) \in Nat /\ Len(r) = Len(s) + Len(t)
    /\ \A i \in 1 .. Len(s) : r[i] = s[i]
    /\ \A i \in Len(s) + 1 .. Len(s) + Len(t) : r[i] = t[i - Len(s)]

\* What concatenation makes of two sequences.
LEMMA Cat ==
    ASSUME NEW s, NEW t, IsSeq(s), IsSeq(t)
    PROVE  Joined(s \o t, s, t)
<1>1. PICK S, T : s \in Seq(S) /\ t \in Seq(T)
  BY DEF IsSeq
<1>2. s \in Seq(S \cup T) /\ t \in Seq(S \cup T) /\ Len(s) \in Nat /\ Len(t) \in Nat
  BY <1>1
<1>3. /\ s \o t \in Seq(S \cup T) /\ Len(s \o t) = Len(s) + Len(t)
      /\ \A i \in 1 .. Len(s) + Len(t) : (s \o t)[i] = IF i <= Len(s) THEN s[i] ELSE t[i - Len(s)]
  BY <1>2, ConcatProperties
<1>4. IsSeq(s \o t)
  BY <1>3 DEF IsSeq
<1> HIDE DEF IsSeq
<1> DEFINE r == s \o t
<1>5. IsSeq(r) /\ Len(r) = Len(s) + Len(t)
      /\ \A i \in 1 .. Len(s) + Len(t) : r[i] = IF i <= Len(s) THEN s[i] ELSE t[i - Len(s)]
  BY <1>3, <1>4
<1> HIDE DEF r
<1>6. Joined(r, s, t)
  BY <1>2, <1>5 DEF Joined
<1> QED
  BY <1>6 DEF r

\* Sequences that are written out.
LEMMA Short ==
    ASSUME NEW a, NEW b, NEW c, NEW d, NEW e, NEW f
    PROVE  /\ IsSeq(<<a>>) /\ IsSeq(<<a, b>>) /\ IsSeq(<<a, b, c>>)
           /\ IsSeq(<<a, b, c, d, e, f>>)
<1>1. <<a>> \in Seq({a}) /\ <<a, b>> \in Seq({a, b}) /\ <<a, b, c>> \in Seq({a, b, c})
      /\ <<a, b, c, d, e, f>> \in Seq({a, b, c, d, e, f})
  OBVIOUS
<1> QED
  BY <1>1 DEF IsSeq

\* Stopping the core, without a reset and with one.
LEMMA HaltPlan ==
    /\ IsSeq(Halt) /\ Len(Halt) = 4
    /\ Halt[1] = Pins("on") /\ Halt[2] = Port("init_debug")
    /\ Halt[3] = Put("DHCSR", {"debugen", "halt"}) /\ Halt[4] = Poll("HALT", NoLimit)
<1> DEFINE s == <<Pins("on"), Port("init_debug")>>
<1>1. IsSeq(s) /\ IsSeq(HaltCore)
  BY Short DEF HaltCore
<1>2. Halt = s \o HaltCore
  BY DEF Halt
<1>3. /\ Len(s) = 2 /\ s[1] = Pins("on") /\ s[2] = Port("init_debug")
      /\ Len(HaltCore) = 2 /\ HaltCore[1] = Put("DHCSR", {"debugen", "halt"})
      /\ HaltCore[2] = Poll("HALT", NoLimit)
  BY DEF HaltCore
<1> HIDE DEF s
<1>4. Joined(Halt, s, HaltCore)
  BY <1>1, <1>2, Cat
<1> QED
  BY <1>3, <1>4 DEF Joined

\* The exchanges of a reset that halts the core at its first instruction.
LEMMA ResetProgramPlan ==
    /\ IsSeq(ResetProgram) /\ Len(ResetProgram) = 9
    /\ ResetProgram[1] = Pins("on") /\ ResetProgram[2] = Port("init_debug")
    /\ ResetProgram[3] = Put("DHCSR", {"debugen", "halt"})
    /\ ResetProgram[4] = Poll("HALT", NoLimit) /\ ResetProgram[5] = Put("EMCR", "catch")
    /\ ResetProgram[6] = Get("AIRCR")
    /\ ResetProgram[7] = [Put("AIRCR", "reset") EXCEPT !.else = "next"]
    /\ ResetProgram[8] = Poll("HALT", NoLimit) /\ ResetProgram[9] = Put("EMCR", "none")
<1> DEFINE c == <<Put("EMCR", "catch")>>
           e == <<Poll("HALT", NoLimit), Put("EMCR", "none")>>
           s == Halt \o c
           t == s \o TriedReset
<1>1. IsSeq(c) /\ IsSeq(e) /\ IsSeq(TriedReset)
  BY Short DEF TriedReset
<1>2. ResetProgram = t \o e
  BY DEF ResetProgram, Halt
<1>3. /\ Len(c) = 1 /\ c[1] = Put("EMCR", "catch")
      /\ Len(TriedReset) = 2 /\ TriedReset[1] = Get("AIRCR")
      /\ TriedReset[2] = [Put("AIRCR", "reset") EXCEPT !.else = "next"]
      /\ Len(e) = 2 /\ e[1] = Poll("HALT", NoLimit) /\ e[2] = Put("EMCR", "none")
  BY DEF TriedReset
<1> HIDE DEF c, e
<1>4. Joined(s, Halt, c)
  BY <1>1, HaltPlan, Cat
<1> HIDE DEF s
<1>5. Joined(t, s, TriedReset)
  BY <1>1, <1>4, Cat DEF Joined
<1> HIDE DEF t
<1>6. Joined(ResetProgram, t, e)
  BY <1>1, <1>2, <1>5, Cat DEF Joined
<1>7. Len(s) = 5 /\ (\A i \in 1 .. 4 : s[i] = Halt[i]) /\ s[5] = c[1]
  BY <1>3, <1>4, HaltPlan DEF Joined
<1>8. Len(t) = 7 /\ (\A i \in 1 .. 5 : t[i] = s[i]) /\ t[6] = TriedReset[1] /\ t[7] = TriedReset[2]
  BY <1>3, <1>5, <1>7 DEF Joined
<1>9. /\ IsSeq(ResetProgram) /\ Len(ResetProgram) = 9 /\ \A i \in 1 .. 7 : ResetProgram[i] = t[i]
      /\ ResetProgram[8] = e[1] /\ ResetProgram[9] = e[2]
  BY <1>3, <1>6, <1>8 DEF Joined
<1> QED
  BY <1>3, <1>7, <1>8, <1>9, HaltPlan

ResetRun == SetTargetState("RESET_RUN")

\* The exchanges of a reset after which the firmware runs.
LEMMA ResetRunPlan ==
    /\ IsSeq(ResetRun) /\ Len(ResetRun) = 6
    /\ ResetRun[1] = Pins("on") /\ ResetRun[2] = Put("DHCSR", {"debugen", "halt"})
    /\ ResetRun[3] = Poll("HALT", NoLimit) /\ ResetRun[4] = Get("AIRCR")
    /\ ResetRun[5] = Put("AIRCR", "reset") /\ ResetRun[6] = Pins("off")
<1> DEFINE b == <<Pins("on")>>
           e == <<Pins("off")>>
           s == b \o HaltCore
           t == s \o SoftReset
<1>1. IsSeq(b) /\ IsSeq(e) /\ IsSeq(HaltCore) /\ IsSeq(SoftReset)
  BY Short DEF HaltCore, SoftReset
<1>2. ResetRun = t \o e
  BY DEF ResetRun, SetTargetState
<1>3. /\ Len(b) = 1 /\ b[1] = Pins("on") /\ Len(e) = 1 /\ e[1] = Pins("off")
      /\ Len(HaltCore) = 2 /\ HaltCore[1] = Put("DHCSR", {"debugen", "halt"})
      /\ HaltCore[2] = Poll("HALT", NoLimit)
      /\ Len(SoftReset) = 2 /\ SoftReset[1] = Get("AIRCR") /\ SoftReset[2] = Put("AIRCR", "reset")
  BY DEF HaltCore, SoftReset
<1> HIDE DEF b, e
<1>4. Joined(s, b, HaltCore)
  BY <1>1, Cat
<1> HIDE DEF s
<1>5. Joined(t, s, SoftReset)
  BY <1>1, <1>4, Cat DEF Joined
<1> HIDE DEF t
<1>6. Joined(ResetRun, t, e)
  BY <1>1, <1>2, <1>5, Cat DEF Joined
<1>7. Len(s) = 3 /\ s[1] = b[1] /\ s[2] = HaltCore[1] /\ s[3] = HaltCore[2]
  BY <1>3, <1>4 DEF Joined
<1>8. /\ Len(t) = 5 /\ \A i \in 1 .. 3 : t[i] = s[i]
      /\ t[4] = SoftReset[1] /\ t[5] = SoftReset[2]
  BY <1>3, <1>5, <1>7 DEF Joined
<1>9. IsSeq(ResetRun) /\ Len(ResetRun) = 6 /\ (\A i \in 1 .. 5 : ResetRun[i] = t[i]) /\ ResetRun[6] = e[1]
  BY <1>3, <1>6, <1>8 DEF Joined
<1> QED
  BY <1>3, <1>7, <1>8, <1>9

\* The call of a function: three exchanges for each register, and the rest.
LEMMA SyscallPlan ==
    ASSUME NEW f
    PROVE  /\ IsSeq(SyscallExec(f)) /\ Len(SyscallExec(f)) = 3 * N + 7
           /\ SyscallExec(f)[1] = Port("SELECT")
           /\ \A i \in 1 .. N : /\ SyscallExec(f)[3 * i - 1] = Put("DCRDR", f)
                                /\ SyscallExec(f)[3 * i] = Put("DCRSR", RegOrder[i])
                                /\ SyscallExec(f)[3 * i + 1] = Poll("REGRDY", RegPolls)
           /\ SyscallExec(f)[3 * N + 2] = Put("DHCSR", {"debugen"})
           /\ SyscallExec(f)[3 * N + 3] = Port("STAT")
           /\ SyscallExec(f)[3 * N + 4] = Poll("HALT", HaltPolls)
           /\ SyscallExec(f)[3 * N + 5] = Get("DCRSR")
           /\ SyscallExec(f)[3 * N + 6] = Poll("REGRDY", RegPolls)
           /\ SyscallExec(f)[3 * N + 7] = Get("DCRDR")
<1> DEFINE w == WriteRegs(N, f)
           b == <<Port("SELECT")>>
           e == <<Put("DHCSR", {"debugen"}), Port("STAT")>>
           p == <<Poll("HALT", HaltPolls)>>
           r == ReadCore("r0")
           s == b \o w
           d == s \o e
           q == d \o p
           x == q \o r
<1>1. N \in Nat
  BY TargetAssumption DEF N
<1>2. IsSeq(w) /\ Len(w) = 3 * N
  <2> DEFINE m == 3 * N
             S == {w[i] : i \in 1 .. m}
  <2>1. m \in Nat
    BY <1>1
  <2>2. w = [i \in 1 .. m |-> w[i]]
    BY DEF WriteRegs
  <2> HIDE DEF m, w
  <2>3. w \in [1 .. m -> S]
    BY <2>2
  <2> HIDE DEF S
  <2>4. w \in Seq(S) /\ Len(w) = m
    BY <2>1, <2>3
  <2> QED BY <2>4 DEF IsSeq, m
<1>3. \A i \in 1 .. N : /\ w[3 * i - 2] = Put("DCRDR", f)
                        /\ w[3 * i - 1] = Put("DCRSR", RegOrder[i])
                        /\ w[3 * i] = Poll("REGRDY", RegPolls)
  <2> SUFFICES ASSUME NEW i \in 1 .. N
               PROVE  /\ w[3 * i - 2] = Put("DCRDR", f)
                      /\ w[3 * i - 1] = Put("DCRSR", RegOrder[i])
                      /\ w[3 * i] = Poll("REGRDY", RegPolls)
    OBVIOUS
  <2>1. \A j \in 1 .. 3 : ((3 * i - 4 + j) \div 3) + 1 = i /\ ((3 * i - 4 + j) % 3) + 1 = j
    BY <1>1
  <2>2. \A j \in 1 .. 3 : w[3 * i - 3 + j] = WriteCore(RegOrder[i], f)[j]
    <3> SUFFICES ASSUME NEW j \in 1 .. 3 PROVE w[3 * i - 3 + j] = WriteCore(RegOrder[i], f)[j]
      OBVIOUS
    <3>1. 3 * i - 3 + j \in 1 .. 3 * N /\ 3 * i - 3 + j - 1 = 3 * i - 4 + j
      BY <1>1
    <3> QED BY <2>1, <3>1 DEF WriteRegs
  <2>3. 3 * i - 3 + 1 = 3 * i - 2 /\ 3 * i - 3 + 2 = 3 * i - 1 /\ 3 * i - 3 + 3 = 3 * i
    BY <1>1
  <2>4. w[3 * i - 2] = WriteCore(RegOrder[i], f)[1] /\ w[3 * i - 1] = WriteCore(RegOrder[i], f)[2]
        /\ w[3 * i] = WriteCore(RegOrder[i], f)[3]
    <3> HIDE DEF w
    <3> QED BY <2>2, <2>3
  <2> QED BY <2>4 DEF WriteCore
<1>4. WriteDebugState(f) = d
  BY DEF N, WriteDebugState
<1> HIDE DEF w
<1>5. /\ IsSeq(b) /\ Len(b) = 1 /\ b[1] = Port("SELECT")
      /\ IsSeq(e) /\ Len(e) = 2 /\ e[1] = Put("DHCSR", {"debugen"}) /\ e[2] = Port("STAT")
      /\ IsSeq(p) /\ Len(p) = 1 /\ p[1] = Poll("HALT", HaltPolls)
      /\ IsSeq(r) /\ Len(r) = 3 /\ r[1] = Get("DCRSR") /\ r[2] = Poll("REGRDY", RegPolls)
      /\ r[3] = Get("DCRDR")
  BY Short DEF ReadCore
<1>6. SyscallExec(f) = x
  BY <1>4 DEF SyscallExec
<1> HIDE DEF b, e, p, r
<1>7. /\ IsSeq(s) /\ Len(s) = 3 * N + 1 /\ s[1] = b[1]
      /\ \A i \in 2 .. 3 * N + 1 : s[i] = w[i - 1]
  <2>1. Joined(s, b, w)
    BY <1>2, <1>5, Cat
  <2> HIDE DEF s
  <2> QED BY <1>1, <1>2, <1>5, <2>1 DEF Joined
<1> HIDE DEF s
<1>8. /\ IsSeq(d) /\ Len(d) = 3 * N + 3 /\ \A i \in 1 .. 3 * N + 1 : d[i] = s[i]
      /\ d[3 * N + 2] = e[1] /\ d[3 * N + 3] = e[2]
  <2>1. Joined(d, s, e)
    BY <1>5, <1>7, Cat
  <2> HIDE DEF d
  <2>2. /\ (3 * N + 2) - (3 * N + 1) = 1 /\ (3 * N + 3) - (3 * N + 1) = 2
        /\ 3 * N + 2 \in (3 * N + 1) + 1 .. (3 * N + 1) + 2
        /\ 3 * N + 3 \in (3 * N + 1) + 1 .. (3 * N + 1) + 2
    BY <1>1
  <2>3. Len(s) = 3 * N + 1 /\ Len(e) = 2
    BY <1>5, <1>7
  <2>4. /\ IsSeq(d) /\ Len(d) = (3 * N + 1) + 2 /\ \A i \in 1 .. 3 * N + 1 : d[i] = s[i]
        /\ \A i \in (3 * N + 1) + 1 .. (3 * N + 1) + 2 : d[i] = e[i - (3 * N + 1)]
    BY <2>1, <2>3, Zenon DEF Joined
  <2>5. d[3 * N + 2] = e[1] /\ d[3 * N + 3] = e[2]
    BY <2>2, <2>4
  <2> QED BY <1>1, <2>4, <2>5
<1> HIDE DEF d
<1>9. /\ IsSeq(q) /\ Len(q) = 3 * N + 4 /\ \A i \in 1 .. 3 * N + 3 : q[i] = d[i]
      /\ q[3 * N + 4] = p[1]
  <2>1. Joined(q, d, p)
    BY <1>5, <1>8, Cat
  <2> HIDE DEF q
  <2>2. /\ (3 * N + 4) - (3 * N + 3) = 1 /\ 3 * N + 4 \in (3 * N + 3) + 1 .. (3 * N + 3) + 1
    BY <1>1
  <2> QED BY <1>1, <1>5, <1>8, <2>1, <2>2 DEF Joined
<1> HIDE DEF q
<1>10. /\ IsSeq(x) /\ Len(x) = 3 * N + 7 /\ \A i \in 1 .. 3 * N + 4 : x[i] = q[i]
       /\ x[3 * N + 5] = r[1] /\ x[3 * N + 6] = r[2] /\ x[3 * N + 7] = r[3]
  <2>1. Joined(x, q, r)
    BY <1>5, <1>9, Cat
  <2> HIDE DEF x
  <2>2. /\ (3 * N + 5) - (3 * N + 4) = 1 /\ (3 * N + 6) - (3 * N + 4) = 2
        /\ (3 * N + 7) - (3 * N + 4) = 3
        /\ \A j \in 5 .. 7 : 3 * N + j \in (3 * N + 4) + 1 .. (3 * N + 4) + 3
    BY <1>1
  <2> QED BY <1>1, <1>5, <1>9, <2>1, <2>2 DEF Joined
<1> HIDE DEF x
<1>11. \A i \in 1 .. 3 * N + 1 : x[i] = s[i]
  BY <1>1, <1>8, <1>9, <1>10
<1>12. \A i \in 1 .. N :
         /\ x[3 * i - 1] = w[3 * i - 2] /\ x[3 * i] = w[3 * i - 1]
         /\ x[3 * i + 1] = w[3 * i]
  <2> SUFFICES ASSUME NEW i \in 1 .. N
               PROVE /\ x[3 * i - 1] = w[3 * i - 2] /\ x[3 * i] = w[3 * i - 1]
                     /\ x[3 * i + 1] = w[3 * i]
    OBVIOUS
  <2>1. /\ 3 * i - 1 \in 2 .. 3 * N + 1 /\ 3 * i \in 2 .. 3 * N + 1 /\ 3 * i + 1 \in 2 .. 3 * N + 1
        /\ 3 * i - 1 - 1 = 3 * i - 2 /\ 3 * i + 1 - 1 = 3 * i /\ 3 * i + 1 \in 1 .. 3 * N + 1
    BY <1>1
  <2>2. s[3 * i - 1] = w[3 * i - 2] /\ s[3 * i] = w[3 * i - 1] /\ s[3 * i + 1] = w[3 * i]
    BY <1>7, <2>1
  <2>3. 3 * i - 1 \in 1 .. 3 * N + 1 /\ 3 * i \in 1 .. 3 * N + 1
    BY <1>1
  <2> QED BY <1>11, <2>1, <2>2, <2>3
<1>13. x[1] = Port("SELECT") /\ 3 * N + 2 \in 1 .. 3 * N + 3 /\ 3 * N + 2 \in 1 .. 3 * N + 4
       /\ 3 * N + 3 \in 1 .. 3 * N + 3 /\ 3 * N + 3 \in 1 .. 3 * N + 4 /\ 3 * N + 4 \in 1 .. 3 * N + 4
  BY <1>1, <1>5, <1>7, <1>11
<1>14. /\ x[1] = Port("SELECT") /\ x[3 * N + 2] = Put("DHCSR", {"debugen"})
       /\ x[3 * N + 3] = Port("STAT") /\ x[3 * N + 4] = Poll("HALT", HaltPolls)
  <2>1. x[3 * N + 2] = e[1] /\ x[3 * N + 3] = e[2]
    BY <1>8, <1>9, <1>10, <1>13, Zenon
  <2>2. x[3 * N + 4] = p[1]
    BY <1>9, <1>10, <1>13, Zenon
  <2> QED BY <1>5, <1>13, <2>1, <2>2, Zenon
<1>15. \A i \in 1 .. N : /\ x[3 * i - 1] = Put("DCRDR", f)
                         /\ x[3 * i] = Put("DCRSR", RegOrder[i])
                         /\ x[3 * i + 1] = Poll("REGRDY", RegPolls)
  BY <1>3, <1>12, Zenon
<1>16. /\ x[3 * N + 5] = Get("DCRSR") /\ x[3 * N + 6] = Poll("REGRDY", RegPolls)
       /\ x[3 * N + 7] = Get("DCRDR")
  BY <1>5, <1>10, Zenon
<1> QED
  BY <1>6, <1>10, <1>14, <1>15, <1>16, Zenon

\* The read command: the core is stopped, the range is read in pieces, and the
\* core is let go.
Count(r) == Len(Pieces(r[1], r[2]))

\* Letting the core run, and what the read command makes of it.
LEMMA ResumePlan ==
    /\ IsSeq(Run) /\ Len(Run) = 2 /\ Run[1] = Put("DHCSR", {}) /\ Run[2] = Pins("off")
    /\ IsSeq(Resume) /\ Len(Resume) = 2
    /\ Resume[1] = [Put("DHCSR", {}) EXCEPT !.else = "end"]
    /\ Resume[2] = [Pins("off") EXCEPT !.else = "end"]
<1>1. IsSeq(Run) /\ Len(Run) = 2 /\ Run[1] = Put("DHCSR", {}) /\ Run[2] = Pins("off")
  BY Short DEF Run
<1> DEFINE g(i) == [Run[i] EXCEPT !.else = "end"]
<1>2. Resume = [i \in 1 .. 2 |-> g(i)]
  BY <1>1 DEF Resume
<1> HIDE DEF g
<1>3. Resume \in Seq({g(1), g(2)}) /\ Len(Resume) = 2 /\ Resume[1] = g(1) /\ Resume[2] = g(2)
  BY <1>2
<1>4. IsSeq(Resume)
  BY <1>3 DEF IsSeq
<1> QED
  BY <1>1, <1>3, <1>4 DEF g

\* The read command: a halt, its pieces, a resume.
LEMMA ReadPlan ==
    ASSUME NEW r, IsSeq(Pieces(r[1], r[2])), Count(r) \in Nat
    PROVE  /\ IsSeq(ReadCommand(r)) /\ Len(ReadCommand(r)) = Count(r) + 6
           /\ \A i \in 1 .. 4 : ReadCommand(r)[i] = Halt[i]
           /\ \A i \in 1 .. Count(r) : ReadCommand(r)[4 + i] = Pieces(r[1], r[2])[i]
           /\ ReadCommand(r)[Count(r) + 5] = Resume[1]
           /\ ReadCommand(r)[Count(r) + 6] = Resume[2]
<1> DEFINE p == Pieces(r[1], r[2])
           m == Count(r)
           s == Halt \o p
           t == s \o Resume
<1>1. ReadCommand(r) = t
  BY DEF ReadCommand
<1>2. m = Len(p) /\ m \in Nat /\ IsSeq(p)
  BY DEF Count
<1> HIDE DEF p, m
<1>3. Joined(s, Halt, p)
  BY <1>2, HaltPlan, Cat
<1> HIDE DEF s
<1>4. IsSeq(s) /\ Len(s) = 4 + m /\ (\A i \in 1 .. 4 : s[i] = Halt[i])
      /\ \A i \in 5 .. 4 + m : s[i] = p[i - 4]
  BY <1>2, <1>3, HaltPlan DEF Joined
<1>5. Joined(t, s, Resume)
  BY <1>4, ResumePlan, Cat
<1> HIDE DEF t
<1>6. IsSeq(t) /\ Len(t) = m + 6 /\ (\A i \in 1 .. 4 + m : t[i] = s[i])
      /\ \A i \in m + 5 .. m + 6 : t[i] = Resume[i - (4 + m)]
  BY <1>2, <1>4, <1>5, ResumePlan DEF Joined
<1>7. \A i \in 1 .. m : t[4 + i] = p[i]
  <2>1. TAKE i \in 1 .. m
  <2>2. 4 + i \in 5 .. 4 + m /\ 4 + i \in 1 .. 4 + m /\ 4 + i - 4 = i
    BY <1>2
  <2> QED BY <1>4, <1>6, <2>2
<1>8. t[m + 5] = Resume[1] /\ t[m + 6] = Resume[2]
  <2>1. (m + 5) - (4 + m) = 1 /\ (m + 6) - (4 + m) = 2
        /\ m + 5 \in m + 5 .. m + 6 /\ m + 6 \in m + 5 .. m + 6
    BY <1>2
  <2>2. t[m + 5] = Resume[(m + 5) - (4 + m)] /\ t[m + 6] = Resume[(m + 6) - (4 + m)]
    BY <1>6, <2>1, Zenon
  <2> QED BY <2>1, <2>2, Zenon
<1>9. \A i \in 1 .. 4 : t[i] = Halt[i]
  BY <1>2, <1>4, <1>6
<1> QED
  BY <1>1, <1>6, <1>7, <1>8, <1>9 DEF p, m

\* Quotient and remainder.
LEMMA Divides ==
    ASSUME NEW x \in Nat, NEW d \in Nat \ {0}
    PROVE  /\ x \div d \in Nat /\ x % d \in 0 .. d - 1
           /\ x = d * (x \div d) + (x % d)
<1>1. x % d \in 0 .. d - 1 /\ x = d * (x \div d) + (x % d) /\ x \div d \in Int
  OBVIOUS
<1>2. x \div d >= 0
  OBVIOUS
<1>3. x \div d \in Nat
  <2> DEFINE q == x \div d
  <2>1. q \in Int /\ q >= 0
    BY <1>1, <1>2
  <2> HIDE DEF q
  <2>2. q \in Nat
    BY <2>1
  <2> QED BY <2>2 DEF q
<1> QED
  BY <1>1, <1>3, Zenon

\* A product grows with its factor.
LEMMA TimesGrows ==
    ASSUME NEW c \in Nat, NEW i \in Nat, NEW j \in Nat, i <= j
    PROVE  i * c <= j * c /\ i * c \in Nat /\ j * c \in Nat
<1>1. (j - i) * c \in Nat
  OBVIOUS
<1>2. j * c = i * c + (j - i) * c /\ i * c \in Nat /\ j * c \in Nat
  OBVIOUS
<1> QED
  BY <1>1, <1>2

\* Where a range ends, by the addresses' count modulo Space.
End(r) == (r[1] + r[2]) % Space

\* The 32-bit end of a range: it lies before the start if the sum wraps.
LEMMA RangeEnd ==
    ASSUME NEW r \in (0 .. Space - 1) \X (0 .. Space - 1)
    PROVE  /\ r[1] \in Nat /\ r[2] \in Nat /\ r[1] < Space
           /\ End(r) \in 0 .. Space - 1
           /\ r[1] + r[2] < Space => End(r) = r[1] + r[2]
           /\ r[1] + r[2] >= Space => End(r) < r[1]
<1> DEFINE d == Space
           a == r[1]
           n == r[2]
           x == a + n
           q == x \div d
           e == x % d
<1>1. d \in Nat \ {0} /\ a \in 0 .. d - 1 /\ n \in 0 .. d - 1 /\ x \in Nat /\ x = a + n
  BY TargetAssumption
<1>2. End(r) = e
  BY DEF End
<1> HIDE DEF d, a, n, x
<1>3. q \in Nat /\ e \in 0 .. d - 1 /\ x = d * q + e
  BY <1>1, Divides
<1> HIDE DEF q, e
<1>4. CASE q = 0
  <2>1. e = x
    BY <1>1, <1>3, <1>4
  <2> QED BY <1>1, <1>2, <1>3, <2>1 DEF d, a, n, x
<1>5. CASE q = 1
  <2>1. e = x - d
    BY <1>1, <1>3, <1>5
  <2>2. e < a /\ ~(x < d)
    BY <1>1, <1>3, <2>1
  <2> QED BY <1>1, <1>2, <1>3, <2>1, <2>2 DEF d, a, n, x
<1>6. q = 0 \/ q = 1
  <2>1. SUFFICES ASSUME q >= 2 PROVE FALSE
    BY <1>3
  <2>2. 2 * d <= q * d /\ q * d \in Nat /\ q * d = d * q
    BY <1>1, <1>3, <2>1, TimesGrows
  <2> QED BY <1>1, <1>3, <2>2
<1> QED
  BY <1>4, <1>5, <1>6

\* What the first k pieces of a range show.
Printed(r, k) ==
    r[1] .. (IF r[1] + k * Chunk < End(r) THEN r[1] + k * Chunk ELSE End(r)) - 1

IsPiece(r, k, x) ==
    /\ x.op = "read" /\ x.reg = "memory" /\ x.max = 0 /\ x.else = "run"
    /\ x.val \subseteq 0 .. Space - 1
    /\ Printed(r, k - 1) \cup x.val = Printed(r, k)

\* The pieces of a range show it, one after another, and nothing besides.
LEMMA PiecesShow ==
    ASSUME NEW r \in (0 .. Space - 1) \X (0 .. Space - 1)
    PROVE  /\ IsSeq(Pieces(r[1], r[2])) /\ Count(r) \in Nat
           /\ \A k \in 1 .. Count(r) : IsPiece(r, k, Pieces(r[1], r[2])[k])
           /\ Printed(r, 0) = {}
           /\ Printed(r, Count(r)) = IF r[1] + r[2] < Space THEN r[1] .. (r[1] + r[2]) - 1 ELSE {}
<1> DEFINE a == r[1]
           e == End(r)
           c == Chunk
           x == (e - a) + (c - 1)
           m == IF e < a THEN 0 ELSE x \div c
           size(i) == IF i < m THEN c ELSE (e - a) - ((m - 1) * c)
           piece(i) == [ReadAt(a + ((i - 1) * c), size(i)) EXCEPT !.else = "run"]
<1>1. a \in Nat /\ e \in 0 .. Space - 1 /\ c \in Nat \ {0} /\ Space \in Nat /\ a < Space
  BY RangeEnd, TargetAssumption
<1>2. Pieces(r[1], r[2]) = [i \in 1 .. m |-> piece(i)]
  BY DEF Pieces, End
<1>3. m \in Nat /\ (e > a => (m - 1) * c < e - a /\ m > 0) /\ (e >= a => e - a <= m * c) /\ (e <= a => m = 0)
  <2>1. CASE e < a
    BY <1>1, <2>1
  <2>2. CASE e >= a
    <3>1. x \in Nat /\ m = x \div c
      BY <1>1, <2>2
    <3>2. m \in Nat /\ \E w \in 0 .. c - 1 : x = c * m + w
      <4> DEFINE q == x \div c
                 w == x % c
      <4> HIDE DEF x, c
      <4>1. q \in Nat /\ w \in 0 .. c - 1 /\ x = c * q + w
        BY <1>1, <3>1, Divides
      <4>2. m = q
        BY <3>1
      <4> HIDE DEF q, w, m
      <4> QED BY <4>1, <4>2
    <3>3. c * m = m * c /\ (m - 1) * c = m * c - c /\ m * c \in Nat
      BY <1>1, <3>2
    <3> DEFINE y == m * c
    <3>4. e - a <= y /\ y - c < e - a + 0 + (IF e = a THEN c ELSE 0)
      <4> HIDE DEF m
      <4>1. PICK w \in 0 .. c - 1 : x = y + w
        BY <3>2, <3>3
      <4>2. y \in Nat
        BY <3>3
      <4> HIDE DEF y
      <4> QED BY <1>1, <2>2, <4>1, <4>2
    <3>5. e = a => m = 0
      <4> SUFFICES ASSUME e = a, m # 0 PROVE FALSE
        OBVIOUS
      <4> HIDE DEF m
      <4>1. 1 * c <= m * c
        BY <1>1, <3>2, TimesGrows
      <4>2. PICK w \in 0 .. c - 1 : x = m * c + w
        BY <3>2, <3>3
      <4> QED BY <1>1, <3>3, <4>1, <4>2
    <3>6. e > a => m > 0
      <4> HIDE DEF m
      <4>1. m = 0 => m * c = 0
        BY <1>1
      <4> QED BY <1>1, <3>2, <3>4, <4>1
    <3> HIDE DEF m
    <3> QED BY <1>1, <2>2, <3>2, <3>3, <3>4, <3>5, <3>6
  <2> HIDE DEF m
  <2> QED BY <1>1, <2>1, <2>2
<1> HIDE DEF m, x
<1>4. IsSeq(Pieces(r[1], r[2])) /\ Count(r) = m
  <2> DEFINE S == {piece(i) : i \in 1 .. m}
             p == [i \in 1 .. m |-> piece(i)]
  <2> HIDE DEF piece
  <2>1. p \in [1 .. m -> S]
    OBVIOUS
  <2> HIDE DEF S
  <2>2. p \in Seq(S) /\ Len(p) = m
    BY <1>3, <2>1
  <2> QED BY <1>2, <2>2 DEF IsSeq, Count
<1>5. \A k \in 1 .. Count(r) : IsPiece(r, k, Pieces(r[1], r[2])[k])
  <2> SUFFICES ASSUME NEW k \in 1 .. m PROVE IsPiece(r, k, piece(k))
    BY <1>2, <1>4
  <2> DEFINE u == (k - 1) * c
             v == k * c
             s == size(k)
  <2>1. e > a /\ k \in Nat \ {0} /\ k - 1 \in Nat /\ m \in Nat
    BY <1>1, <1>3
  <2>2. u \in Nat /\ v \in Nat /\ v = u + c
    BY <1>1, <2>1
  <2>3. k < m => v <= (m - 1) * c
    BY <1>1, <2>1, TimesGrows
  <2>4. (m - 1) * c < e - a /\ e - a <= m * c /\ (m - 1) * c \in Int
    BY <1>1, <1>3, <2>1
  <2>5. (k < m => v < e - a /\ s = c) /\ (k = m => u < e - a /\ e - a <= v /\ s = (e - a) - u)
    BY <2>1, <2>2, <2>3, <2>4, <1>1
  <2>6. k < m \/ k = m
    BY <2>1
  <2> HIDE DEF u, v, s
  <2>7. /\ piece(k).op = "read" /\ piece(k).reg = "memory" /\ piece(k).max = 0
        /\ piece(k).else = "run" /\ piece(k).val = (a + u) .. ((a + u) + s) - 1
    BY DEF u, s, ReadAt, Exchange
  <2>8. /\ Printed(r, k) = a .. (IF a + v < e THEN a + v ELSE e) - 1
        /\ Printed(r, k - 1) = a .. (IF a + u < e THEN a + u ELSE e) - 1
    BY DEF Printed, u, v
  <2> HIDE DEF piece, a, e
  <2>9. piece(k).val \subseteq 0 .. Space - 1
    BY <1>1, <2>2, <2>5, <2>6, <2>7
  <2>10. Printed(r, k - 1) \cup piece(k).val = Printed(r, k)
    <3>1. a \in Nat /\ e \in Nat /\ a + u <= e
      BY <1>1, <2>1, <2>2, <2>5, <2>6
    <3>2. Printed(r, k - 1) = a .. (a + u) - 1
      BY <1>1, <2>2, <2>8, <3>1
    <3>3. CASE k < m
      <4>1. a + v < e /\ (a + u) + s = a + v
        BY <1>1, <2>2, <2>5, <3>1, <3>3
      <4>2. piece(k).val = a + u .. (a + v) - 1 /\ Printed(r, k) = a .. (a + v) - 1
        BY <2>7, <2>8, <4>1
      <4> HIDE DEF c
      <4> QED BY <1>1, <2>2, <3>1, <3>2, <4>2
    <3>4. CASE k = m
      <4>1. ~(a + v < e) /\ (a + u) + s = e
        BY <1>1, <2>2, <2>5, <3>1, <3>4
      <4>2. piece(k).val = a + u .. e - 1 /\ Printed(r, k) = a .. e - 1
        BY <2>7, <2>8, <4>1
      <4> QED BY <2>2, <3>1, <3>2, <4>2
    <3> QED BY <2>6, <3>3, <3>4
  <2> QED BY <2>7, <2>9, <2>10 DEF IsPiece
<1>6. Printed(r, 0) = {}
  <2>1. 0 * c = 0
    BY <1>1
  <2>2. Printed(r, 0) = a .. (IF a + 0 < e THEN a + 0 ELSE e) - 1
    BY <2>1 DEF Printed
  <2> HIDE DEF a, e
  <2> QED BY <1>1, <2>2
<1>7. Printed(r, m) = IF a + r[2] < Space THEN a .. (a + r[2]) - 1 ELSE {}
  <2>1. Printed(r, m) = a .. (IF a + m * c < e THEN a + m * c ELSE e) - 1
    BY DEF Printed
  <2>2. m * c \in Nat
    BY <1>1, <1>3
  <2>3. r[2] \in Nat /\ (a + r[2] < Space => e = a + r[2]) /\ (a + r[2] >= Space => e < a)
    BY RangeEnd
  <2> HIDE DEF a, e, c
  <2>4. Printed(r, m) = a .. e - 1
    BY <1>1, <1>3, <2>1, <2>2
  <2>5. e < a => a .. e - 1 = {}
    BY <1>1
  <2> QED BY <1>1, <2>3, <2>4, <2>5
<1> QED
  BY <1>3, <1>4, <1>5, <1>6, <1>7

-----------------------------------------------------------------------------
(***************************************************************************)
(* What every exchange of a plan is.                                       *)
(***************************************************************************)
Fits(x, c) ==
    /\ x.max \in {NoLimit, RegPolls, HaltPolls}
    /\ x.op = "put" /\ x.reg = "DCRDR" => x.val \in Functions
    /\ x.op = "put" /\ x.reg = "DCRSR" => x.val \in Regs
    /\ x.op = "pins" => x.val \in {"on", "off"}
    /\ x.op = "read" => x.val \subseteq 0 .. Space - 1
    /\ x.else \in {"false", "next", "run", "end"}
    /\ x.else = "run" => c.op = "read"

\* Each kind of exchange is well formed.
LEMMA FitsAlone ==
    ASSUME NEW c
    PROVE  /\ \A r : Fits(Port(r), c) /\ Fits(Get(r), c)
           /\ \A v \in {"on", "off"} : Fits(Pins(v), c)
           /\ \A b : Fits(Poll(b, NoLimit), c) /\ Fits(Poll(b, RegPolls), c) /\ Fits(Poll(b, HaltPolls), c)
           /\ \A v : Fits(Put("DHCSR", v), c) /\ Fits(Put("EMCR", v), c) /\ Fits(Put("AIRCR", v), c)
           /\ \A f \in Functions : Fits(Put("DCRDR", f), c)
           /\ \A n \in Regs : Fits(Put("DCRSR", n), c)
           /\ Fits([Put("AIRCR", "reset") EXCEPT !.else = "next"], c)
           /\ Fits(Exchange("refuse", "none", "none"), c)
           /\ Fits(Resume[1], c) /\ Fits(Resume[2], c)
<1>1. \A r : Fits(Port(r), c) /\ Fits(Get(r), c)
  BY DEF Fits, Port, Get, Exchange, NoLimit
<1>2. \A v \in {"on", "off"} : Fits(Pins(v), c)
  BY DEF Fits, Pins, Exchange, NoLimit
<1>3. \A b : Fits(Poll(b, NoLimit), c) /\ Fits(Poll(b, RegPolls), c) /\ Fits(Poll(b, HaltPolls), c)
  BY DEF Fits, Poll, Exchange
<1>4. \A v : Fits(Put("DHCSR", v), c) /\ Fits(Put("EMCR", v), c) /\ Fits(Put("AIRCR", v), c)
  BY DEF Fits, Put, Exchange, NoLimit
<1>5. \A f \in Functions : Fits(Put("DCRDR", f), c)
  BY DEF Fits, Put, Exchange, NoLimit
<1>6. \A n \in Regs : Fits(Put("DCRSR", n), c)
  BY DEF Fits, Put, Exchange, NoLimit
<1>7. /\ Fits([Put("AIRCR", "reset") EXCEPT !.else = "next"], c)
      /\ Fits(Exchange("refuse", "none", "none"), c)
  BY DEF Fits, Put, Exchange, NoLimit
<1>8. Fits(Resume[1], c) /\ Fits(Resume[2], c)
  BY ResumePlan DEF Fits, Put, Pins, Exchange, NoLimit
<1> QED
  BY <1>1, <1>2, <1>3, <1>4, <1>5, <1>6, <1>7, <1>8

\* A plan and its exchanges.
Planned(c) ==
    /\ IsSeq(Plan(c)) /\ Len(Plan(c)) \in Nat
    /\ \A i \in 1 .. Len(Plan(c)) : Fits(Plan(c)[i], c)

\* The registers of a call, R0 and R15 among them.
LEMMA RegsGiven ==
    /\ N \in Nat \ {0} /\ DOMAIN RegOrder = 1 .. N /\ "r0" \in Regs /\ "r15" \in Regs
    /\ \A i \in 1 .. N : RegOrder[i] \in Regs
    /\ \A n \in Regs : \E i \in 1 .. N : n = RegOrder[i]
<1>1. N \in Nat /\ DOMAIN RegOrder = 1 .. N
  BY TargetAssumption DEF N
<1>2. Regs = {RegOrder[i] : i \in 1 .. N}
  BY <1>1 DEF Regs, ToSet
<1>3. "r0" \in Regs /\ "r15" \in Regs
  BY TargetAssumption DEF Regs
<1>4. N # 0
  BY <1>2, <1>3
<1> QED
  BY <1>1, <1>2, <1>3, <1>4

\* The places of a call of a function.
LEMMA ExecPlaces ==
    ASSUME NEW i \in 1 .. 3 * N + 7
    PROVE  \/ i = 1
           \/ \E k \in 1 .. N : i = 3 * k - 1 \/ i = 3 * k \/ i = 3 * k + 1
           \/ \E k \in 2 .. 7 : i = 3 * N + k
<1>1. N \in Nat \ {0}
  BY RegsGiven
<1>2. CASE i \in 2 .. 3 * N + 1
  <2> DEFINE k == (i + 1) \div 3
  <2>1. k \in Nat /\ (i + 1 = 3 * k \/ i + 1 = 3 * k + 1 \/ i + 1 = 3 * k + 2)
    <3>1. i + 1 \in Nat /\ 3 \in Nat \ {0}
      BY <1>1
    <3> DEFINE w == (i + 1) % 3
    <3>2. k \in Nat /\ w \in 0 .. 3 - 1 /\ i + 1 = 3 * k + w
      BY <3>1, Divides, Zenon
    <3> HIDE DEF k, w
    <3> QED BY <3>1, <3>2
  <2> HIDE DEF k
  <2>2. k \in 1 .. N /\ (i = 3 * k - 1 \/ i = 3 * k \/ i = 3 * k + 1)
    BY <1>1, <1>2, <2>1
  <2> QED BY <2>2
<1>3. CASE i \in 3 * N + 2 .. 3 * N + 7
  <2>1. i - 3 * N \in 2 .. 7 /\ i = 3 * N + (i - 3 * N)
    BY <1>1, <1>3
  <2> QED BY <2>1
<1> QED
  BY <1>1, <1>2, <1>3

\* The plans of the three kinds of calls, and that they are well formed.
LEMMA ExecPlanned ==
    ASSUME NEW c \in Calls, c.op = "exec"
    PROVE  Plan(c) = SyscallExec(c.function) /\ c.function \in Functions /\ Planned(c)
<1> DEFINE f == c.function
           s == SyscallExec(f)
<1>1. Plan(c) = s /\ f \in Functions
  BY DEF Plan, Calls
<1>2. /\ IsSeq(s) /\ Len(s) = 3 * N + 7 /\ s[1] = Port("SELECT")
      /\ \A k \in 1 .. N : /\ s[3 * k - 1] = Put("DCRDR", f)
                           /\ s[3 * k] = Put("DCRSR", RegOrder[k])
                           /\ s[3 * k + 1] = Poll("REGRDY", RegPolls)
      /\ s[3 * N + 2] = Put("DHCSR", {"debugen"}) /\ s[3 * N + 3] = Port("STAT")
      /\ s[3 * N + 4] = Poll("HALT", HaltPolls) /\ s[3 * N + 5] = Get("DCRSR")
      /\ s[3 * N + 6] = Poll("REGRDY", RegPolls) /\ s[3 * N + 7] = Get("DCRDR")
  BY SyscallPlan
<1> HIDE DEF f, s
<1>3. N \in Nat \ {0} /\ \A k \in 1 .. N : RegOrder[k] \in Regs
  BY RegsGiven
<1>4. ASSUME NEW i \in 1 .. Len(s) PROVE Fits(s[i], c)
  <2>1. \/ i = 1
        \/ \E k \in 1 .. N : i = 3 * k - 1 \/ i = 3 * k \/ i = 3 * k + 1
        \/ \E k \in 2 .. 7 : i = 3 * N + k
    BY <1>2, ExecPlaces
  <2>2. CASE i = 1
    BY <1>2, <2>2, FitsAlone
  <2>3. ASSUME NEW k \in 1 .. N, i = 3 * k - 1 \/ i = 3 * k \/ i = 3 * k + 1 PROVE Fits(s[i], c)
    <3>1. s[i] = Put("DCRDR", f) \/ s[i] = Put("DCRSR", RegOrder[k]) \/ s[i] = Poll("REGRDY", RegPolls)
      BY <1>2, <2>3
    <3> QED BY <1>1, <1>3, <3>1, FitsAlone
  <2>4. ASSUME NEW k \in 2 .. 7, i = 3 * N + k PROVE Fits(s[i], c)
    <3>1. k = 2 \/ k = 3 \/ k = 4 \/ k = 5 \/ k = 6 \/ k = 7
      OBVIOUS
    <3>2. \/ s[i] = Put("DHCSR", {"debugen"}) \/ s[i] = Port("STAT")
          \/ s[i] = Poll("HALT", HaltPolls) \/ s[i] = Get("DCRSR")
          \/ s[i] = Poll("REGRDY", RegPolls) \/ s[i] = Get("DCRDR")
      BY <1>2, <2>4, <3>1
    <3> QED BY <3>2, FitsAlone
  <2> QED BY <2>1, <2>2, <2>3, <2>4
<1>5. Len(s) \in Nat
  BY <1>2, <1>3
<1>6. Planned(c)
  BY <1>1, <1>2, <1>4, <1>5 DEF Planned
<1> QED
  BY <1>1, <1>6, Zenon DEF s, f

LEMMA ReadPlanned ==
    ASSUME NEW c \in Calls, c.op = "read"
    PROVE  /\ Plan(c) = ReadCommand(c.range) /\ Planned(c)
           /\ c.range \in (0 .. Space - 1) \X (0 .. Space - 1)
           /\ Len(Plan(c)) >= 6
<1> DEFINE r == c.range
           s == ReadCommand(r)
           p == Pieces(r[1], r[2])
           m == Count(r)
<1>1. Plan(c) = s /\ r \in Ranges
  BY DEF Plan, Calls
<1>2. r \in (0 .. Space - 1) \X (0 .. Space - 1)
  BY <1>1, TargetAssumption
<1> HIDE DEF r
<1>3. IsSeq(p) /\ m \in Nat /\ \A k \in 1 .. m : IsPiece(r, k, p[k])
  BY <1>2, PiecesShow
<1>4. /\ IsSeq(s) /\ Len(s) = m + 6 /\ (\A i \in 1 .. 4 : s[i] = Halt[i])
      /\ \A i \in 1 .. m : s[4 + i] = p[i]
      /\ s[m + 5] = Resume[1] /\ s[m + 6] = Resume[2]
  BY <1>3, ReadPlan
<1> HIDE DEF s, p, m
<1>5. ASSUME NEW i \in 1 .. m + 6 PROVE Fits(s[i], c)
  <2>1. CASE i \in 1 .. 4
    <3>1. i = 1 \/ i = 2 \/ i = 3 \/ i = 4
      BY <2>1
    <3>2. s[i] = Halt[i]
      BY <1>4, <2>1
    <3>3. Fits(Halt[1], c) /\ Fits(Halt[2], c) /\ Fits(Halt[3], c) /\ Fits(Halt[4], c)
      BY HaltPlan, FitsAlone
    <3> QED BY <3>1, <3>2, <3>3
  <2>2. CASE i \in 5 .. m + 4
    <3>1. i - 4 \in 1 .. m /\ 4 + (i - 4) = i
      BY <1>3, <2>2
    <3>2. s[i] = p[i - 4] /\ IsPiece(r, i - 4, p[i - 4])
      BY <1>3, <1>4, <3>1
    <3> QED BY <3>2 DEF Fits, IsPiece, NoLimit
  <2>3. CASE i = m + 5 \/ i = m + 6
    BY <1>4, <2>3, FitsAlone
  <2> QED BY <1>3, <2>1, <2>2, <2>3
<1>6. Len(s) \in Nat /\ Len(s) >= 6
  BY <1>3, <1>4
<1>7. Planned(c)
  BY <1>1, <1>4, <1>5, <1>6 DEF Planned
<1>8. Len(Plan(c)) >= 6
  BY <1>1, <1>6
<1> QED
  BY <1>1, <1>2, <1>7, <1>8, Zenon DEF s, r

\* The shorter plans.
LEMMA StatePlans ==
    /\ LET s == SetTargetState("RESET_HOLD") IN IsSeq(s) /\ Len(s) = 1 /\ s[1] = Pins("on")
    /\ LET s == SetTargetState("POST_FLASH_RESET") IN IsSeq(s) /\ Len(s) = 1 /\ s[1] = Pins("on")
    /\ LET s == SetTargetState("NO_DEBUG") IN
         IsSeq(s) /\ Len(s) = 2 /\ s[1] = Pins("on") /\ s[2] = Put("DHCSR", {})
    /\ LET s == SetTargetState("DEBUG") IN
         /\ IsSeq(s) /\ Len(s) = 6 /\ s[1] = Pins("on") /\ s[2] = Port("jtag_to_swd")
         /\ s[3] = Port("ABORT") /\ s[4] = Port("SELECT") /\ s[5] = Port("CTRL")
         /\ s[6] = Put("DHCSR", {"debugen"})
    /\ LET s == SetTargetState("POWER_ON") IN
         /\ IsSeq(s) /\ Len(s) = 2 /\ s[1] = Pins("on")
         /\ s[2] = Exchange("refuse", "none", "none")
    /\ SetTargetState("RUN") = Run /\ SetTargetState("HALT") = Halt
    /\ SetTargetState("RESET_PROGRAM") = ResetProgram
  BY Short DEF SetTargetState

LEMMA StatePlanned ==
    ASSUME NEW c \in Calls, c.op = "state"
    PROVE  Plan(c) = SetTargetState(c.state) /\ c.state \in States /\ Planned(c)
<1>1. Plan(c) = SetTargetState(c.state) /\ c.state \in States
  BY DEF Plan, Calls
<1> DEFINE s == SetTargetState(c.state)
<1>2. ASSUME c.state = "RESET_HOLD" \/ c.state = "POST_FLASH_RESET"
      PROVE  IsSeq(s) /\ Len(s) = 1 /\ Fits(s[1], c)
  BY <1>2, StatePlans, FitsAlone
<1>3. ASSUME c.state \in {"NO_DEBUG", "POWER_ON", "RUN"}
      PROVE  IsSeq(s) /\ Len(s) = 2 /\ Fits(s[1], c) /\ Fits(s[2], c)
  <2>1. CASE c.state = "NO_DEBUG"
    BY <2>1, StatePlans, FitsAlone
  <2>2. CASE c.state = "POWER_ON"
    BY <2>2, StatePlans, FitsAlone
  <2>3. CASE c.state = "RUN"
    BY <2>3, StatePlans, ResumePlan, FitsAlone
  <2> QED BY <1>3, <2>1, <2>2, <2>3
<1>4. ASSUME c.state = "DEBUG"
      PROVE  /\ IsSeq(s) /\ Len(s) = 6 /\ Fits(s[1], c) /\ Fits(s[2], c) /\ Fits(s[3], c)
             /\ Fits(s[4], c) /\ Fits(s[5], c) /\ Fits(s[6], c)
  BY <1>4, StatePlans, FitsAlone
<1>5. ASSUME c.state = "RESET_RUN"
      PROVE  /\ IsSeq(s) /\ Len(s) = 6 /\ Fits(s[1], c) /\ Fits(s[2], c) /\ Fits(s[3], c)
             /\ Fits(s[4], c) /\ Fits(s[5], c) /\ Fits(s[6], c)
  BY <1>5, ResetRunPlan, FitsAlone DEF ResetRun
<1>6. ASSUME c.state = "HALT"
      PROVE  /\ IsSeq(s) /\ Len(s) = 4 /\ Fits(s[1], c) /\ Fits(s[2], c) /\ Fits(s[3], c)
             /\ Fits(s[4], c)
  BY <1>6, StatePlans, HaltPlan, FitsAlone
<1>7. ASSUME c.state = "RESET_PROGRAM"
      PROVE  /\ IsSeq(s) /\ Len(s) = 9 /\ Fits(s[1], c) /\ Fits(s[2], c) /\ Fits(s[3], c)
             /\ Fits(s[4], c) /\ Fits(s[5], c) /\ Fits(s[6], c) /\ Fits(s[7], c)
             /\ Fits(s[8], c) /\ Fits(s[9], c)
  BY <1>7, StatePlans, ResetProgramPlan, FitsAlone
<1>8. IsSeq(s) /\ Len(s) \in Nat /\ \A i \in 1 .. Len(s) : Fits(s[i], c)
  <2> HIDE DEF s
  <2>1. CASE Len(s) = 1
    BY <1>1, <1>2, <1>3, <1>4, <1>5, <1>6, <1>7, <2>1 DEF States
  <2>2. CASE Len(s) = 2
    BY <1>1, <1>2, <1>3, <1>4, <1>5, <1>6, <1>7, <2>2 DEF States
  <2>3. CASE Len(s) = 4
    BY <1>1, <1>2, <1>3, <1>4, <1>5, <1>6, <1>7, <2>3 DEF States
  <2>4. CASE Len(s) = 6
    BY <1>1, <1>2, <1>3, <1>4, <1>5, <1>6, <1>7, <2>4 DEF States
  <2>5. CASE Len(s) = 9
    BY <1>1, <1>2, <1>3, <1>4, <1>5, <1>6, <1>7, <2>5 DEF States
  <2>6. Len(s) \in {1, 2, 4, 6, 9}
    BY <1>1, <1>2, <1>3, <1>4, <1>5, <1>6, <1>7 DEF States
  <2> QED BY <2>1, <2>2, <2>3, <2>4, <2>5, <2>6
<1> QED
  BY <1>1, <1>8 DEF Planned

LEMMA PlansFit ==
    ASSUME NEW c \in Calls
    PROVE  Planned(c)
<1>1. c.op \in {"exec", "read", "state"}
  BY DEF Calls
<1> QED
  BY <1>1, ExecPlanned, ReadPlanned, StatePlanned

-----------------------------------------------------------------------------
(***************************************************************************)
(* The types of the state.                                                 *)
(***************************************************************************)
Values == {"own", "junk", "zero", "error"} \cup Functions

CoreTypes ==
    /\ core \in {"running", "halted"} /\ doing \in {"firmware", "wild"} \cup Functions
    /\ regs \in [Regs -> Values]
    /\ dhcsr \in [debugen : BOOLEAN, halt : BOOLEAN, catch : BOOLEAN]
    /\ dcr \in [data : Values, ready : BOOLEAN]

HostTypes ==
    /\ pins \in {"on", "off"} /\ call \in Calls \cup {Never}
    /\ status \in {"new", "running", "true", "false"} /\ result \in {"true", "false"}
    /\ status = "running" => at \in 1 .. Len(Plan(call)) + 1
    /\ polls \in 0 .. RegPolls + HaltPolls /\ shown \subseteq 0 .. Space - 1
    /\ status # "new" => call \in Calls
    /\ Ongoing => polls = 0 \/ polls < This.max

HistoryTypes == started \in BOOLEAN /\ wasReset \in BOOLEAN /\ lost \in BOOLEAN

BaseInv == CoreTypes /\ HostTypes /\ HistoryTypes

\* The types of the parts are those of the module.
LEMMA TypesOfBase == BaseInv => TargetTypeOK
  BY DEF BaseInv, CoreTypes, HostTypes, TargetTypeOK, Values

\* What a step can be.
LEMMA Steps ==
    ASSUME [Next]_vars
    PROVE  \/ \E c \in Calls : Begin(c)
           \/ Ongoing /\ Succeeds(This)
           \/ Ongoing /\ Polls(This)
           \/ Ongoing /\ Switches(This)
           \/ Ongoing /\ Refuses(This)
           \/ Return
           \/ Ongoing /\ Loses(This)
           \/ CoreHalts
           \/ FunctionEnds
           \/ UNCHANGED vars
  BY DEF Next, User, Advance, Target

\* What an exchange does to the core.
LEMMA EffectOf ==
    /\ \A v : Effect(Put("DHCSR", v)) => SetDhcsr(v)
    /\ \A v : Effect(Put("EMCR", v)) =>
         dhcsr' = [dhcsr EXCEPT !.catch = (v = "catch")] /\ UNCHANGED <<core, doing, regs, dcr>>
    /\ \A v, e : Effect([Put("AIRCR", v) EXCEPT !.else = e]) => SystemReset
    /\ \A v : Effect(Put("AIRCR", v)) => SystemReset
    /\ \A v : Effect(Put("DCRDR", v)) =>
         dcr' = [dcr EXCEPT !.data = v] /\ UNCHANGED <<core, doing, regs, dhcsr>>
    /\ \A n : Effect(Put("DCRSR", n)) => Transferred(n)
    /\ Effect(Get("DCRSR")) => Fetched("r0")
    /\ Effect(Get("AIRCR")) => UNCHANGED target
    /\ Effect(Get("DCRDR")) => UNCHANGED target
    /\ \A r : Effect(Port(r)) => UNCHANGED target
  BY DEF Effect, Put, Get, Port, Exchange

\* The effect of an exchange is one of these.
LEMMA EffectKinds ==
    ASSUME NEW x, Effect(x)
    PROVE  \/ x.op = "put" /\ x.reg = "DHCSR" /\ SetDhcsr(x.val)
           \/ /\ x.op = "put" /\ x.reg = "EMCR" /\ UNCHANGED <<core, doing, regs, dcr>>
              /\ dhcsr' = [dhcsr EXCEPT !.catch = (x.val = "catch")]
           \/ x.op = "put" /\ x.reg = "AIRCR" /\ SystemReset
           \/ /\ x.op = "put" /\ x.reg = "DCRDR" /\ UNCHANGED <<core, doing, regs, dhcsr>>
              /\ dcr' = [dcr EXCEPT !.data = x.val]
           \/ x.op = "put" /\ x.reg = "DCRSR" /\ Transferred(x.val)
           \/ x.op = "get" /\ x.reg = "DCRSR" /\ Fetched("r0")
           \/ /\ UNCHANGED target
              /\ x.op = "put" => x.reg \notin {"DHCSR", "EMCR", "AIRCR", "DCRDR", "DCRSR"}
<1>1. CASE x.op = "put" /\ x.reg = "DHCSR"
  BY <1>1 DEF Effect
<1>2. CASE x.op = "put" /\ x.reg = "EMCR"
  BY <1>2 DEF Effect
<1>3. CASE x.op = "put" /\ x.reg = "AIRCR"
  BY <1>3 DEF Effect
<1>4. CASE x.op = "put" /\ x.reg = "DCRDR"
  BY <1>4 DEF Effect
<1>5. CASE x.op = "put" /\ x.reg = "DCRSR"
  BY <1>5 DEF Effect
<1>6. CASE x.op = "get" /\ x.reg = "DCRSR"
  BY <1>6 DEF Effect
<1>7. CASE /\ ~(x.op = "put" /\ x.reg \in {"DHCSR", "EMCR", "AIRCR", "DCRDR", "DCRSR"})
           /\ ~(x.op = "get" /\ x.reg = "DCRSR")
  BY <1>7 DEF Effect
<1> QED
  BY <1>1, <1>2, <1>3, <1>4, <1>5, <1>6, <1>7

\* An exchange keeps the types of the core.
LEMMA EffectTypes ==
    ASSUME CoreTypes, NEW c, NEW x, Fits(x, c), Effect(x)
    PROVE  CoreTypes'
<1>1. CASE x.op = "put" /\ x.reg = "DHCSR" /\ SetDhcsr(x.val)
  <2>1. Resumed \in {"firmware", "wild"} \cup Functions
    <3>1. ASSUME NEW f \in Functions, regs = All(f) PROVE regs["r15"] = f
      BY <3>1, RegsGiven DEF All
    <3> QED BY <3>1 DEF Resumed
  <2>2. core' \in {"running", "halted"} /\ doing' \in {"firmware", "wild"} \cup Functions
    BY <1>1, <2>1 DEF CoreTypes, SetDhcsr
  <2>3. dhcsr' \in [debugen : BOOLEAN, halt : BOOLEAN, catch : BOOLEAN]
    <3> DEFINE d == "debugen" \in x.val
               h == "halt" \in x.val
    <3>1. d \in BOOLEAN /\ h \in BOOLEAN
      OBVIOUS
    <3>2. dhcsr' = [dhcsr EXCEPT !.debugen = d, !.halt = h]
      BY <1>1, Zenon DEF SetDhcsr
    <3> HIDE DEF d, h
    <3> QED BY <3>1, <3>2 DEF CoreTypes
  <2>4. regs' = regs /\ dcr' = dcr
    BY <1>1 DEF SetDhcsr
  <2> QED BY <2>2, <2>3, <2>4 DEF CoreTypes
<1>2. CASE dhcsr' = [dhcsr EXCEPT !.catch = (x.val = "catch")] /\ UNCHANGED <<core, doing, regs, dcr>>
  BY <1>2 DEF CoreTypes
<1>3. CASE SystemReset
  <2>1. regs' \in [Regs -> Values]
    BY <1>3 DEF SystemReset, All, Values
  <2> QED BY <1>3, <2>1 DEF SystemReset, CoreTypes
<1>4. CASE /\ dcr' = [dcr EXCEPT !.data = x.val] /\ UNCHANGED <<core, doing, regs, dhcsr>>
           /\ x.op = "put" /\ x.reg = "DCRDR"
  <2>1. x.val \in Values
    BY <1>4 DEF Fits, Values
  <2> QED BY <1>4, <2>1 DEF CoreTypes
<1>5. CASE x.op = "put" /\ x.reg = "DCRSR" /\ Transferred(x.val)
  <2>1. dcr.data \in Values /\ x.val \in Regs
    BY <1>5 DEF CoreTypes, Fits
  <2>2. regs' \in [Regs -> Values]
    BY <1>5, <2>1 DEF Transferred, CoreTypes
  <2>3. dcr' \in [data : Values, ready : BOOLEAN]
    BY <1>5 DEF Transferred, CoreTypes
  <2> QED BY <1>5, <2>2, <2>3 DEF Transferred, CoreTypes
<1>6. CASE Fetched("r0")
  <2>1. regs["r0"] \in Values /\ dcr.data \in Values
    BY RegsGiven DEF CoreTypes
  <2> QED BY <1>6, <2>1 DEF Fetched, CoreTypes
<1>7. CASE UNCHANGED target
  BY <1>7 DEF target, CoreTypes
<1> QED
  BY <1>1, <1>2, <1>3, <1>4, <1>5, <1>6, <1>7, EffectKinds

\* What a write of DHCSR leaves there.
LEMMA DhcsrSet ==
    ASSUME CoreTypes, NEW v, SetDhcsr(v)
    PROVE  /\ dhcsr'.debugen \in BOOLEAN /\ dhcsr'.halt \in BOOLEAN
           /\ dhcsr'.debugen <=> "debugen" \in v
           /\ dhcsr'.halt <=> "halt" \in v
           /\ dhcsr'.catch = dhcsr.catch
<1> DEFINE d == "debugen" \in v
           h == "halt" \in v
<1>1. d \in BOOLEAN /\ h \in BOOLEAN
  OBVIOUS
<1>2. dhcsr' = [dhcsr EXCEPT !.debugen = d, !.halt = h]
  BY Zenon DEF SetDhcsr
<1> HIDE DEF d, h
<1>3. dhcsr'.debugen = d /\ dhcsr'.halt = h /\ dhcsr'.catch = dhcsr.catch
  BY <1>1, <1>2 DEF CoreTypes
<1>4. /\ dhcsr'.debugen \in BOOLEAN /\ dhcsr'.halt \in BOOLEAN
      /\ (dhcsr'.debugen <=> d) /\ (dhcsr'.halt <=> h) /\ dhcsr'.catch = dhcsr.catch
  BY <1>1, <1>3
<1> QED
  BY <1>4 DEF d, h

\* The exchange a call is at, and where a call stands after one of them.
LEMMA Here ==
    ASSUME BaseInv, Ongoing
    PROVE  /\ call \in Calls /\ Planned(call) /\ Fits(This, call)
           /\ Len(Plan(call)) \in Nat /\ at \in 1 .. Len(Plan(call))
           /\ polls \in Nat /\ (polls = 0 \/ polls < This.max)
<1>1. call \in Calls /\ at \in 1 .. Len(Plan(call)) + 1 /\ status = "running"
      /\ at <= Len(Plan(call)) /\ polls \in 0 .. RegPolls + HaltPolls
      /\ (polls = 0 \/ polls < This.max)
  BY DEF BaseInv, HostTypes, Ongoing
<1>2. Planned(call)
  BY <1>1, PlansFit
<1>3. Len(Plan(call)) \in Nat /\ at \in 1 .. Len(Plan(call))
  BY <1>1, <1>2 DEF Planned
<1>4. Fits(This, call)
  BY <1>2, <1>3 DEF Planned, This
<1>5. polls \in Nat
  BY <1>1, TargetAssumption
<1> QED
  BY <1>1, <1>2, <1>3, <1>4, <1>5

\* A call goes on: at a place of its plan, with a new count of polls.
GoesOn == at' \in 1 .. Len(Plan(call)) + 1 /\ polls' = 0 /\ status' = status
          /\ result' \in {result, "false"}

\* A call that goes on stays within its plan, also after a failure.
LEMMA GoesTo ==
    ASSUME BaseInv, Ongoing, Goes
    PROVE  GoesOn
  BY Here DEF Goes, GoesOn

LEMMA FailsTo ==
    ASSUME BaseInv, Ongoing, Fails(This)
    PROVE  \/ GoesOn /\ This.else \in {"next", "run"}
           \/ /\ Ends("false") \/ Ends(result)
              /\ This.else = "false" => Ends("false")
<1>1. This.else \in {"false", "next", "run", "end"} /\ (This.else = "run" => call.op = "read")
  BY Here DEF Fits
<1>2. CASE This.else = "false"
  BY <1>2 DEF Fails
<1>3. CASE This.else = "next"
  BY <1>3, GoesTo DEF Fails
<1>4. CASE This.else = "run"
  <2>1. /\ at' = (Len(Plan(call)) - Len(Resume)) + 1
        /\ polls' = 0 /\ result' = "false" /\ UNCHANGED status
    BY <1>4 DEF Fails
  <2>2. Len(Plan(call)) >= 6 /\ Len(Plan(call)) \in Nat
    BY <1>1, <1>4, Here, ReadPlanned
  <2>3. at' \in 1 .. Len(Plan(call)) + 1
    BY <2>1, <2>2, ResumePlan
  <2> QED BY <1>4, <2>1, <2>3 DEF GoesOn
<1>5. CASE This.else = "end"
  BY <1>5 DEF Fails
<1> QED
  BY <1>1, <1>2, <1>3, <1>4, <1>5

\* A step of the host that goes on with its call or ends it keeps the types.
LEMMA HostStep ==
    ASSUME BaseInv, Ongoing, call' = call, GoesOn \/ Ends("false") \/ Ends("true") \/ Ends(result),
           pins' \in {"on", "off"}, shown' \subseteq 0 .. Space - 1
    PROVE  HostTypes'
<1>1. HostTypes /\ call \in Calls /\ status = "running" /\ result \in {"true", "false"}
  BY DEF BaseInv, HostTypes, Ongoing
<1>2. CASE GoesOn
  <2>1. polls' = 0 /\ 0 \in 0 .. RegPolls + HaltPolls
    BY <1>2, TargetAssumption DEF GoesOn
  <2>2. result' \in {"true", "false"}
    BY <1>1, <1>2 DEF GoesOn
  <2> QED BY <1>1, <1>2, <2>1, <2>2 DEF GoesOn, HostTypes
<1>3. CASE Ends("false") \/ Ends("true") \/ Ends(result)
  <2>1. status' \in {"true", "false"} /\ UNCHANGED <<at, polls, result>>
    BY <1>1, <1>3 DEF Ends
  <2> QED BY <1>1, <2>1 DEF HostTypes, Ongoing
<1> QED
  BY <1>2, <1>3

\* Types hold at first and after every step.
LEMMA BaseInit == Init => BaseInv
<1> SUFFICES ASSUME Init PROVE BaseInv
  OBVIOUS
<1>1. regs \in [Regs -> Values]
  BY DEF Init, All, Values
<1>2. /\ dhcsr \in [debugen : BOOLEAN, halt : BOOLEAN, catch : BOOLEAN]
      /\ dcr \in [data : Values, ready : BOOLEAN]
  BY DEF Init, Values
<1>3. 0 \in 0 .. RegPolls + HaltPolls
  BY TargetAssumption
<1> QED
  BY <1>1, <1>2, <1>3 DEF Init, BaseInv, CoreTypes, HostTypes, HistoryTypes, Ongoing

\* The history keeps its types.
LEMMA HistoryStep ==
    ASSUME BaseInv, [Next]_vars
    PROVE  HistoryTypes'
<1>1. HistoryTypes
  BY DEF BaseInv
<1>2. ASSUME NEW x, NEW done \in BOOLEAN, Moves(x, done) PROVE started' \in BOOLEAN /\ wasReset' \in BOOLEAN
  <2>1. /\ started' = (started \/ (done /\ call.op = "exec" /\ core = "halted" /\ core' = "running"))
        /\ wasReset' = (wasReset \/ (done /\ x.reg = "AIRCR" /\ x.op = "put"))
    BY <1>2 DEF Moves
  <2> QED BY <2>1
<1>3. CASE Ongoing /\ Succeeds(This)
  BY <1>1, <1>2, <1>3 DEF Succeeds, HistoryTypes
<1>4. CASE Ongoing /\ Loses(This)
  BY <1>2, <1>4 DEF Loses, HistoryTypes
<1>5. ASSUME NEW c \in Calls, Begin(c) PROVE HistoryTypes'
  BY <1>5 DEF Begin, HistoryTypes
<1>6. CASE CoreHalts \/ FunctionEnds
  BY <1>1, <1>6 DEF CoreHalts, FunctionEnds, history, HistoryTypes
<1>7. CASE Ongoing /\ (Polls(This) \/ Switches(This) \/ Refuses(This))
  BY <1>1, <1>7 DEF Polls, Switches, Refuses, history, HistoryTypes
<1>8. CASE Return \/ UNCHANGED vars
  BY <1>1, <1>8 DEF Return, vars, history, HistoryTypes
<1> QED
  BY <1>3, <1>4, <1>5, <1>6, <1>7, <1>8, Steps

\* Every step keeps the types.
LEMMA BaseStep ==
    ASSUME BaseInv, [Next]_vars
    PROVE  BaseInv'
<1>1. CoreTypes /\ HostTypes
  BY DEF BaseInv
<1>11. HistoryTypes'
  BY HistoryStep
<1>2. ASSUME NEW c \in Calls, Begin(c) PROVE BaseInv'
  <2>1. CoreTypes'
    BY <1>1, <1>2 DEF Begin, target, CoreTypes
  <2>2. Planned(c)
    BY PlansFit
  <2>3. at' \in 1 .. Len(Plan(call')) + 1
    BY <1>2, <2>2 DEF Begin, Planned
  <2>4. polls' = 0 /\ 0 \in 0 .. RegPolls + HaltPolls /\ shown' = {}
    BY <1>2, TargetAssumption DEF Begin
  <2>5. HostTypes'
    BY <1>1, <1>2, <2>3, <2>4 DEF Begin, HostTypes
  <2> QED BY <1>11, <2>1, <2>5 DEF BaseInv
<1>3. CASE Ongoing /\ Succeeds(This)
  <2>1. CoreTypes'
    BY <1>1, <1>3, Here, EffectTypes DEF Succeeds
  <2>2. shown' \subseteq 0 .. Space - 1
    BY <1>1, <1>3, Here DEF Succeeds, HostTypes, Fits
  <2>3. GoesOn \/ Ends("false")
    BY <1>3, GoesTo DEF Succeeds
  <2>4. call' = call /\ pins' \in {"on", "off"}
    BY <1>1, <1>3 DEF Succeeds, HostTypes
  <2>5. HostTypes'
    BY <1>3, <2>2, <2>3, <2>4, HostStep
  <2> QED BY <1>11, <2>1, <2>5 DEF BaseInv
<1>4. CASE Ongoing /\ Polls(This)
  <2>1. CoreTypes' /\ call' = call /\ pins' = pins /\ shown' = shown /\ pins \in {"on", "off"}
        /\ shown \subseteq 0 .. Space - 1
    BY <1>1, <1>4 DEF Polls, target, CoreTypes, HostTypes
  <2>2. CASE Goes \/ Ends("false")
    <3>1. HostTypes'
      BY <1>4, <2>1, <2>2, GoesTo, HostStep
    <3> QED BY <1>11, <2>1, <3>1 DEF BaseInv
  <2>3. CASE /\ ~(This.max # NoLimit /\ polls + 1 = This.max)
             /\ polls' = (IF This.max = NoLimit THEN polls ELSE polls + 1)
             /\ UNCHANGED <<at, status, result>>
    <3>1. polls \in Nat /\ (polls = 0 \/ polls < This.max)
          /\ This.max \in {NoLimit, RegPolls, HaltPolls}
      BY <1>4, Here DEF Fits
    <3>2. polls' \in 0 .. RegPolls + HaltPolls /\ (polls' = 0 \/ polls' < This.max)
      <4> DEFINE max == This.max
      <4>1. max \in {0, RegPolls, HaltPolls}
            /\ ~(max # 0 /\ polls + 1 = max) /\ polls' = (IF max = 0 THEN polls ELSE polls + 1)
            /\ (polls = 0 \/ polls < max)
        BY <2>3, <3>1 DEF NoLimit
      <4> HIDE DEF max
      <4>2. polls' \in 0 .. RegPolls + HaltPolls /\ (polls' = 0 \/ polls' < max)
        BY <3>1, <4>1, TargetAssumption
      <4> QED BY <4>2 DEF max
    <3>3. Ongoing' /\ This' = This
      BY <1>4, <2>1, <2>3 DEF Ongoing, This
    <3>4. HostTypes'
      BY <1>1, <2>1, <2>3, <3>2, <3>3 DEF HostTypes
    <3> QED BY <1>11, <2>1, <3>4 DEF BaseInv
  <2> QED BY <1>4, <2>2, <2>3 DEF Polls
<1>5. CASE Ongoing /\ Switches(This)
  <2>1. CoreTypes' /\ call' = call /\ shown' = shown /\ shown \subseteq 0 .. Space - 1 /\ Goes
    BY <1>1, <1>5 DEF Switches, target, CoreTypes, HostTypes
  <2>2. pins' \in {"on", "off"}
    BY <1>5, Here DEF Switches, Fits
  <2>3. HostTypes'
    BY <1>5, <2>1, <2>2, GoesTo, HostStep
  <2> QED BY <1>11, <2>1, <2>3 DEF BaseInv
<1>6. CASE Ongoing /\ Refuses(This)
  <2>1. /\ CoreTypes' /\ call' = call /\ shown' = shown /\ shown \subseteq 0 .. Space - 1
        /\ pins' \in {"on", "off"} /\ Ends("false")
    BY <1>1, <1>6 DEF Refuses, target, CoreTypes, HostTypes
  <2>2. HostTypes'
    BY <1>6, <2>1, HostStep
  <2> QED BY <1>11, <2>1, <2>2 DEF BaseInv
<1>7. CASE Return
  <2>1. CoreTypes' /\ UNCHANGED <<pins, call, shown, at, polls, result>>
    BY <1>1, <1>7 DEF Return, Ends, target, CoreTypes
  <2>2. status' = result /\ result \in {"true", "false"} /\ status # "new"
    BY <1>1, <1>7 DEF Return, Ends, HostTypes
  <2>3. HostTypes'
    BY <1>1, <2>1, <2>2 DEF HostTypes, Ongoing
  <2> QED BY <1>11, <2>1, <2>3 DEF BaseInv
<1>8. CASE Ongoing /\ Loses(This)
  <2>1. CoreTypes'
    <3>1. CASE UNCHANGED target
      BY <1>1, <3>1 DEF target, CoreTypes
    <3>2. CASE Effect(This)
      BY <1>1, <1>8, <3>2, Here, EffectTypes
    <3> QED BY <1>8, <3>1, <3>2 DEF Loses
  <2>2. GoesOn \/ Ends("false") \/ Ends(result)
    BY <1>8, FailsTo DEF Loses
  <2>3. call' = call /\ pins' \in {"on", "off"} /\ shown' \subseteq 0 .. Space - 1
    BY <1>1, <1>8 DEF Loses, HostTypes
  <2>4. HostTypes'
    BY <1>8, <2>2, <2>3, HostStep
  <2> QED BY <1>11, <2>1, <2>4 DEF BaseInv
<1>9. CASE CoreHalts \/ FunctionEnds
  <2>1. regs' \in [Regs -> Values]
    BY <1>1, <1>9, RegsGiven DEF CoreHalts, FunctionEnds, All, Values, CoreTypes
  <2>2. /\ core' = "halted" /\ UNCHANGED <<doing, dhcsr, dcr>> /\ UNCHANGED host
    BY <1>9 DEF CoreHalts, FunctionEnds
  <2>3. CoreTypes' /\ HostTypes'
    BY <1>1, <2>1, <2>2 DEF CoreTypes, HostTypes, host, Ongoing, This
  <2> QED BY <1>11, <2>3 DEF BaseInv
<1>10. CASE UNCHANGED vars
  BY <1>1, <1>10, <1>11 DEF vars, target, host, BaseInv, CoreTypes, HostTypes, Ongoing, This
<1> QED
  BY <1>2, <1>3, <1>4, <1>5, <1>6, <1>7, <1>8, <1>9, <1>10, Steps

-----------------------------------------------------------------------------
(***************************************************************************)
(* The call of a function.                                                 *)
(***************************************************************************)
Executing == call.op = "exec" /\ status = "running"

\* Up to the exchange that lets the core go, the registers that are written
\* hold what the call gave them.
Loading ==
    Executing /\ at <= 3 * N + 2 =>
        /\ ~started
        /\ at > 4 => core = "halted"
        /\ \A k \in 1 .. N :
             /\ at > 3 * k + 1 => regs[RegOrder[k]] = call.function
             /\ at = 3 * k => dcr.data = call.function
             /\ at = 3 * k + 1 /\ dcr.ready => core = "halted" /\ regs[RegOrder[k]] = call.function

\* From then on the function of this call runs, or has come back with its result.
Awaiting ==
    Executing /\ at > 3 * N + 2 =>
        /\ started /\ ~dhcsr.halt
        /\ core = "halted" => regs["r0"] = outcome
        /\ at > 3 * N + 4 => core = "halted"
        /\ at > 3 * N + 5 => dcr.data = outcome
        /\ at > 3 * N + 7 => outcome = "zero"

ExecInv ==
    /\ Executing => result = "true"
    /\ Loading /\ Awaiting
    /\ SyscallAnswers

\* The kinds of the exchanges.
LEMMA Kinds ==
    /\ \A n, v : Put(n, v).op = "put" /\ Put(n, v).reg = n /\ Put(n, v).else = "false"
    /\ \A n : Get(n).op = "get" /\ Get(n).reg = n /\ Get(n).else = "false"
    /\ \A n : Port(n).op = "port" /\ Port(n).reg = n /\ Port(n).else = "false"
    /\ \A v : Pins(v).op = "pins" /\ Pins(v).reg = "none" /\ Pins(v).val = v /\ Pins(v).else = "false"
    /\ \A b, m : /\ Poll(b, m).op = "poll" /\ Poll(b, m).reg = b /\ Poll(b, m).max = m
                 /\ Poll(b, m).else = "false"
  BY DEF Put, Get, Port, Pins, Poll, Exchange

\* Where the call of a function is.
AtRegister(k) ==
    \/ at = 3 * k - 1 /\ This = Put("DCRDR", call.function)
    \/ at = 3 * k /\ This = Put("DCRSR", RegOrder[k])
    \/ at = 3 * k + 1 /\ This = Poll("REGRDY", RegPolls)

\* The exchange that a call of a function is at, by its place.
LEMMA ExecAt ==
    ASSUME BaseInv, Ongoing, call.op = "exec"
    PROVE  /\ \/ at = 1 /\ This = Port("SELECT")
              \/ \E k \in 1 .. N : AtRegister(k)
              \/ at = 3 * N + 2 /\ This = Put("DHCSR", {"debugen"})
              \/ at = 3 * N + 3 /\ This = Port("STAT")
              \/ at = 3 * N + 4 /\ This = Poll("HALT", HaltPolls)
              \/ at = 3 * N + 5 /\ This = Get("DCRSR")
              \/ at = 3 * N + 6 /\ This = Poll("REGRDY", RegPolls)
              \/ at = 3 * N + 7 /\ This = Get("DCRDR")
           /\ This.else = "false" /\ at \in Nat
<1> DEFINE f == call.function
           s == SyscallExec(f)
<1>1. at \in 1 .. Len(s) /\ This = s[at]
  BY Here, ExecPlanned DEF This
<1>2. /\ Len(s) = 3 * N + 7 /\ s[1] = Port("SELECT")
      /\ \A k \in 1 .. N : /\ s[3 * k - 1] = Put("DCRDR", f)
                           /\ s[3 * k] = Put("DCRSR", RegOrder[k])
                           /\ s[3 * k + 1] = Poll("REGRDY", RegPolls)
      /\ s[3 * N + 2] = Put("DHCSR", {"debugen"}) /\ s[3 * N + 3] = Port("STAT")
      /\ s[3 * N + 4] = Poll("HALT", HaltPolls) /\ s[3 * N + 5] = Get("DCRSR")
      /\ s[3 * N + 6] = Poll("REGRDY", RegPolls) /\ s[3 * N + 7] = Get("DCRDR")
  BY SyscallPlan
<1> HIDE DEF s
<1>3. \/ at = 1
      \/ \E k \in 1 .. N : at = 3 * k - 1 \/ at = 3 * k \/ at = 3 * k + 1
      \/ \E k \in 2 .. 7 : at = 3 * N + k
  BY <1>1, <1>2, ExecPlaces
<1>4. at \in Nat
  BY <1>1
<1>5. CASE at = 1
  BY <1>1, <1>2, <1>4, <1>5, Kinds
<1>6. ASSUME NEW k \in 1 .. N, at = 3 * k - 1 \/ at = 3 * k \/ at = 3 * k + 1
      PROVE  AtRegister(k) /\ This.else = "false"
  <2>1. AtRegister(k)
    BY <1>1, <1>2, <1>6 DEF AtRegister
  <2> QED BY <2>1, Kinds DEF AtRegister
<1>7. ASSUME NEW k \in 2 .. 7, at = 3 * N + k
      PROVE  /\ \/ at = 3 * N + 2 /\ This = Put("DHCSR", {"debugen"})
                \/ at = 3 * N + 3 /\ This = Port("STAT")
                \/ at = 3 * N + 4 /\ This = Poll("HALT", HaltPolls)
                \/ at = 3 * N + 5 /\ This = Get("DCRSR")
                \/ at = 3 * N + 6 /\ This = Poll("REGRDY", RegPolls)
                \/ at = 3 * N + 7 /\ This = Get("DCRDR")
             /\ This.else = "false"
  <2>1. k = 2 \/ k = 3 \/ k = 4 \/ k = 5 \/ k = 6 \/ k = 7
    OBVIOUS
  <2> QED BY <1>1, <1>2, <1>7, <2>1, Kinds
<1> QED
  BY <1>3, <1>4, <1>5, <1>6, <1>7

\* An exchange of the call that takes place.
LEMMA ExecSucceeds ==
    ASSUME BaseInv, ExecInv, Executing, Ongoing, Succeeds(This), Goes
    PROVE  Loading' /\ Awaiting'
<1>1. /\ call' = call /\ status' = status /\ at' = at + 1 /\ status = "running"
      /\ outcome' = outcome
      /\ started' = (started \/ (core = "halted" /\ core' = "running"))
      /\ Effect(This) /\ This.op # "poll"
      /\ call.op = "exec" /\ at \in Nat
  BY ExecAt, Zenon DEF Succeeds, Moves, Goes, Executing
<1>2. N \in Nat \ {0} /\ \A k \in 1 .. N : RegOrder[k] \in Regs
  BY RegsGiven
<1>3. CoreTypes /\ Loading /\ Awaiting /\ started \in BOOLEAN
  BY DEF BaseInv, HistoryTypes, ExecInv
<1> DEFINE f == call.function
<1>4. CASE at = 1 /\ This = Port("SELECT")
  <2>1. UNCHANGED target
    BY <1>1, <1>4, EffectOf
  <2>2. ~started /\ started' = started
    BY <1>1, <1>2, <1>3, <1>4, <2>1 DEF Loading, Executing, target, CoreTypes
  <2> QED BY <1>1, <1>2, <1>4, <2>2 DEF Loading, Awaiting, Executing
<1>5. ASSUME NEW k \in 1 .. N, at = 3 * k - 1, This = Put("DCRDR", f)
      PROVE  Loading' /\ Awaiting'
  <2>1. dcr' = [dcr EXCEPT !.data = f] /\ UNCHANGED <<core, doing, regs, dhcsr>>
    BY <1>1, <1>5, EffectOf
  <2>2. dcr'.data = f
    BY <1>3, <2>1 DEF CoreTypes
  <2>3. /\ ~started /\ (at > 4 => core = "halted")
        /\ \A j \in 1 .. N : at > 3 * j + 1 => regs[RegOrder[j]] = f
    BY <1>1, <1>2, <1>3, <1>5 DEF Loading, Executing
  <2>4. started' = started
    BY <1>1, <1>3, <2>1, <2>3
  <2>5. Loading'
    BY <1>1, <1>2, <1>5, <2>1, <2>2, <2>3, <2>4 DEF Loading, Executing
  <2>6. Awaiting'
    BY <1>1, <1>2, <1>5 DEF Awaiting, Executing
  <2> QED BY <2>5, <2>6
<1>6. ASSUME NEW k \in 1 .. N, at = 3 * k, This = Put("DCRSR", RegOrder[k])
      PROVE  Loading' /\ Awaiting'
  <2>1. Transferred(RegOrder[k])
    BY <1>1, <1>6, EffectOf
  <2>2. /\ ~started /\ (at > 4 => core = "halted") /\ dcr.data = f
        /\ \A j \in 1 .. N : at > 3 * j + 1 => regs[RegOrder[j]] = f
    BY <1>1, <1>2, <1>3, <1>6 DEF Loading, Executing
  <2>3. started' = started /\ core' = core
    BY <1>1, <1>3, <2>1, <2>2 DEF Transferred
  <2>4. dcr'.ready = (core = "halted")
    BY <1>3, <2>1 DEF CoreTypes, Transferred
  <2>5. \A n \in Regs : regs'[n] = regs[n] \/ regs'[n] = f
    BY <1>3, <2>1, <2>2 DEF CoreTypes, Transferred
  <2>6. core = "halted" => regs'[RegOrder[k]] = f
    BY <1>2, <1>3, <2>1, <2>2 DEF CoreTypes, Transferred
  <2>7. \A j \in 1 .. N : at > 3 * j + 1 => regs'[RegOrder[j]] = f
    BY <1>2, <2>2, <2>5
  <2>8. Loading'
    <3>1. at' > 4 => core' = "halted"
      BY <1>1, <1>6, <2>2, <2>3
    <3>2. ASSUME NEW j \in 1 .. N
          PROVE  /\ at' > 3 * j + 1 => regs'[RegOrder[j]] = f
                 /\ at' # 3 * j
                 /\ at' = 3 * j + 1 /\ dcr'.ready => core' = "halted" /\ regs'[RegOrder[j]] = f
      <4>1. at' > 3 * j + 1 => at > 3 * j + 1
        BY <1>1, <1>2, <1>6
      <4>2. at' # 3 * j /\ (at' = 3 * j + 1 => j = k)
        BY <1>1, <1>2, <1>6
      <4> QED BY <2>3, <2>4, <2>6, <2>7, <4>1, <4>2
    <3> QED BY <1>1, <2>2, <2>3, <3>1, <3>2 DEF Loading, Executing
  <2>9. Awaiting'
    BY <1>1, <1>2, <1>6 DEF Awaiting, Executing
  <2> QED BY <2>8, <2>9
<1>7. CASE at = 3 * N + 2 /\ This = Put("DHCSR", {"debugen"})
  <2>1. core = "halted"
    BY <1>1, <1>2, <1>3, <1>7 DEF Loading, Executing
  <2>2. SetDhcsr({"debugen"})
    BY <1>1, <1>7, EffectOf
  <2>3. core' = "running" /\ dhcsr'.halt = FALSE
    <3>1. "halt" \notin {"debugen"}
      OBVIOUS
    <3>2. core' = "running"
      BY <2>1, <2>2, <3>1 DEF SetDhcsr
    <3>3. dhcsr'.halt \in BOOLEAN /\ ~dhcsr'.halt
      BY <1>3, <2>2, <3>1, DhcsrSet
    <3> QED BY <3>2, <3>3
  <2>4. started'
    BY <1>1, <2>1, <2>3
  <2> QED BY <1>1, <1>2, <1>7, <2>3, <2>4 DEF Loading, Awaiting, Executing
<1>8. CASE at = 3 * N + 3 /\ This = Port("STAT")
  <2>1. UNCHANGED target
    BY <1>1, <1>8, EffectOf
  <2>2. started' /\ ~dhcsr'.halt /\ (core' = "halted" => regs'["r0"] = outcome')
    BY <1>1, <1>2, <1>3, <1>8, <2>1 DEF Awaiting, Executing, target
  <2> QED BY <1>1, <1>2, <1>8, <2>2 DEF Loading, Awaiting, Executing
<1>9. CASE at = 3 * N + 5 /\ This = Get("DCRSR")
  <2>1. Fetched("r0")
    BY <1>1, <1>9, EffectOf
  <2>2. started /\ ~dhcsr.halt /\ core = "halted" /\ regs["r0"] = outcome
    BY <1>1, <1>2, <1>3, <1>9 DEF Awaiting, Executing
  <2>3. dcr'.data = outcome /\ UNCHANGED <<core, regs, dhcsr>>
    BY <2>1, <2>2 DEF Fetched
  <2>4. started' /\ ~dhcsr'.halt /\ core' = "halted" /\ regs'["r0"] = outcome' /\ dcr'.data = outcome'
    BY <1>1, <2>2, <2>3
  <2>5. ~(at' <= 3 * N + 2) /\ ~(at' > 3 * N + 7)
    BY <1>2, <1>1, <1>9
  <2> QED BY <2>4, <2>5, Zenon DEF Loading, Awaiting, Executing
<1>10. CASE at = 3 * N + 7 /\ This = Get("DCRDR")
  <2>1. UNCHANGED target
    BY <1>1, <1>10, EffectOf
  <2>2. ~Wrong(This)
    BY <1>1 DEF Succeeds, Goes, Ends
  <2>3. dcr.data = "zero"
    BY <1>10, <2>2, Kinds DEF Wrong
  <2>4. /\ started /\ ~dhcsr.halt /\ core = "halted" /\ regs["r0"] = outcome
        /\ dcr.data = outcome
    BY <1>1, <1>2, <1>3, <1>10 DEF Awaiting, Executing
  <2>5. /\ started' /\ ~dhcsr'.halt /\ core' = "halted" /\ regs'["r0"] = outcome'
        /\ dcr'.data = outcome' /\ outcome' = "zero"
    BY <1>1, <2>1, <2>3, <2>4 DEF target
  <2>6. ~(at' <= 3 * N + 2)
    BY <1>2, <1>1, <1>10
  <2> QED BY <2>5, <2>6, Zenon DEF Loading, Awaiting, Executing
<1>11. \A b, m : This # Poll(b, m)
  BY <1>1, Kinds
<1> QED
  BY <1>1, <1>4, <1>5, <1>6, <1>7, <1>8, <1>9, <1>10, <1>11, ExecAt DEF AtRegister

\* A poll of the call that sees what it waits for.
LEMMA ExecPolls ==
    ASSUME BaseInv, ExecInv, Executing, Ongoing, This.op = "poll", Seen(This.reg), Goes,
           UNCHANGED <<target, call, history>>
    PROVE  Loading' /\ Awaiting'
<1>1. /\ status' = status /\ at' = at + 1 /\ call.op = "exec" /\ at \in Nat /\ status = "running"
  BY ExecAt DEF Goes, Executing
<1>2. N \in Nat \ {0} /\ Loading /\ Awaiting
  BY RegsGiven DEF ExecInv
<1>3. ASSUME NEW k \in 1 .. N, at = 3 * k + 1, This = Poll("REGRDY", RegPolls)
      PROVE  Loading' /\ Awaiting'
  <2>1. dcr.ready
    BY <1>3, Kinds DEF Seen
  <2>2. /\ ~started /\ core = "halted" /\ regs[RegOrder[k]] = call.function
        /\ \A j \in 1 .. N : at > 3 * j + 1 => regs[RegOrder[j]] = call.function
    BY <1>1, <1>2, <1>3, <2>1 DEF Loading, Executing
  <2>3. ASSUME NEW j \in 1 .. N
        PROVE  /\ at' > 3 * j + 1 => regs[RegOrder[j]] = call.function
               /\ at' # 3 * j /\ at' # 3 * j + 1
    <3>1. at' > 3 * j + 1 => at > 3 * j + 1 \/ j = k
      BY <1>1, <1>2, <1>3
    <3>2. at' # 3 * j /\ at' # 3 * j + 1
      BY <1>1, <1>2, <1>3
    <3> QED BY <2>2, <3>1, <3>2
  <2>4. at' <= 3 * N + 2
    BY <1>1, <1>2, <1>3
  <2> QED BY <1>1, <1>2, <2>2, <2>3, <2>4 DEF Loading, Awaiting, Executing, target, history
<1>4. CASE at = 3 * N + 4 /\ This = Poll("HALT", HaltPolls)
  <2>1. core = "halted"
    BY <1>4, Kinds DEF Seen
  <2>2. started /\ ~dhcsr.halt /\ regs["r0"] = outcome
    BY <1>1, <1>2, <1>4, <2>1 DEF Awaiting, Executing
  <2> QED BY <1>1, <1>2, <1>4, <2>1, <2>2 DEF Loading, Awaiting, Executing, target, history
<1>5. CASE at = 3 * N + 6 /\ This = Poll("REGRDY", RegPolls)
  <2>1. started /\ ~dhcsr.halt /\ core = "halted" /\ regs["r0"] = outcome /\ dcr.data = outcome
    BY <1>1, <1>2, <1>5 DEF Awaiting, Executing
  <2> QED BY <1>1, <1>2, <1>5, <2>1 DEF Loading, Awaiting, Executing, target, history
<1>6. /\ \A n, v : This # Put(n, v)
      /\ \A n : This # Get(n) /\ This # Port(n)
  BY Kinds
<1> QED
  BY <1>1, <1>3, <1>4, <1>5, <1>6, ExecAt DEF AtRegister

\* Every step keeps what is known of the call of a function.
LEMMA ExecStep ==
    ASSUME BaseInv, ExecInv, [Next]_vars
    PROVE  ExecInv'
<1>1. N \in Nat \ {0}
  BY RegsGiven
<1>2. ASSUME NEW c \in Calls, Begin(c) PROVE ExecInv'
  <2>1. at' = 1 /\ status' = "running" /\ result' = "true" /\ started' = FALSE
    BY <1>2 DEF Begin
  <2>2. Loading'
    BY <1>1, <2>1 DEF Loading, Executing
  <2>3. Awaiting'
    BY <1>1, <2>1 DEF Awaiting, Executing
  <2> QED BY <2>1, <2>2, <2>3 DEF ExecInv, SyscallAnswers, Returned
<1>3. CASE UNCHANGED vars
  BY <1>3 DEF vars, target, host, history, ExecInv, Loading, Awaiting, Executing,
     SyscallAnswers, Returned
<1>4. ASSUME call' = call, call.op # "exec" PROVE ExecInv'
  BY <1>4 DEF ExecInv, Loading, Awaiting, Executing, SyscallAnswers, Returned
<1>5. ASSUME call' = call, status' = "false" PROVE ExecInv'
  BY <1>5 DEF ExecInv, Loading, Awaiting, Executing, SyscallAnswers, Returned
<1>6. ASSUME Executing, call' = call, Goes, Loading', Awaiting' PROVE ExecInv'
  BY <1>6 DEF ExecInv, Executing, Goes, SyscallAnswers, Returned
<1>7. CASE Ongoing /\ Succeeds(This)
  <2>1. CASE ~Executing
    BY <1>4, <1>7, <2>1 DEF Executing, Ongoing, Succeeds
  <2>2. CASE Executing /\ Wrong(This)
    BY <1>5, <1>7, <2>2 DEF Succeeds, Ends
  <2>3. CASE Executing /\ ~Wrong(This)
    <3>1. Goes /\ call' = call
      BY <1>7, <2>3 DEF Succeeds
    <3> QED BY <1>6, <1>7, <2>3, <3>1, ExecSucceeds
  <2> QED BY <2>1, <2>2, <2>3
<1>8. CASE Ongoing /\ Polls(This)
  <2>1. call' = call /\ UNCHANGED <<target, call, history>> /\ This.op = "poll"
    BY <1>8 DEF Polls
  <2>2. CASE ~Executing
    BY <1>4, <1>8, <2>1, <2>2 DEF Executing, Ongoing
  <2>3. CASE Executing /\ Seen(This.reg) /\ Goes
    BY <1>6, <1>8, <2>1, <2>3, ExecPolls
  <2>4. CASE Ends("false")
    BY <1>5, <2>1, <2>4 DEF Ends
  <2>5. CASE UNCHANGED <<at, status, result>>
    BY <2>1, <2>5 DEF target, history, ExecInv, Loading, Awaiting, Executing, SyscallAnswers, Returned
  <2> QED BY <1>8, <2>2, <2>3, <2>4, <2>5 DEF Polls
<1>9. CASE Ongoing /\ (Switches(This) \/ Refuses(This))
  <2>1. call' = call /\ This.op \in {"pins", "refuse"}
    BY <1>9 DEF Switches, Refuses
  <2>2. call.op # "exec"
    BY <1>9, <2>1, ExecAt, Kinds DEF AtRegister
  <2> QED BY <1>4, <2>1, <2>2
<1>10. CASE Return
  <2>1. /\ UNCHANGED <<target, call, history>> /\ status = "running" /\ at > Len(Plan(call))
        /\ status' = result /\ call' = call
    BY <1>10 DEF Return, Ends
  <2>2. CASE call.op = "exec"
    <3>1. Len(Plan(call)) = 3 * N + 7
      BY <2>1, <2>2, ExecPlanned, SyscallPlan DEF BaseInv, HostTypes
    <3>2. at \in Nat /\ at > 3 * N + 7
      <4>1. at \in 1 .. Len(Plan(call)) + 1
        BY <2>1 DEF BaseInv, HostTypes
      <4> QED BY <1>1, <2>1, <3>1, <4>1
    <3>3. outcome = "zero" /\ core = "halted"
      BY <1>1, <2>1, <2>2, <3>2 DEF ExecInv, Awaiting, Executing
    <3>4. status' = "true"
      BY <2>1, <2>2 DEF ExecInv, Executing
    <3> QED BY <2>1, <3>3, <3>4 DEF ExecInv, Loading, Awaiting, Executing, SyscallAnswers,
               target, history
  <2> QED BY <1>4, <2>1, <2>2
<1>11. CASE Ongoing /\ Loses(This)
  <2>1. call' = call
    BY <1>11 DEF Loses
  <2>2. call.op = "exec" => status' = "false"
    BY <1>11, ExecAt DEF Loses, Fails, Ends
  <2> QED BY <1>4, <1>5, <2>1, <2>2
<1>12. CASE CoreHalts \/ FunctionEnds
  <2>1. /\ core = "running" /\ core' = "halted" /\ UNCHANGED <<dhcsr, dcr, host>>
        /\ started' = started
    BY <1>12 DEF CoreHalts, FunctionEnds, history
  <2>2. Executing' = Executing /\ at' = at /\ call' = call /\ status' = status /\ result' = result
    BY <2>1 DEF host, Executing
  <2>3. Executing => at \in Nat
    BY DEF BaseInv, HostTypes, Executing
  <2>4. Loading'
    <3>1. SUFFICES ASSUME Executing, at <= 3 * N + 2 PROVE Loading'
      BY <2>2 DEF Loading
    <3>2. /\ ~started /\ at <= 4
          /\ \A k \in 1 .. N : (at = 3 * k => dcr.data = call.function) /\ (at = 3 * k + 1 => ~dcr.ready)
      BY <2>1, <2>3, <3>1 DEF ExecInv, Loading
    <3>3. \A k \in 1 .. N : ~(at > 3 * k + 1)
      BY <1>1, <2>3, <3>1, <3>2
    <3> QED BY <2>1, <2>2, <2>3, <3>1, <3>2, <3>3 DEF Loading, Executing
  <2>5. Awaiting'
    <3>1. SUFFICES ASSUME Executing, at > 3 * N + 2 PROVE Awaiting'
      BY <2>2 DEF Awaiting
    <3>2. started /\ ~dhcsr.halt /\ at <= 3 * N + 4
      BY <1>1, <2>1, <2>3, <3>1 DEF ExecInv, Awaiting
    <3>3. FunctionEnds
      BY <1>12, <3>2 DEF CoreHalts
    <3>4. regs'["r0"] = outcome'
      BY <3>2, <3>3, RegsGiven DEF FunctionEnds, All
    <3> QED BY <1>1, <2>1, <2>2, <2>3, <3>1, <3>2, <3>4 DEF Awaiting
  <2>6. SyscallAnswers'
    BY <2>1, <2>2 DEF ExecInv, SyscallAnswers, Returned
  <2>7. Executing => result = "true"
    BY DEF ExecInv
  <2> QED BY <2>2, <2>4, <2>5, <2>6, <2>7 DEF ExecInv
<1> QED
  BY <1>2, <1>3, <1>7, <1>8, <1>9, <1>10, <1>11, <1>12, Steps

\* A function is started only with every register as its call gave it.
LEMMA WholeStep ==
    ASSUME BaseInv, ExecInv, [Next]_vars, Executing, core = "halted", core' = "running"
    PROVE  regs = All(call.function)
<1>1. N \in Nat \ {0} /\ \A n \in Regs : \E i \in 1 .. N : n = RegOrder[i]
  BY RegsGiven
<1>2. CoreTypes /\ Loading
  BY DEF BaseInv, ExecInv
<1>3. Ongoing /\ Effect(This)
  <2>1. \A c \in Calls : ~Begin(c)
    BY DEF Begin, Executing
  <2>2. ~CoreHalts /\ ~FunctionEnds /\ ~UNCHANGED target /\ ~UNCHANGED vars
    BY DEF CoreHalts, FunctionEnds, target, vars
  <2>3. ~Return /\ ~Polls(This) /\ ~Switches(This) /\ ~Refuses(This)
    BY <2>2 DEF Return, Polls, Switches, Refuses
  <2> QED BY <2>1, <2>2, <2>3, Steps DEF Succeeds, Loses
<1>4. This.op = "put" /\ This.reg \in {"DHCSR", "AIRCR"}
  <2>1. ~UNCHANGED target /\ core' # core
    BY DEF target
  <2>2. (\A n : ~Transferred(n)) /\ ~Fetched("r0")
    BY <2>1 DEF Transferred, Fetched
  <2>3. ~UNCHANGED <<core, doing, regs, dcr>> /\ ~UNCHANGED <<core, doing, regs, dhcsr>>
    BY <2>1
  <2> QED BY <1>3, <2>1, <2>2, <2>3, EffectKinds
<1>5. at = 3 * N + 2
  BY <1>3, <1>4, ExecAt, Kinds DEF AtRegister, Executing
<1>6. \A k \in 1 .. N : regs[RegOrder[k]] = call.function
  BY <1>1, <1>2, <1>5 DEF Loading
<1>7. \A n \in Regs : regs[n] = call.function
  BY <1>1, <1>6
<1> QED
  BY <1>2, <1>7 DEF CoreTypes, All

\* The calls of functions of the flash algorithm, for every list of registers:
\* flash_syscall_exec returns true only when the function of this very call has
\* run and has returned zero.
THEOREM SyscallReturns == Spec => []SyscallAnswers
<1>1. Init => BaseInv /\ ExecInv
  <2>1. Init => ExecInv
    BY DEF Init, ExecInv, Loading, Awaiting, Executing, SyscallAnswers, Returned
  <2> QED BY <2>1, BaseInit
<1>2. BaseInv /\ ExecInv /\ [Next]_vars => (BaseInv /\ ExecInv)'
  BY BaseStep, ExecStep
<1>3. BaseInv /\ ExecInv => SyscallAnswers
  BY DEF ExecInv
<1> QED
  BY <1>1, <1>2, <1>3, PTL DEF Spec

\* write_debug_state lets the core go only when every register of the call holds
\* what this call gave it.
THEOREM StartedWhole == Spec => StartsWhole
<1>1. Init => BaseInv /\ ExecInv
  <2>1. Init => ExecInv
    BY DEF Init, ExecInv, Loading, Awaiting, Executing, SyscallAnswers, Returned
  <2> QED BY <2>1, BaseInit
<1>2. BaseInv /\ ExecInv /\ [Next]_vars => (BaseInv /\ ExecInv)'
  BY BaseStep, ExecStep
<1>3. BaseInv /\ ExecInv /\ [Next]_vars =>
        [status = "running" /\ call.op = "exec" /\ core = "halted" /\ core' = "running"
           => regs = All(call.function)]_vars
  BY WholeStep DEF Executing
<1> QED
  BY <1>1, <1>2, <1>3, PTL DEF Spec, StartsWhole

-----------------------------------------------------------------------------
(***************************************************************************)
(* The changes of the target's state.                                      *)
(***************************************************************************)
Live == status \in {"running", "true"} /\ call.op = "state"
Going(s) == Live /\ call.state = s

\* How far a change of the state has brought the core, by the place it is at.
ResetProgramInv ==
    Going("RESET_PROGRAM") =>
        /\ at > 1 => pins = "on"
        /\ at > 3 => dhcsr.debugen
        /\ at \in {5, 6, 7} \/ at > 8 => core = "halted"
        /\ at > 7 => wasReset \/ lost
        /\ at > 9 => ~dhcsr.catch

ResetRunInv ==
    Going("RESET_RUN") /\ at > 5 =>
        /\ wasReset /\ ~dhcsr.halt /\ doing = "firmware"
        /\ core = "running" \/ dhcsr.catch
        /\ at > 6 => pins = "off"

HaltInv ==
    Going("HALT") =>
        /\ at > 3 => dhcsr.debugen
        /\ at > 4 => core = "halted"

RunInv ==
    Going("RUN") /\ at > 1 =>
        /\ core = "running" /\ ~dhcsr.debugen
        /\ at > 2 => pins = "off"

DebugInv == Going("DEBUG") /\ at > 6 => dhcsr.debugen

StateInv ==
    /\ at \in Nat
    /\ status = "true" /\ call.op = "state" => at > Len(Plan(call))
    /\ ResetProgramInv /\ ResetRunInv /\ HaltInv /\ RunInv /\ DebugInv

\* A change of the state ends where an exchange fails, or goes on.
Stays(x) == x.else \in {"false", "next"}

\* No exchange of a change of the state leads anywhere else when it fails.
LEMMA StateStays ==
    ASSUME NEW t \in States, NEW i \in 1 .. Len(SetTargetState(t))
    PROVE  Stays(SetTargetState(t)[i])
<1> DEFINE s == SetTargetState(t)
<1>0. i \in 1 .. Len(s)
  OBVIOUS
<1>1. /\ \A n, v : Stays(Put(n, v))
      /\ \A n : Stays(Get(n)) /\ Stays(Port(n))
      /\ \A v : Stays(Pins(v))
      /\ \A b, m : Stays(Poll(b, m))
      /\ Stays([Put("AIRCR", "reset") EXCEPT !.else = "next"])
      /\ Stays(Exchange("refuse", "none", "none"))
  BY DEF Stays, Put, Get, Port, Pins, Poll, Exchange
<1>2. ASSUME t \in {"RESET_HOLD", "POST_FLASH_RESET"} PROVE Stays(s[i])
  <2>1. Len(s) = 1 /\ s[1] = Pins("on")
    BY <1>2, StatePlans
  <2> HIDE DEF s
  <2>2. i = 1
    BY <1>0, <2>1
  <2> QED BY <1>1, <2>1, <2>2
<1>3. ASSUME t \in {"NO_DEBUG", "POWER_ON", "RUN"} PROVE Stays(s[i])
  <2>1. Len(s) = 2
    BY <1>3, StatePlans, ResumePlan
  <2>2. Stays(s[1]) /\ Stays(s[2])
    BY <1>1, <1>3, StatePlans, ResumePlan
  <2> HIDE DEF s
  <2>3. i = 1 \/ i = 2
    BY <1>0, <2>1
  <2> QED BY <2>2, <2>3
<1>4. ASSUME t \in {"DEBUG", "RESET_RUN"} PROVE Stays(s[i])
  <2>1. Len(s) = 6
    BY <1>4, StatePlans, ResetRunPlan DEF ResetRun
  <2>2. /\ Stays(s[1]) /\ Stays(s[2]) /\ Stays(s[3]) /\ Stays(s[4]) /\ Stays(s[5])
        /\ Stays(s[6])
    BY <1>1, <1>4, StatePlans, ResetRunPlan DEF ResetRun
  <2> HIDE DEF s
  <2>3. i = 1 \/ i = 2 \/ i = 3 \/ i = 4 \/ i = 5 \/ i = 6
    BY <1>0, <2>1
  <2> QED BY <2>2, <2>3
<1>5. ASSUME t = "HALT" PROVE Stays(s[i])
  <2>1. Len(s) = 4 /\ Stays(s[1]) /\ Stays(s[2]) /\ Stays(s[3]) /\ Stays(s[4])
    BY <1>1, <1>5, StatePlans, HaltPlan
  <2> HIDE DEF s
  <2>2. i = 1 \/ i = 2 \/ i = 3 \/ i = 4
    BY <1>0, <2>1
  <2> QED BY <2>1, <2>2
<1>6. ASSUME t = "RESET_PROGRAM" PROVE Stays(s[i])
  <2>1. /\ Len(s) = 9 /\ Stays(s[1]) /\ Stays(s[2]) /\ Stays(s[3]) /\ Stays(s[4])
        /\ Stays(s[5]) /\ Stays(s[6]) /\ Stays(s[7]) /\ Stays(s[8]) /\ Stays(s[9])
    BY <1>1, <1>6, StatePlans, ResetProgramPlan
  <2> HIDE DEF s
  <2>2. i = 1 \/ i = 2 \/ i = 3 \/ i = 4 \/ i = 5 \/ i = 6 \/ i = 7 \/ i = 8 \/ i = 9
    BY <1>0, <2>1
  <2> QED BY <2>1, <2>2
<1> QED
  BY <1>2, <1>3, <1>4, <1>5, <1>6 DEF States

LEMMA ThisStays ==
    ASSUME BaseInv, Ongoing, call.op = "state"
    PROVE  Stays(This)
<1>1. call \in Calls /\ at \in 1 .. Len(Plan(call))
  BY Here
<1>2. Plan(call) = SetTargetState(call.state) /\ call.state \in States
  BY <1>1, StatePlanned
<1> QED
  BY <1>1, <1>2, StateStays DEF This

\* A step of a call that has not failed: an exchange that takes place, a poll
\* that sees what it waits for, a change of the pins, a lost exchange that is not
\* looked at, or a step that leaves the call where it is.
Done1 == Ongoing /\ This.op \in {"put", "get", "port", "read"} /\ Effect(This) /\ Moves(This, TRUE)
         /\ at' = at + 1 /\ UNCHANGED <<pins, lost>>
Seen1 == Ongoing /\ This.op = "poll" /\ Seen(This.reg) /\ at' = at + 1
         /\ UNCHANGED <<target, pins, history>>
Pins1 == Ongoing /\ This.op = "pins" /\ pins' = This.val /\ at' = at + 1
         /\ UNCHANGED <<target, history>>
Lost1 == Ongoing /\ This.else = "next" /\ lost' /\ at' = at + 1 /\ pins' = pins
         /\ (UNCHANGED target \/ Effect(This))
Waits == at' = at /\ UNCHANGED <<target, pins, history>>
Core1 == (CoreHalts \/ FunctionEnds) /\ at' = at /\ UNCHANGED <<pins, wasReset, lost>>

\* What a step of a change of the state that has not failed can be.
LEMMA StateMoves ==
    ASSUME BaseInv, [Next]_vars, Live', \A c \in Calls : ~Begin(c)
    PROVE  /\ call' = call /\ Live
           /\ Done1 \/ Seen1 \/ Pins1 \/ Lost1 \/ Waits \/ Core1
<1>1. status' \in {"running", "true"} /\ call'.op = "state"
  BY DEF Live
<1>2. CASE Ongoing /\ Succeeds(This)
  <2>1. ~Ends("false")
    BY <1>1 DEF Ends
  <2>2. Goes /\ Effect(This) /\ Moves(This, TRUE) /\ UNCHANGED <<pins, call, lost>>
        /\ This.op \in {"put", "get", "port", "read"}
    BY <1>2, <2>1 DEF Succeeds
  <2> QED BY <1>1, <1>2, <2>2 DEF Done1, Goes, Live
<1>3. CASE Ongoing /\ Polls(This)
  <2>1. ~Ends("false")
    BY <1>1 DEF Ends
  <2>2. UNCHANGED <<target, pins, call, shown, history>> /\ This.op = "poll"
    BY <1>3 DEF Polls
  <2>3. CASE Seen(This.reg) /\ Goes
    BY <1>1, <1>3, <2>2, <2>3 DEF Seen1, Goes, Live
  <2>4. CASE UNCHANGED <<at, status, result>>
    BY <1>1, <2>2, <2>4 DEF Waits, Live
  <2> QED BY <1>3, <2>1, <2>3, <2>4 DEF Polls
<1>4. CASE Ongoing /\ Switches(This)
  BY <1>1, <1>4 DEF Switches, Pins1, Goes, Live
<1>5. CASE Ongoing /\ Refuses(This)
  BY <1>1, <1>5 DEF Refuses, Ends
<1>6. CASE Return
  BY <1>1, <1>6 DEF Return, Ends, Waits, Live
<1>7. CASE Ongoing /\ Loses(This)
  <2>1. /\ lost' = TRUE /\ UNCHANGED <<pins, call, shown>> /\ Fails(This)
        /\ UNCHANGED target \/ Effect(This)
    BY <1>7 DEF Loses
  <2>2. This.else = "next" /\ Goes
    <3>1. This.else \in {"false", "next"}
      BY <1>1, <1>7, <2>1, ThisStays DEF Stays
    <3>2. This.else # "false"
      BY <1>1, <2>1 DEF Fails, Ends
    <3> QED BY <2>1, <3>1, <3>2 DEF Fails
  <2> QED BY <1>1, <1>7, <2>1, <2>2 DEF Lost1, Goes, Live
<1>8. CASE CoreHalts \/ FunctionEnds
  <2>1. UNCHANGED <<host, wasReset, lost>>
    BY <1>8 DEF CoreHalts, FunctionEnds, history
  <2> QED BY <1>1, <1>8, <2>1 DEF host, Core1, Live
<1>9. CASE UNCHANGED vars
  BY <1>1, <1>9 DEF vars, host, Waits, Live
<1> QED
  BY <1>2, <1>3, <1>4, <1>5, <1>6, <1>7, <1>8, <1>9, Steps

\* What the exchange says of a step that goes on.
LEMMA Forward ==
    ASSUME BaseInv, Done1 \/ Seen1 \/ Pins1 \/ Lost1
    PROVE  /\ Ongoing /\ at' = at + 1
           /\ \A v : This = Pins(v) => pins' = v /\ UNCHANGED <<target, history>>
           /\ \A r, v : This = Put(r, v) =>
                Effect(Put(r, v)) /\ UNCHANGED <<pins, lost>> /\ wasReset' = (wasReset \/ r = "AIRCR")
           /\ \A r : This = Port(r) \/ (This = Get(r) /\ r # "DCRSR") =>
                UNCHANGED <<target, pins, wasReset, lost>>
           /\ \A b, m : This = Poll(b, m) => Seen(b) /\ UNCHANGED <<target, pins, history>>
           /\ This = [Put("AIRCR", "reset") EXCEPT !.else = "next"] =>
                pins' = pins /\ (UNCHANGED target \/ SystemReset) /\ (wasReset' \/ lost')
<1>1. Ongoing /\ at' = at + 1
  BY DEF Done1, Seen1, Pins1, Lost1
<1>2. HistoryTypes
  BY DEF BaseInv
<1>3. ASSUME NEW v, This = Pins(v)
      PROVE  pins' = v /\ UNCHANGED <<target, history>>
  <2>1. This.op = "pins" /\ This.val = v /\ This.else = "false"
    BY <1>3, Kinds
  <2>2. Pins1
    BY <2>1 DEF Done1, Seen1, Lost1
  <2> QED BY <2>1, <2>2 DEF Pins1
<1>4. ASSUME NEW r, NEW v, This = Put(r, v)
      PROVE  Effect(Put(r, v)) /\ UNCHANGED <<pins, lost>> /\ wasReset' = (wasReset \/ r = "AIRCR")
  <2>1. Done1 /\ This.op = "put" /\ This.reg = r
    BY <1>4, Kinds DEF Seen1, Pins1, Lost1
  <2>2. wasReset' = (wasReset \/ (This.reg = "AIRCR" /\ This.op = "put"))
    BY <2>1 DEF Done1, Moves
  <2> QED BY <1>2, <1>4, <2>1, <2>2 DEF Done1
<1>5. ASSUME NEW r, This = Port(r) \/ (This = Get(r) /\ r # "DCRSR")
      PROVE  UNCHANGED <<target, pins, wasReset, lost>>
  <2>1. Done1 /\ This.op \in {"port", "get"}
    BY <1>5, Kinds DEF Seen1, Pins1, Lost1
  <2>2. This.op = "get" => This.reg # "DCRSR"
    BY <1>5, Kinds
  <2>3. UNCHANGED target
    BY <2>1, <2>2, EffectKinds DEF Done1
  <2>4. wasReset' = (wasReset \/ (This.reg = "AIRCR" /\ This.op = "put"))
    BY <2>1 DEF Done1, Moves
  <2> QED BY <1>2, <2>1, <2>3, <2>4 DEF Done1, HistoryTypes
<1>6. ASSUME NEW b, NEW m, This = Poll(b, m)
      PROVE  Seen(b) /\ UNCHANGED <<target, pins, history>>
  <2>1. This.op = "poll" /\ This.reg = b /\ This.else = "false"
    BY <1>6, Kinds
  <2>2. Seen1
    BY <2>1 DEF Done1, Pins1, Lost1
  <2> QED BY <2>1, <2>2 DEF Seen1
<1>7. ASSUME This = [Put("AIRCR", "reset") EXCEPT !.else = "next"]
      PROVE  pins' = pins /\ (UNCHANGED target \/ SystemReset) /\ (wasReset' \/ lost')
  <2>1. This.op = "put" /\ This.reg = "AIRCR"
    BY <1>7 DEF Put, Exchange
  <2>2. Effect(This) => SystemReset
    BY <1>7, EffectOf
  <2>3. Done1 => wasReset'
    BY <2>1 DEF Done1, Moves
  <2> QED BY <2>1, <2>2, <2>3 DEF Done1, Seen1, Pins1, Lost1
<1> QED
  BY <1>1, <1>3, <1>4, <1>5, <1>6, <1>7

\* The place of a change of the state.
LEMMA StateAt ==
    ASSUME BaseInv, Ongoing, NEW t, Going(t)
    PROVE  /\ at \in 1 .. Len(SetTargetState(t)) /\ This = SetTargetState(t)[at]
           /\ CoreTypes /\ HistoryTypes
<1>1. call \in Calls /\ call.op = "state" /\ call.state = t /\ at \in 1 .. Len(Plan(call))
  BY Here DEF Going, Live
<1> QED
  BY <1>1, StatePlanned DEF This, BaseInv

\* A step by which a change of the state goes on begins or continues it.
LEMMA GoingStep ==
    ASSUME BaseInv, StateInv, [Next]_vars, NEW t, Going(t)'
    PROVE  \/ at' = 1
           \/ Going(t) /\ (Done1 \/ Seen1 \/ Pins1 \/ Lost1)
           \/ Going(t) /\ Waits
           \/ Going(t) /\ Core1
<1>1. CASE \E c \in Calls : Begin(c)
  BY <1>1 DEF Begin
<1>2. CASE \A c \in Calls : ~Begin(c)
  BY <1>2, StateMoves DEF Going
<1> QED
  BY <1>1, <1>2

\* One lemma for each state asked for: every step keeps how far it has got.
LEMMA ResetProgramStep ==
    ASSUME BaseInv, StateInv, [Next]_vars
    PROVE  ResetProgramInv'
<1> DEFINE t == "RESET_PROGRAM"
<1>1. SUFFICES ASSUME Going(t)' PROVE ResetProgramInv'
  BY DEF ResetProgramInv
<1>2. CASE at' = 1
  BY <1>2 DEF ResetProgramInv
<1>3. CASE Going(t) /\ Waits
  BY <1>3 DEF StateInv, ResetProgramInv, Waits, target, history
<1>4. CASE Going(t) /\ Core1
  BY <1>4 DEF StateInv, ResetProgramInv, Core1, CoreHalts, FunctionEnds
<1>5. CASE Going(t) /\ (Done1 \/ Seen1 \/ Pins1 \/ Lost1)
  <2>1. /\ at \in 1 .. 9 /\ at' = at + 1 /\ CoreTypes /\ HistoryTypes
        /\ This = ResetProgram[at]
    BY <1>5, Forward, StateAt, StatePlans, ResetProgramPlan
  <2>2. ResetProgramInv
    BY DEF StateInv
  <2>3. CASE at = 1
    <3>1. pins' = "on" /\ at' = 2
      BY <1>5, <2>1, <2>3, Forward, ResetProgramPlan
    <3> QED BY <3>1 DEF ResetProgramInv
  <2>4. CASE at = 2
    <3>1. pins' = pins /\ at' = 3 /\ pins = "on"
      BY <1>5, <2>1, <2>2, <2>4, Forward, ResetProgramPlan DEF ResetProgramInv
    <3> QED BY <3>1 DEF ResetProgramInv
  <2>5. CASE at = 3
    <3>1. SetDhcsr({"debugen", "halt"}) /\ pins' = pins /\ at' = 4 /\ pins = "on"
      BY <1>5, <2>1, <2>2, <2>5, Forward, ResetProgramPlan, EffectOf DEF ResetProgramInv
    <3>2. dhcsr'.debugen
      BY <2>1, <3>1, DhcsrSet
    <3> QED BY <3>1, <3>2 DEF ResetProgramInv
  <2>6. CASE at = 4
    <3>1. Seen("HALT") /\ UNCHANGED <<target, pins>> /\ at' = 5 /\ pins = "on" /\ dhcsr.debugen
      BY <1>5, <2>1, <2>2, <2>6, Forward, ResetProgramPlan DEF ResetProgramInv
    <3> QED BY <3>1 DEF ResetProgramInv, Seen, target
  <2>7. CASE at = 5
    <3>1. /\ dhcsr' = [dhcsr EXCEPT !.catch = ("catch" = "catch")] /\ UNCHANGED <<core, pins>>
          /\ at' = 6 /\ pins = "on" /\ dhcsr.debugen /\ core = "halted"
      BY <1>5, <2>1, <2>2, <2>7, Forward, ResetProgramPlan, EffectOf DEF ResetProgramInv
    <3>2. dhcsr'.debugen
      BY <2>1, <3>1 DEF CoreTypes
    <3> QED BY <3>1, <3>2 DEF ResetProgramInv
  <2>8. CASE at = 6
    <3>1. UNCHANGED <<target, pins>> /\ at' = 7 /\ pins = "on" /\ dhcsr.debugen /\ core = "halted"
      BY <1>5, <2>1, <2>2, <2>8, Forward, ResetProgramPlan DEF ResetProgramInv
    <3> QED BY <3>1 DEF ResetProgramInv, target
  <2>9. CASE at = 7
    <3>1. /\ pins' = pins /\ (UNCHANGED target \/ SystemReset) /\ (wasReset' \/ lost')
          /\ at' = 8 /\ pins = "on" /\ dhcsr.debugen
      BY <1>5, <2>1, <2>2, <2>9, Forward, ResetProgramPlan DEF ResetProgramInv
    <3>2. dhcsr'.debugen
      BY <2>1, <3>1 DEF CoreTypes, SystemReset, target
    <3> QED BY <3>1, <3>2 DEF ResetProgramInv
  <2>10. CASE at = 8
    <3>1. /\ Seen("HALT") /\ UNCHANGED <<target, pins, history>> /\ at' = 9 /\ pins = "on"
          /\ dhcsr.debugen /\ (wasReset \/ lost)
      BY <1>5, <2>1, <2>2, <2>10, Forward, ResetProgramPlan DEF ResetProgramInv
    <3> QED BY <3>1 DEF ResetProgramInv, Seen, target, history
  <2>11. CASE at = 9
    <3>1. /\ dhcsr' = [dhcsr EXCEPT !.catch = ("none" = "catch")] /\ UNCHANGED <<core, pins, lost>>
          /\ at' = 10 /\ pins = "on" /\ dhcsr.debugen /\ core = "halted" /\ (wasReset \/ lost)
          /\ wasReset' = (wasReset \/ "EMCR" = "AIRCR")
      BY <1>5, <2>1, <2>2, <2>11, Forward, ResetProgramPlan, EffectOf DEF ResetProgramInv
    <3>2. dhcsr'.debugen /\ ~dhcsr'.catch
      BY <2>1, <3>1 DEF CoreTypes
    <3>3. wasReset' \/ lost'
      BY <2>1, <3>1 DEF HistoryTypes
    <3> QED BY <3>1, <3>2, <3>3 DEF ResetProgramInv
  <2> QED BY <2>1, <2>3, <2>4, <2>5, <2>6, <2>7, <2>8, <2>9, <2>10, <2>11
<1> QED
  BY <1>1, <1>2, <1>3, <1>4, <1>5, GoingStep

LEMMA ResetRunStep ==
    ASSUME BaseInv, StateInv, [Next]_vars
    PROVE  ResetRunInv'
<1> DEFINE t == "RESET_RUN"
<1>1. SUFFICES ASSUME Going(t)' PROVE ResetRunInv'
  BY DEF ResetRunInv
<1>2. CASE at' = 1
  BY <1>2 DEF ResetRunInv
<1>3. CASE Going(t) /\ Waits
  BY <1>3 DEF StateInv, ResetRunInv, Waits, target, history
<1>4. CASE Going(t) /\ Core1
  BY <1>4 DEF StateInv, ResetRunInv, Core1, CoreHalts, FunctionEnds
<1>5. CASE Going(t) /\ (Done1 \/ Seen1 \/ Pins1 \/ Lost1)
  <2>1. /\ at \in 1 .. 6 /\ at' = at + 1 /\ CoreTypes /\ HistoryTypes
        /\ This = ResetRun[at]
    BY <1>5, Forward, StateAt, ResetRunPlan DEF ResetRun
  <2>2. ResetRunInv
    BY DEF StateInv
  <2>3. CASE at < 5
    <3>1. at' <= 5
      BY <2>1, <2>3
    <3> QED BY <2>1, <3>1 DEF ResetRunInv
  <2>4. CASE at = 5
    <3>1. SystemReset /\ wasReset' = (wasReset \/ "AIRCR" = "AIRCR") /\ at' = 6
      BY <1>5, <2>1, <2>4, Forward, ResetRunPlan, EffectOf
    <3>2. ~dhcsr'.halt /\ doing' = "firmware" /\ dhcsr'.catch = dhcsr.catch
      BY <2>1, <3>1 DEF SystemReset, CoreTypes
    <3>3. core' = "running" \/ dhcsr'.catch
      BY <3>1, <3>2 DEF SystemReset
    <3>4. wasReset'
      BY <3>1, Zenon
    <3>5. ~(at' > 6)
      BY <3>1
    <3> QED BY <3>2, <3>3, <3>4, <3>5 DEF ResetRunInv
  <2>5. CASE at = 6
    <3>1. pins' = "off" /\ UNCHANGED <<target, history>> /\ at' = 7
      BY <1>5, <2>1, <2>5, Forward, ResetRunPlan
    <3> QED BY <1>5, <2>2, <2>5, <3>1 DEF ResetRunInv, target, history
  <2> QED BY <2>1, <2>3, <2>4, <2>5
<1> QED
  BY <1>1, <1>2, <1>3, <1>4, <1>5, GoingStep

LEMMA HaltStep ==
    ASSUME BaseInv, StateInv, [Next]_vars
    PROVE  HaltInv'
<1> DEFINE t == "HALT"
<1>1. SUFFICES ASSUME Going(t)' PROVE HaltInv'
  BY DEF HaltInv
<1>2. CASE at' = 1
  BY <1>2 DEF HaltInv
<1>3. CASE Going(t) /\ Waits
  BY <1>3 DEF StateInv, HaltInv, Waits, target
<1>4. CASE Going(t) /\ Core1
  BY <1>4 DEF StateInv, HaltInv, Core1, CoreHalts, FunctionEnds
<1>5. CASE Going(t) /\ (Done1 \/ Seen1 \/ Pins1 \/ Lost1)
  <2>1. at \in 1 .. 4 /\ at' = at + 1 /\ CoreTypes /\ This = Halt[at]
    BY <1>5, Forward, StateAt, StatePlans, HaltPlan
  <2>2. HaltInv
    BY DEF StateInv
  <2>3. CASE at < 3
    <3>1. at' <= 3
      BY <2>1, <2>3
    <3> QED BY <2>1, <3>1 DEF HaltInv
  <2>4. CASE at = 3
    <3>1. SetDhcsr({"debugen", "halt"}) /\ at' = 4
      BY <1>5, <2>1, <2>4, Forward, HaltPlan, EffectOf
    <3>2. dhcsr'.debugen
      BY <2>1, <3>1, DhcsrSet
    <3> QED BY <3>1, <3>2 DEF HaltInv
  <2>5. CASE at = 4
    <3>1. Seen("HALT") /\ UNCHANGED target /\ at' = 5
      BY <1>5, <2>1, <2>5, Forward, HaltPlan
    <3> QED BY <1>5, <2>2, <2>5, <3>1 DEF HaltInv, Seen, target
  <2> QED BY <2>1, <2>3, <2>4, <2>5
<1> QED
  BY <1>1, <1>2, <1>3, <1>4, <1>5, GoingStep

LEMMA RunStep ==
    ASSUME BaseInv, StateInv, [Next]_vars
    PROVE  RunInv'
<1> DEFINE t == "RUN"
<1>1. SUFFICES ASSUME Going(t)' PROVE RunInv'
  BY DEF RunInv
<1>2. CASE at' = 1
  BY <1>2 DEF RunInv
<1>3. CASE Going(t) /\ Waits
  BY <1>3 DEF StateInv, RunInv, Waits, target
<1>4. CASE Going(t) /\ Core1
  BY <1>4 DEF StateInv, RunInv, Core1, CoreHalts, FunctionEnds
<1>5. CASE Going(t) /\ (Done1 \/ Seen1 \/ Pins1 \/ Lost1)
  <2>1. at \in 1 .. 2 /\ at' = at + 1 /\ CoreTypes /\ This = Run[at]
    BY <1>5, Forward, StateAt, StatePlans, ResumePlan
  <2>2. RunInv
    BY DEF StateInv
  <2>3. CASE at = 1
    <3>1. SetDhcsr({}) /\ at' = 2
      BY <1>5, <2>1, <2>3, Forward, ResumePlan, EffectOf
    <3>2. ~dhcsr'.debugen
      BY <2>1, <3>1, DhcsrSet
    <3>3. core' = "running"
      BY <2>1, <3>1 DEF SetDhcsr, CoreTypes
    <3> QED BY <3>1, <3>2, <3>3 DEF RunInv
  <2>4. CASE at = 2
    <3>1. pins' = "off" /\ UNCHANGED target /\ at' = 3
      BY <1>5, <2>1, <2>4, Forward, ResumePlan
    <3> QED BY <1>5, <2>2, <2>4, <3>1 DEF RunInv, target
  <2> QED BY <2>1, <2>3, <2>4
<1> QED
  BY <1>1, <1>2, <1>3, <1>4, <1>5, GoingStep

LEMMA DebugStep ==
    ASSUME BaseInv, StateInv, [Next]_vars
    PROVE  DebugInv'
<1> DEFINE t == "DEBUG"
<1>1. SUFFICES ASSUME Going(t)' PROVE DebugInv'
  BY DEF DebugInv
<1>2. CASE at' = 1
  BY <1>2 DEF DebugInv
<1>3. CASE Going(t) /\ Waits
  BY <1>3 DEF StateInv, DebugInv, Waits, target
<1>4. CASE Going(t) /\ Core1
  BY <1>4 DEF StateInv, DebugInv, Core1, CoreHalts, FunctionEnds
<1>5. CASE Going(t) /\ (Done1 \/ Seen1 \/ Pins1 \/ Lost1)
  <2>1. at \in 1 .. 6 /\ at' = at + 1 /\ CoreTypes /\ This = SetTargetState(t)[at]
    BY <1>5, Forward, StateAt, StatePlans
  <2>2. CASE at < 6
    <3>1. at' <= 6
      BY <2>1, <2>2
    <3> QED BY <2>1, <3>1 DEF DebugInv
  <2>3. CASE at = 6
    <3>1. SetDhcsr({"debugen"})
      BY <1>5, <2>1, <2>3, Forward, StatePlans, EffectOf
    <3>2. dhcsr'.debugen
      BY <2>1, <3>1, DhcsrSet
    <3> QED BY <3>2 DEF DebugInv
  <2> QED BY <2>1, <2>2, <2>3
<1> QED
  BY <1>1, <1>2, <1>3, <1>4, <1>5, GoingStep

LEMMA StateStep ==
    ASSUME BaseInv, StateInv, [Next]_vars
    PROVE  StateInv'
<1>1. at' \in Nat
  <2>1. BaseInv' /\ at \in Nat
    BY BaseStep DEF StateInv
  <2>2. CASE status' = "running"
    BY <2>1, <2>2 DEF BaseInv, HostTypes
  <2>3. CASE status' # "running"
    <3>1. at' = at
      <4>1. CASE Ongoing /\ (Goes \/ Ends("false") \/ Fails(This))
        BY <2>3, <4>1, FailsTo DEF Ongoing, Goes, GoesOn, Ends
      <4>2. CASE ~(Ongoing /\ (Goes \/ Ends("false") \/ Fails(This)))
        BY <2>3, <4>2, Steps DEF Begin, Succeeds, Polls, Switches, Refuses, Return, Loses,
           CoreHalts, FunctionEnds, Ends, host, vars
      <4> QED BY <4>1, <4>2
    <3> QED BY <2>1, <3>1
  <2> QED BY <2>2, <2>3
<1>2. status' = "true" /\ call'.op = "state" => at' > Len(Plan(call'))
  <2>1. SUFFICES ASSUME status' = "true", call'.op = "state" PROVE at' > Len(Plan(call'))
    OBVIOUS
  <2>2. \A c \in Calls : ~Begin(c)
    BY <2>1 DEF Begin
  <2>3. call' = call /\ Live /\ (Done1 \/ Seen1 \/ Pins1 \/ Lost1 \/ Waits \/ Core1)
    BY <2>1, <2>2, StateMoves DEF Live
  <2>4. CASE status = "true"
    <3>1. at > Len(Plan(call)) /\ ~Ongoing
      BY <2>3, <2>4 DEF StateInv, Live, Ongoing
    <3>2. at' = at
      BY <2>3, <3>1 DEF Done1, Seen1, Pins1, Lost1, Waits, Core1
    <3> QED BY <2>3, <3>1, <3>2
  <2>5. CASE status = "running"
    <3>1. Return
      <4>1. Ongoing /\ Fails(This) => status' # "true"
        BY <2>3, <2>5, ThisStays DEF Stays, Fails, Ends, Goes, Live
      <4> QED BY <2>1, <2>2, <2>5, <4>1, Steps DEF Succeeds, Polls, Switches, Refuses, Loses,
                 CoreHalts, FunctionEnds, Goes, Ends, host, vars
    <3> QED BY <2>3, <3>1 DEF Return, Ends
  <2> QED BY <2>3, <2>4, <2>5 DEF Live
<1> QED
  BY <1>1, <1>2, ResetProgramStep, ResetRunStep, HaltStep, RunStep, DebugStep DEF StateInv

\* What a call of set_target_state has reached when it returns true.
LEMMA StateEnd == BaseInv /\ StateInv => StateReached
<1> SUFFICES ASSUME BaseInv, StateInv PROVE StateReached
  OBVIOUS
<1>1. /\ Done("RESET_PROGRAM") => at > 9
      /\ Done("RESET_RUN") => at > 6
      /\ Done("HALT") => at > 4
      /\ Done("RUN") => at > 2
      /\ Done("DEBUG") => at > 6
  <2>1. ASSUME NEW t, Done(t) PROVE at > Len(SetTargetState(t))
    <3>1. call \in Calls /\ call.op = "state" /\ call.state = t /\ status = "true"
      BY <2>1 DEF Done, Returned, BaseInv, HostTypes
    <3> QED BY <3>1, StatePlanned DEF StateInv
  <2>2. /\ Len(SetTargetState("RESET_PROGRAM")) = 9 /\ Len(SetTargetState("HALT")) = 4
        /\ Len(SetTargetState("RUN")) = 2 /\ Len(SetTargetState("DEBUG")) = 6
    BY StatePlans, ResetProgramPlan, HaltPlan, ResumePlan
  <2>3. Len(SetTargetState("RESET_RUN")) = 6
    BY ResetRunPlan DEF ResetRun
  <2>4. Done("RESET_PROGRAM") => at > 9
    BY <2>1, <2>2
  <2>5. Done("RESET_RUN") => at > 6
    BY <2>1, <2>3
  <2>6. Done("HALT") => at > 4
    BY <2>1, <2>2
  <2>7. Done("RUN") => at > 2
    BY <2>1, <2>2
  <2>8. Done("DEBUG") => at > 6
    BY <2>1, <2>2
  <2> QED BY <2>4, <2>5, <2>6, <2>7, <2>8
<1>2. \A t : Done(t) => Going(t)
  BY DEF Done, Returned, Going, Live
<1>3. at \in Nat
  BY DEF StateInv
<1> QED
  BY <1>1, <1>2, <1>3 DEF StateReached, StateInv, ResetProgramInv, ResetRunInv, HaltInv, RunInv, DebugInv

-----------------------------------------------------------------------------
(***************************************************************************)
(* The read command.                                                       *)
(***************************************************************************)
Reading == call.op = "read" /\ status = "running"

\* What a read has printed so far, by the pieces it has done, and what it has
\* done to the core at its end.
ReadInv ==
    /\ Reading /\ result = "true" =>
         /\ ~lost
         /\ at <= 5 => shown = {}
         /\ at > 5 /\ at <= Count(call.range) + 5 => shown = Printed(call.range, at - 5)
         /\ at > Count(call.range) + 5 => shown = Printed(call.range, Count(call.range))
    /\ Reading /\ at > Count(call.range) + 5 =>
         /\ core = "running" /\ ~dhcsr.debugen
         /\ at > Count(call.range) + 6 => pins = "off"
    /\ ReadShowsRange

\* The exchange that a read is at, by its place.
LEMMA ReadsAt ==
    ASSUME BaseInv, Reading
    PROVE  /\ call.range \in (0 .. Space - 1) \X (0 .. Space - 1)
           /\ Count(call.range) \in Nat /\ at \in 1 .. Count(call.range) + 7
           /\ at <= Count(call.range) + 6 <=> Ongoing
           /\ Len(Plan(call)) = Count(call.range) + 6
           /\ at = 1 => This = Pins("on")
           /\ at = 2 => This = Port("init_debug")
           /\ at = 3 => This = Put("DHCSR", {"debugen", "halt"})
           /\ at = 4 => This = Poll("HALT", NoLimit)
           /\ \A k \in 1 .. Count(call.range) : at = 4 + k => IsPiece(call.range, k, This)
           /\ at = Count(call.range) + 5 => This = [Put("DHCSR", {}) EXCEPT !.else = "end"]
           /\ at = Count(call.range) + 6 => This = [Pins("off") EXCEPT !.else = "end"]
<1> DEFINE r == call.range
           m == Count(r)
<1>1. call \in Calls /\ call.op = "read" /\ at \in 1 .. Len(Plan(call)) + 1 /\ status = "running"
  BY DEF BaseInv, HostTypes, Reading
<1>2. Plan(call) = ReadCommand(r) /\ r \in (0 .. Space - 1) \X (0 .. Space - 1)
  BY <1>1, ReadPlanned
<1>3. IsSeq(Pieces(r[1], r[2])) /\ m \in Nat /\ \A k \in 1 .. m : IsPiece(r, k, Pieces(r[1], r[2])[k])
  BY <1>2, PiecesShow
<1>4. /\ Len(ReadCommand(r)) = m + 6
      /\ \A i \in 1 .. 4 : ReadCommand(r)[i] = Halt[i]
      /\ \A i \in 1 .. m : ReadCommand(r)[4 + i] = Pieces(r[1], r[2])[i]
      /\ ReadCommand(r)[m + 5] = Resume[1] /\ ReadCommand(r)[m + 6] = Resume[2]
  BY <1>3, ReadPlan
<1> HIDE DEF r, m
<1>5. /\ m \in Nat /\ at \in 1 .. m + 7 /\ (at <= m + 6 <=> Ongoing) /\ Len(Plan(call)) = m + 6
      /\ This = ReadCommand(r)[at]
  BY <1>1, <1>2, <1>3, <1>4 DEF Ongoing, This
<1>6. /\ at = 1 => This = Pins("on")
      /\ at = 2 => This = Port("init_debug")
      /\ at = 3 => This = Put("DHCSR", {"debugen", "halt"})
      /\ at = 4 => This = Poll("HALT", NoLimit)
  BY <1>4, <1>5, HaltPlan
<1>7. \A k \in 1 .. m : at = 4 + k => IsPiece(r, k, This)
  BY <1>3, <1>4, <1>5
<1>8. /\ at = m + 5 => This = [Put("DHCSR", {}) EXCEPT !.else = "end"]
      /\ at = m + 6 => This = [Pins("off") EXCEPT !.else = "end"]
  BY <1>4, <1>5, ResumePlan
<1> QED
  BY <1>2, <1>5, <1>6, <1>7, <1>8 DEF r, m

\* The last exchanges of the read command, whose failure ends it.
LEMMA LastKinds ==
    /\ LET x == [Put("DHCSR", {}) EXCEPT !.else = "end"] IN
         /\ x.op = "put" /\ x.reg = "DHCSR" /\ x.val = {} /\ x.else = "end"
         /\ Effect(x) => SetDhcsr({})
    /\ LET x == [Pins("off") EXCEPT !.else = "end"] IN
         x.op = "pins" /\ x.reg = "none" /\ x.val = "off" /\ x.else = "end"
<1>1. LET x == [Put("DHCSR", {}) EXCEPT !.else = "end"] IN
        x.op = "put" /\ x.reg = "DHCSR" /\ x.val = {} /\ x.else = "end"
  BY DEF Put, Exchange
<1>2. LET x == [Put("DHCSR", {}) EXCEPT !.else = "end"] IN Effect(x) => SetDhcsr({})
  BY <1>1, EffectKinds
<1>3. LET x == [Pins("off") EXCEPT !.else = "end"] IN
        x.op = "pins" /\ x.reg = "none" /\ x.val = "off" /\ x.else = "end"
  BY DEF Pins, Exchange
<1> QED
  BY <1>1, <1>2, <1>3

\* A read goes on from one place to the next.
LEMMA ReadGoes ==
    ASSUME BaseInv, ReadInv, Reading, Ongoing, Goes, call' = call, lost' = lost,
           This.op = "read" => shown' = shown \cup This.val,
           This.op # "read" => shown' = shown,
           at = Count(call.range) + 5 => core' = "running" /\ ~dhcsr'.debugen,
           at = Count(call.range) + 6 => UNCHANGED <<core, dhcsr>> /\ pins' = "off"
    PROVE  ReadInv'
<1> DEFINE r == call.range
           m == Count(r)
<1>1. /\ m \in Nat /\ at \in Nat /\ at \in 1 .. m + 6 /\ r \in (0 .. Space - 1) \X (0 .. Space - 1)
      /\ at' = at + 1 /\ status' = "running" /\ result' = result /\ Count(call'.range) = m
  BY ReadsAt DEF Goes, Reading
<1> HIDE DEF m
<1>2. ReadShowsRange'
  BY <1>1 DEF ReadShowsRange, Returned
<1>3. at' > m + 5 => core' = "running" /\ ~dhcsr'.debugen
  <2>1. CASE at = m + 5
    BY <2>1 DEF m
  <2>2. CASE at = m + 6
    <3>1. core = "running" /\ ~dhcsr.debugen
      BY <1>1, <2>2 DEF ReadInv, m
    <3> QED BY <2>2, <3>1 DEF m
  <2> QED BY <1>1, <2>1, <2>2
<1>4. at' > m + 6 => pins' = "off"
  BY <1>1 DEF m
<1>5. ASSUME result = "true"
      PROVE  /\ at' <= 5 => shown' = {}
             /\ at' > 5 /\ at' <= m + 5 => shown' = Printed(r, at' - 5)
             /\ at' > m + 5 => shown' = Printed(r, m)
  <2>1. /\ at <= 5 => shown = {}
        /\ at > 5 /\ at <= m + 5 => shown = Printed(r, at - 5)
        /\ at > m + 5 => shown = Printed(r, m)
    BY <1>5 DEF ReadInv, m
  <2>2. CASE at < 5
    <3>1. at = 1 \/ at = 2 \/ at = 3 \/ at = 4
      BY <1>1, <2>2
    <3>2. This.op # "read"
      BY <3>1, ReadsAt, Kinds
    <3>3. shown' = {} /\ at' <= 5
      BY <1>1, <2>1, <2>2, <3>2
    <3>4. Printed(r, 0) = {}
      BY <1>1, PiecesShow
    <3> QED BY <1>1, <3>1, <3>3, <3>4
  <2>3. CASE at >= 5 /\ at < m + 5
    <3> DEFINE k == at - 4
    <3>1. k \in 1 .. m /\ at = 4 + k /\ k - 1 = at - 5 /\ at' - 5 = k
      BY <1>1, <2>3
    <3>2. IsPiece(r, k, This)
      BY <3>1, ReadsAt DEF m
    <3>3. shown = Printed(r, k - 1)
      <4>1. Printed(r, 0) = {}
        BY <1>1, PiecesShow
      <4>2. at <= 5 => at - 5 = 0
        BY <1>1, <2>3
      <4>3. at > 5 => at <= m + 5
        BY <1>1, <2>3
      <4>4. shown = Printed(r, at - 5)
        <5>1. CASE at <= 5
          <6>1. shown = {} /\ at - 5 = 0
            BY <2>1, <4>2, <5>1
          <6> QED BY <4>1, <6>1
        <5>2. CASE at > 5
          BY <2>1, <4>3, <5>2
        <5> QED BY <1>1, <5>1, <5>2
      <4> HIDE DEF k
      <4> QED BY <3>1, <4>4
    <3>4. shown' = Printed(r, k)
      BY <3>2, <3>3 DEF IsPiece
    <3> QED BY <1>1, <2>3, <3>1, <3>4
  <2>4. CASE at = m + 5 \/ at = m + 6
    <3>1. This.op # "read"
      BY <2>4, ReadsAt, LastKinds DEF m
    <3>2. shown = Printed(r, m)
      <4>1. Printed(r, 0) = {}
        BY <1>1, PiecesShow
      <4>2. CASE at > m + 5
        BY <2>1, <4>2
      <4>3. CASE at <= m + 5 /\ at > 5
        <5>1. at - 5 = m
          BY <1>1, <2>4, <4>3
        <5>2. shown = Printed(r, at - 5)
          BY <2>1, <4>3
        <5> QED BY <5>1, <5>2
      <4>4. CASE at <= 5 /\ at <= m + 5
        <5>1. m = 0
          BY <1>1, <2>4, <4>4
        <5>2. shown = {}
          BY <2>1, <4>4
        <5> QED BY <4>1, <5>1, <5>2
      <4> QED BY <1>1, <4>2, <4>3, <4>4
    <3>3. shown' = Printed(r, m)
      BY <3>1, <3>2
    <3> QED BY <1>1, <2>4, <3>3
  <2> QED BY <1>1, <2>2, <2>3, <2>4
<1>6. result = "true" => ~lost
  BY DEF ReadInv
<1> QED
  BY <1>1, <1>2, <1>3, <1>4, <1>5, <1>6 DEF ReadInv, Reading, m

\* What follows when an exchange of the read command fails.
LEMMA ReadElse ==
    ASSUME BaseInv, Reading, Ongoing
    PROVE  /\ at <= 4 => This.else = "false"
           /\ at > 4 /\ at <= Count(call.range) + 4 => This.else = "run"
           /\ at > Count(call.range) + 4 => This.else \in {"false", "end"}
           /\ This.else \in {"false", "run", "end"}
           /\ This.else = "end" => at >= Count(call.range) + 5
<1> DEFINE m == Count(call.range)
<1>1. m \in Nat /\ at \in 1 .. m + 6
  BY ReadsAt
<1> HIDE DEF m
<1>2. ASSUME at <= 4 PROVE This.else = "false"
  <2>1. at = 1 \/ at = 2 \/ at = 3 \/ at = 4
    BY <1>1, <1>2
  <2> QED BY <2>1, ReadsAt, Kinds
<1>3. ASSUME at > 4, at <= m + 4 PROVE This.else = "run"
  <2> DEFINE k == at - 4
  <2>1. k \in 1 .. m /\ at = 4 + k
    BY <1>1, <1>3
  <2>2. IsPiece(call.range, k, This)
    BY <2>1, ReadsAt DEF m
  <2> QED BY <2>2 DEF IsPiece
<1>4. ASSUME at > 4, at > m + 4 PROVE This.else = "end" /\ at >= m + 5
  <2>1. at = m + 5 \/ at = m + 6
    BY <1>1, <1>4
  <2>2. This.else = "end"
    BY <2>1, ReadsAt, LastKinds DEF m
  <2> QED BY <1>1, <1>4, <2>2
<1> QED
  BY <1>1, <1>2, <1>3, <1>4 DEF m

\* A read that is past its pieces, none of which has failed, has printed its range.
LEMMA ReadPrinted ==
    ASSUME BaseInv, ReadInv, Reading, result = "true", at >= Count(call.range) + 5
    PROVE  shown = LET a == call.range[1] n == call.range[2] IN
                     IF a + n < Space THEN a .. (a + n) - 1 ELSE {}
<1> DEFINE r == call.range
           m == Count(r)
<1>1. m \in Nat /\ at \in Nat /\ at >= m + 5 /\ r \in (0 .. Space - 1) \X (0 .. Space - 1)
  BY ReadsAt
<1>2. /\ at <= 5 => shown = {}
      /\ at > 5 /\ at <= m + 5 => shown = Printed(r, at - 5)
      /\ at > m + 5 => shown = Printed(r, m)
  BY DEF ReadInv
<1>3. /\ Printed(r, 0) = {}
      /\ Printed(r, m) = IF r[1] + r[2] < Space THEN r[1] .. (r[1] + r[2]) - 1 ELSE {}
  BY <1>1, PiecesShow
<1> HIDE DEF r, m
<1>4. shown = Printed(r, m)
  <2>1. CASE at > m + 5
    BY <1>2, <2>1
  <2>2. CASE at = m + 5 /\ at > 5
    <3>1. at - 5 = m /\ at <= m + 5
      BY <1>1, <2>2
    <3>2. shown = Printed(r, at - 5)
      BY <1>2, <2>2, <3>1
    <3> QED BY <3>1, <3>2
  <2>3. CASE at = m + 5 /\ at <= 5
    <3>1. m = 0
      BY <1>1, <2>3
    <3> QED BY <1>2, <1>3, <2>3, <3>1
  <2> QED BY <1>1, <2>1, <2>2, <2>3
<1> QED
  BY <1>3, <1>4 DEF r

\* The steps of a read in progress.
LEMMA ReadMoves ==
    ASSUME BaseInv, ReadInv, Reading, [Next]_vars
    PROVE  ReadInv'
<1> DEFINE m == Count(call.range)
<1>1. m \in Nat /\ at \in 1 .. m + 7 /\ Len(Plan(call)) = m + 6
  BY ReadsAt
<1>2. ASSUME call' = call, status' = "false" PROVE ReadInv'
  BY <1>2 DEF ReadInv, Reading, ReadShowsRange, Returned
<1>3. CASE Ongoing /\ Succeeds(This)
  <2>1. /\ This.op \in {"put", "get", "port", "read"} /\ Effect(This) /\ call' = call /\ lost' = lost
        /\ IF Wrong(This) THEN Ends("false") ELSE Goes
        /\ shown' = IF This.op = "read" THEN shown \cup This.val ELSE shown
    BY <1>3 DEF Succeeds
  <2>2. CASE Wrong(This)
    BY <1>2, <2>1, <2>2 DEF Ends
  <2>3. CASE ~Wrong(This)
    <3>1. at = m + 5 => core' = "running" /\ ~dhcsr'.debugen
      <4>1. SUFFICES ASSUME at = m + 5 PROVE core' = "running" /\ ~dhcsr'.debugen
        OBVIOUS
      <4>2. SetDhcsr({}) /\ CoreTypes
        BY <2>1, <4>1, ReadsAt, LastKinds DEF BaseInv
      <4>3. ~dhcsr'.debugen
        BY <4>2, DhcsrSet
      <4> QED BY <4>2, <4>3 DEF SetDhcsr, CoreTypes
    <3>2. at # m + 6
      BY <2>1, ReadsAt, LastKinds
    <3> HIDE DEF m
    <3> QED BY <1>3, <2>1, <2>3, <3>1, <3>2, ReadGoes DEF m
  <2> QED BY <2>2, <2>3
<1>4. CASE Ongoing /\ Polls(This)
  <2>1. UNCHANGED <<target, pins, call, shown, history>> /\ This.op = "poll"
    BY <1>4 DEF Polls
  <2>2. CASE Goes
    <3>1. at # m + 5 /\ at # m + 6
      BY <2>1, ReadsAt, LastKinds
    <3>2. lost' = lost
      BY <2>1 DEF history
    <3> HIDE DEF m
    <3> QED BY <1>4, <2>1, <2>2, <3>1, <3>2, ReadGoes DEF m
  <2>3. CASE Ends("false")
    BY <1>2, <2>1, <2>3 DEF Ends
  <2>4. CASE UNCHANGED <<at, status, result>>
    BY <2>1, <2>4 DEF ReadInv, Reading, ReadShowsRange, Returned, target, history
  <2> QED BY <1>4, <2>2, <2>3, <2>4 DEF Polls
<1>5. CASE Ongoing /\ Switches(This)
  <2>1. /\ This.op = "pins" /\ pins' = This.val /\ Goes /\ UNCHANGED <<target, call, shown, history>>
    BY <1>5 DEF Switches
  <2>2. at # m + 5
    BY <2>1, ReadsAt, LastKinds
  <2>3. at = m + 6 => UNCHANGED <<core, dhcsr>> /\ pins' = "off"
    BY <2>1, ReadsAt, LastKinds DEF target
  <2>4. lost' = lost
    BY <2>1 DEF history
  <2> HIDE DEF m
  <2> QED BY <1>5, <2>1, <2>2, <2>3, <2>4, ReadGoes DEF m
<1>6. CASE Ongoing /\ Refuses(This)
  BY <1>2, <1>6 DEF Refuses, Ends
<1>7. CASE Return
  <2>1. /\ at > m + 6 /\ status' = result /\ UNCHANGED <<target, pins, call, shown, history>>
        /\ result \in {"true", "false"}
    BY <1>1, <1>7 DEF Return, Ends, BaseInv, HostTypes
  <2>2. CASE result = "true"
    <3>1. at >= m + 5 /\ at > m + 5
      BY <1>1, <2>1
    <3>2. core = "running" /\ ~dhcsr.debugen /\ pins = "off"
      BY <2>1, <3>1 DEF ReadInv
    <3>3. shown = LET a == call.range[1] n == call.range[2] IN
                    IF a + n < Space THEN a .. (a + n) - 1 ELSE {}
      BY <2>2, <3>1, ReadPrinted
    <3>4. /\ core' = "running" /\ ~dhcsr'.debugen /\ pins' = "off" /\ call' = call /\ shown' = shown
          /\ status' = "true"
      BY <2>1, <2>2, <3>2 DEF target
    <3>5. ReadShowsRange'
      BY <3>3, <3>4 DEF ReadShowsRange
    <3> QED BY <3>4, <3>5 DEF ReadInv, Reading
  <2> QED BY <1>2, <2>1, <2>2
<1>8. CASE Ongoing /\ Loses(This)
  <2>1. lost' = TRUE /\ call' = call /\ shown' = shown /\ Fails(This)
    BY <1>8 DEF Loses
  <2>2. CASE This.else = "false"
    BY <1>2, <2>1, <2>2 DEF Fails, Ends
  <2>3. CASE This.else = "run"
    <3>1. at' = (Len(Plan(call)) - Len(Resume)) + 1 /\ result' = "false" /\ status' = status
      BY <2>1, <2>3 DEF Fails
    <3>2. at' = m + 5
      BY <1>1, <3>1, ResumePlan
    <3>3. ~(at' > Count(call'.range) + 5)
      BY <1>1, <2>1, <3>2
    <3> QED BY <2>1, <3>1, <3>3 DEF ReadInv, Reading, ReadShowsRange, Returned
  <2>4. CASE This.else = "end"
    <3>1. status' = result /\ at >= m + 5 /\ result \in {"true", "false"}
      BY <1>8, <2>1, <2>4, ReadElse DEF Fails, Ends, BaseInv, HostTypes
    <3>2. CASE result = "true"
      <4>1. shown = LET a == call.range[1] n == call.range[2] IN
                      IF a + n < Space THEN a .. (a + n) - 1 ELSE {}
        BY <3>1, <3>2, ReadPrinted
      <4>2. ReadShowsRange'
        BY <2>1, <4>1 DEF ReadShowsRange
      <4> QED BY <3>1, <3>2, <4>2 DEF ReadInv, Reading
    <3> QED BY <1>2, <2>1, <3>1, <3>2
  <2> QED BY <1>8, <2>2, <2>3, <2>4, ReadElse
<1>9. CASE CoreHalts \/ FunctionEnds
  <2>1. /\ dhcsr.debugen /\ dhcsr' = dhcsr /\ UNCHANGED <<host, lost>>
    BY <1>9 DEF CoreHalts, FunctionEnds, history
  <2>2. ~(at > m + 5)
    BY <2>1 DEF ReadInv
  <2>3. ReadShowsRange'
    BY <2>1 DEF ReadShowsRange, Returned, host, Reading
  <2> HIDE DEF m
  <2> QED BY <2>1, <2>2, <2>3 DEF ReadInv, Reading, host, m
<1>10. CASE UNCHANGED vars
  BY <1>10 DEF vars, target, host, history, ReadInv, Reading, ReadShowsRange, Returned
<1>11. \A c \in Calls : ~Begin(c)
  BY DEF Begin, Reading
<1> QED
  BY <1>3, <1>4, <1>5, <1>6, <1>7, <1>8, <1>9, <1>10, <1>11, Steps

\* Every step keeps what is known of the read command.
LEMMA ReadStep ==
    ASSUME BaseInv, ReadInv, [Next]_vars
    PROVE  ReadInv'
<1>1. ASSUME NEW c \in Calls, Begin(c) PROVE ReadInv'
  <2>1. /\ call' = c /\ at' = 1 /\ status' = "running" /\ result' = "true" /\ shown' = {}
        /\ lost' = FALSE
    BY <1>1 DEF Begin
  <2>2. Reading' => Count(call'.range) \in Nat
    <3>1. SUFFICES ASSUME c.op = "read" PROVE Count(c.range) \in Nat
      BY <2>1 DEF Reading
    <3> QED BY <3>1, ReadPlanned, PiecesShow
  <2>3. Reading' => ~(at' > Count(call'.range) + 5)
    BY <2>1, <2>2
  <2> QED BY <2>1, <2>2, <2>3 DEF ReadInv, ReadShowsRange, Returned
<1>2. CASE Reading
  BY <1>2, ReadMoves
<1>3. CASE ~Reading /\ \A c \in Calls : ~Begin(c)
  <2>1. CASE status # "running"
    <3>1. CoreHalts \/ FunctionEnds \/ UNCHANGED vars
      BY <1>3, <2>1, Steps DEF Ongoing, Return
    <3>2. CASE CoreHalts \/ FunctionEnds
      <4>1. dhcsr.debugen /\ dhcsr' = dhcsr /\ UNCHANGED <<host, lost>>
        BY <3>2 DEF CoreHalts, FunctionEnds, history
      <4>2. ReadShowsRange'
        BY <4>1 DEF ReadInv, ReadShowsRange, Returned, host
      <4> QED BY <2>1, <4>1, <4>2 DEF ReadInv, Reading, host
    <3>3. CASE UNCHANGED vars
      BY <3>3 DEF vars, target, host, history, ReadInv, Reading, ReadShowsRange, Returned
    <3> QED BY <3>1, <3>2, <3>3
  <2>2. CASE status = "running"
    <3>1. call.op # "read"
      BY <1>3, <2>2 DEF Reading
    <3>2. call' = call
      BY <1>3, Steps DEF Succeeds, Polls, Switches, Refuses, Return, Loses, CoreHalts,
         FunctionEnds, host, vars
    <3> QED BY <3>1, <3>2 DEF ReadInv, Reading, ReadShowsRange
  <2> QED BY <2>1, <2>2
<1> QED
  BY <1>1, <1>2, <1>3

-----------------------------------------------------------------------------
\* Types, and what true means of a change of the target's state and of a read,
\* for every list of registers, range of addresses and limit of the polls:
\* set_target_state leaves the core as it was asked to, and the read command has
\* printed its range and has let the core run.
THEOREM TargetHolds == Spec => []TargetInv
<1>1. Init => BaseInv /\ StateInv /\ ReadInv
  <2>1. SUFFICES ASSUME Init PROVE StateInv /\ ReadInv
    BY BaseInit
  <2>2. call.op = "never" /\ status = "new" /\ at = 1
    BY <2>1 DEF Init, Never
  <2> QED BY <2>2 DEF StateInv, ResetProgramInv, ResetRunInv, HaltInv, RunInv, DebugInv, Going, Live,
             ReadInv, Reading, ReadShowsRange, Returned
<1>2. BaseInv /\ StateInv /\ ReadInv /\ [Next]_vars => (BaseInv /\ StateInv /\ ReadInv)'
  BY BaseStep, StateStep, ReadStep
<1>3. BaseInv /\ StateInv /\ ReadInv => TargetInv
  BY TypesOfBase, StateEnd DEF TargetInv, ReadInv
<1> QED
  BY <1>1, <1>2, <1>3, PTL DEF Spec

-----------------------------------------------------------------------------
(***************************************************************************)
(* The calls that stop the firmware and let it go on.                      *)
(***************************************************************************)
Quiet == call.op = "read" \/ (call.op = "state" /\ call.state \in {"HALT", "RUN"})

QuietInv == status = "running" /\ Quiet => ~wasReset

\* Their plans write no register of the core's but DHCSR.
LEMMA QuietThis ==
    ASSUME BaseInv, Ongoing, Quiet
    PROVE  This.op # "get" /\ (This.op = "put" => This.reg = "DHCSR")
<1>1. CASE call.op = "read"
  <2> DEFINE m == Count(call.range)
  <2>1. Reading
    BY <1>1 DEF Reading, Ongoing
  <2>2. m \in Nat /\ at \in 1 .. m + 6
    BY <2>1, ReadsAt
  <2> HIDE DEF m
  <2>3. CASE at <= 4
    <3>1. at = 1 \/ at = 2 \/ at = 3 \/ at = 4
      BY <2>2, <2>3
    <3> QED BY <2>1, <3>1, ReadsAt, Kinds
  <2>4. CASE at > 4 /\ at <= m + 4
    <3> DEFINE k == at - 4
    <3>1. k \in 1 .. m /\ at = 4 + k
      BY <2>2, <2>4
    <3>2. IsPiece(call.range, k, This)
      BY <2>1, <3>1, ReadsAt DEF m
    <3> QED BY <3>2 DEF IsPiece
  <2>5. CASE at = m + 5 \/ at = m + 6
    BY <2>1, <2>5, ReadsAt, LastKinds DEF m
  <2> QED BY <2>2, <2>3, <2>4, <2>5
<1>2. CASE call.op = "state" /\ call.state \in {"HALT", "RUN"}
  <2>1. call \in Calls /\ at \in 1 .. Len(Plan(call))
    BY Here
  <2>2. Plan(call) = SetTargetState(call.state)
    BY <1>2, <2>1, StatePlanned
  <2>3. CASE call.state = "HALT"
    <3>1. This = Halt[at] /\ at \in 1 .. 4
      BY <2>1, <2>2, <2>3, StatePlans, HaltPlan DEF This
    <3>2. at = 1 \/ at = 2 \/ at = 3 \/ at = 4
      BY <3>1
    <3> QED BY <3>1, <3>2, HaltPlan, Kinds
  <2>4. CASE call.state = "RUN"
    <3>1. This = Run[at] /\ at \in 1 .. 2
      BY <2>1, <2>2, <2>4, StatePlans, ResumePlan DEF This
    <3>2. at = 1 \/ at = 2
      BY <3>1
    <3> QED BY <3>1, <3>2, ResumePlan, Kinds
  <2> QED BY <1>2, <2>3, <2>4
<1> QED
  BY <1>1, <1>2 DEF Quiet

\* A step of such a call neither resets the core nor touches its registers.
LEMMA QuietStep ==
    ASSUME BaseInv, QuietInv, [Next]_vars, status = "running", Quiet
    PROVE  ~wasReset' /\ (doing = "firmware" => regs' = regs) /\ call' = call
<1>1. ~wasReset
  BY DEF QuietInv
<1>2. ASSUME Ongoing, Effect(This) PROVE regs' = regs
  <2>1. This.op # "get" /\ (This.op = "put" => This.reg = "DHCSR")
    BY <1>2, QuietThis
  <2>2. SetDhcsr(This.val) \/ UNCHANGED target
    BY <1>2, <2>1, EffectKinds
  <2> QED BY <2>2 DEF SetDhcsr, target
<1>3. ASSUME Ongoing, NEW done \in BOOLEAN, Moves(This, done) PROVE ~wasReset'
  BY <1>1, <1>3, QuietThis DEF Moves
<1>4. CASE Ongoing /\ Succeeds(This)
  BY <1>2, <1>3, <1>4 DEF Succeeds
<1>5. CASE Ongoing /\ (Polls(This) \/ Switches(This) \/ Refuses(This))
  BY <1>1, <1>5 DEF Polls, Switches, Refuses, target, history
<1>6. CASE Return
  BY <1>1, <1>6 DEF Return, target, history
<1>7. CASE Ongoing /\ Loses(This)
  <2>1. /\ call' = call
        /\ \/ UNCHANGED target /\ Moves(This, FALSE)
           \/ Effect(This) /\ Moves(This, TRUE)
    BY <1>7 DEF Loses
  <2> QED BY <1>2, <1>3, <1>7, <2>1 DEF target
<1>8. CASE CoreHalts
  BY <1>1, <1>8 DEF CoreHalts, host, history
<1>9. CASE FunctionEnds
  BY <1>1, <1>9 DEF FunctionEnds, host
<1>10. CASE UNCHANGED vars
  BY <1>1, <1>10 DEF vars, target, host, history
<1>11. \A c \in Calls : ~Begin(c)
  BY DEF Begin
<1> QED
  BY <1>4, <1>5, <1>6, <1>7, <1>8, <1>9, <1>10, <1>11, Steps

\* TARGET_HALT, TARGET_RUN and the read command do not reset the core, and the
\* firmware they interrupt finds its registers as they were.
THEOREM FirmwareHeld == Spec => FirmwareKept
<1>1. Init => BaseInv /\ QuietInv
  BY BaseInit DEF Init, QuietInv
<1>2. BaseInv /\ QuietInv /\ [Next]_vars => (BaseInv /\ QuietInv)'
  <2>1. SUFFICES ASSUME BaseInv, QuietInv, [Next]_vars PROVE QuietInv'
    BY BaseStep
  <2>2. ASSUME NEW c \in Calls, Begin(c) PROVE QuietInv'
    BY <2>2 DEF Begin, QuietInv
  <2>3. CASE status = "running"
    <3>1. call' = call
      <4>1. \A c \in Calls : ~Begin(c)
        BY <2>3 DEF Begin
      <4> QED BY <2>1, <4>1, Steps DEF Succeeds, Polls, Switches, Refuses, Return, Loses, CoreHalts,
                 FunctionEnds, host, vars
    <3> QED BY <2>1, <2>3, <3>1, QuietStep DEF QuietInv, Quiet
  <2>4. CASE status # "running" /\ \A c \in Calls : ~Begin(c)
    <3>1. CoreHalts \/ FunctionEnds \/ UNCHANGED vars
      BY <2>1, <2>4, Steps DEF Ongoing, Return
    <3>2. status' = status
      BY <3>1 DEF CoreHalts, FunctionEnds, host, vars
    <3> QED BY <2>4, <3>2 DEF QuietInv
  <2> QED BY <2>1, <2>2, <2>3, <2>4
<1>3. BaseInv /\ QuietInv /\ [Next]_vars =>
        [status = "running" /\ (call.op = "read" \/ (call.op = "state" /\ call.state \in {"HALT", "RUN"}))
           => ~wasReset' /\ (doing = "firmware" => regs' = regs)]_vars
  BY QuietStep DEF Quiet
<1> QED
  BY <1>1, <1>2, <1>3, PTL DEF Spec, FirmwareKept
=============================================================================

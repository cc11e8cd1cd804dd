---------------------------- MODULE MCSwdMemory ----------------------------
(* Words of two bytes and pages of two words: a call then has bytes before
   and after its blocks, and blocks that end with a page.  Every write gives
   an address the same new value, which is not that of its neighbours. *)
EXTENDS SwdMemory

CONSTANT junk

MCFirstMem == [a \in 0 .. 7 |-> a % 3]

ReadOf(op, addr, size) == [op |-> op, addr |-> addr, size |-> size, data |-> <<>>]
WriteOf(op, addr, size) ==
  [op |-> op, addr |-> addr, size |-> size, data |-> [i \in 1 .. size |-> (addr + i) % 3]]

MCCalls ==
  {ReadOf("read", 0, 7), WriteOf("write", 1, 7), WriteOf("write_word", 0, 2),
   ReadOf("read_word", 4, 2)}
============================================================================

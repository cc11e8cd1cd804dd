-------------------------- MODULE MCAlgorithmStore --------------------------
(* Five algorithm files: two for the same device, one with a full table of
   sectors, one with more data than the rest of its last block takes, one whose
   record is longer than a total can say, and one that cannot be read. *)
EXTENDS AlgorithmStore

Elf(n, code, data, sectors, symbols) ==
  [ok |-> TRUE, name |-> n, code |-> code, data |-> data, page |-> 4, base |-> 100, size |-> 16,
   sectors |-> sectors, symbols |-> symbols]

Small == Elf("a", 1, 1, <<<<0, 4>>, SectorEnd>>, [f \in {"Init", "ProgramPage"} |-> 0])
Other == Elf("a", 3, 0, <<SectorEnd, <<0, 4>>>>, [f \in {"EraseChip"} |-> 2])
Full == Elf("b", 2, 3, <<<<0, 4>>, <<8, 2>>>>, [f \in FunctionNames |-> 1])
Large == Elf("c", 58, 0, <<<<0, 4>>, SectorEnd>>, [f \in FunctionNames |-> 7])
Unreadable == [Small EXCEPT !.ok = FALSE, !.name = "d"]

MCElfs == {Small, Other, Full, Large, Unreadable}
MCOnDisk == {<<"a", Full>>, <<"e", Other>>, <<"d", Unreadable>>}
MCNames == {"a", "b", "c", "d", "e", "f"}
=============================================================================

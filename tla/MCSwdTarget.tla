---------------------------- MODULE MCSwdTarget ----------------------------
(* Two functions, so that the arguments of one can be told from those of the
   other, and three of their registers; a range of two pieces, the second one
   shorter, and one that ends with the address space. *)
EXTENDS SwdTarget

MCRegOrder == <<"r0", "r15", "xpsr">>

MCRanges == {<<1, 3>>, <<7, 1>>}
============================================================================

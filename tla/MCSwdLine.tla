----------------------------- MODULE MCSwdLine -----------------------------
(* Words of eight bits; the reset is one longer than the longest run of ones
   outside it. *)
EXTENDS SwdLine

MCWords == {<<0, 0, 0, 0, 0, 0, 0, 0>>, <<1, 1, 1, 1, 1, 1, 1, 1>>, <<1, 1, 0, 1, 0, 0, 0, 0>>}
============================================================================

----------------------------- MODULE MCGpioPort -----------------------------
(* The five ways in which three pins can share ports. *)
EXTENDS GpioPort

At(c, d, n) ==
  [p \in Pins |-> CASE p = "clk" -> c [] p = "dio" -> d [] p = "neighbour" -> n]

MCLayouts == {At(0, 0, 0), At(0, 0, 1), At(0, 1, 0), At(0, 1, 1), At(0, 1, 2)}
=============================================================================

SPECIFICATION Spec
CONSTANTS
  Boards = {"ah618", "bcm2835", "imx93", "rk3588", "sg2002"}
  Layouts <- MCLayouts
INVARIANTS
  PinsInv
PROPERTIES
  BitAtEdge
  NeighbourKept

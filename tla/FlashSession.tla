---------------------------- MODULE FlashSession ----------------------------
(***************************************************************************)
(* What a flash session promises its user, without sectors buffers, blocks *)
(* or algorithms: a session is opened, accepts packets, may fail, and is   *)
(* closed.  While it is open the flash changes only in the sectors of the  *)
(* packets handed to it; if it is closed with success the flash holds the  *)
(* image of the accepted packets.                                          *)
(***************************************************************************)
EXTENDS FlashImage

CONSTANTS Packets,      \* the packets a user may write: [addr, data]
          Images        \* the flash contents a target may come with

VARIABLES mode,         \* "closed", "open" or "error"
          outcome,      \* how the last session ended: "none", "ok", "failed"
          cells,        \* the flash
          image,        \* the image of the accepted packets
          open,         \* the sector that takes bytes, or NoSector
          beyond,       \* a byte past the end of the flash was accepted
          scope         \* the sectors of the packets handed in

vars == <<mode, outcome, cells, image, open, beyond, scope>>

Init ==
    /\ mode = "closed" /\ outcome = "none"
    /\ cells \in Images
    /\ image = Blank /\ open = NoSector /\ beyond = FALSE /\ scope = {}

Forget == image' = Blank /\ open' = NoSector /\ beyond' = FALSE /\ scope' = {}

Open ==
    /\ mode = "closed"
    /\ mode' = "open" /\ outcome' = "none"
    /\ Forget
    /\ UNCHANGED cells

Begin(p, data) ==
    /\ mode = "open"
    /\ scope' = scope \cup SectorsOf(p, data)
    /\ UNCHANGED <<mode, outcome, cells, image, open, beyond>>

\* Only cells of the sectors in scope change.
Work ==
    /\ mode = "open"
    /\ \A a \in Addr : cells'[a] = cells[a] \/ Base(a) \in scope
    /\ DOMAIN cells' = Addr
    /\ UNCHANGED <<mode, outcome, image, open, beyond, scope>>

Accept(p, data) ==
    /\ mode = "open"
    /\ SectorsOf(p, data) \subseteq scope
    /\ image' = ImageAfter(image, open, p, data)
    /\ open' = OpenAfter(open, p, data)
    /\ beyond' = (beyond \/ PastEnd(p, data))
    /\ UNCHANGED <<mode, outcome, cells, scope>>

Fail ==
    /\ mode = "open"
    /\ mode' = "error"
    /\ Forget
    /\ UNCHANGED <<outcome, cells>>

CloseOk ==
    /\ mode = "open"
    /\ Matches(image, cells) /\ ~beyond
    /\ mode' = "closed" /\ outcome' = "ok"
    /\ UNCHANGED <<cells, image, open, beyond, scope>>

CloseFailed ==
    /\ mode \in {"open", "error"}
    /\ mode' = "closed" /\ outcome' = "failed"
    /\ Forget
    /\ UNCHANGED cells

\* The programmer's process dies: nothing is promised.
Die ==
    /\ mode' = "closed" /\ outcome' = "none"
    /\ Forget
    /\ UNCHANGED cells

Next ==
    \/ Open \/ Work \/ Fail \/ CloseOk \/ CloseFailed \/ Die
    \/ \E k \in Packets : Begin(k.addr, k.data) \/ Accept(k.addr, k.data)

Spec == Init /\ [][Next]_vars
=============================================================================

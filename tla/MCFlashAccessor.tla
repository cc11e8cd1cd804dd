---------------------------- MODULE MCFlashAccessor ----------------------------
\* FlashAccessor on the memory maps of FlashMaps; the values are in the .cfg files.
EXTENDS FlashAccessor, FlashMaps

Packet(a, d) == [addr |-> a, data |-> d]

\* No sector, over a boundary from the smaller to the larger sector and from
\* the larger to the smaller, no data, past the end of the flash.
MixedPackets == {
    Packet(1, <<D>>), Packet(3, <<D, D>>), Packet(7, <<E, D>>), Packet(8, << >>),
    Packet(9, <<D, D>>)}

ASSUME MapAssumption == SectorsAligned
=============================================================================

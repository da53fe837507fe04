--------------------------- MODULE MCSenderMemory ---------------------------
(* Small instances of SenderMemory for TLC.                                *)
EXTENDS SenderMemory, TLC

CONSTANTS m1, m2, m3

Three == {m1, m2, m3}

Symmetry == Permutations(Three)
=============================================================================

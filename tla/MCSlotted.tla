----------------------------- MODULE MCSlotted ------------------------------
(* Bytes for two records of different sizes and the record of no bytes.    *)
EXTENDS Slotted

CONSTANTS a, b, c

MCData == {<<>>, <<a, b>>, <<c>>}
=============================================================================

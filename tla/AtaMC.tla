-------------------------------- MODULE AtaMC ---------------------------------
(* Values of Ata's constants for TLC.                                      *)
EXTENDS Ata

CONSTANTS a, z

\* Two words that differ in every byte order.
TwoBuffers == {[j \in 0 .. SectorLen - 1 |-> IF j = 0 THEN a ELSE z],
               [j \in 0 .. SectorLen - 1 |-> IF j = 3 THEN z ELSE a]}
=============================================================================

---------------------------- MODULE MCPipelineEnd ---------------------------
(* PipelineEnd on small instances: two targets, one above the other. *)
EXTENDS PipelineEnd, TLC

CONSTANTS t1, t2, c1, r1, r2

Chain == (t1 :> {}) @@ (t2 :> {t1})

StopsMay == {"ownerStops", "closerStops", "ownerRaises", "closerRaises"}
AllMay   == StopsMay \cup {"engineRaises", "unrecorded"}

Symmetry == Permutations(Recoveries)
=============================================================================

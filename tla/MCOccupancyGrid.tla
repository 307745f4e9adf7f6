--------------------------- MODULE MCOccupancyGrid ---------------------------
(***************************************************************************)
(* A TLC instance of OccupancyGrid: a sector of four by three cells.       *)
(***************************************************************************)
EXTENDS OccupancyGrid

MCConf == [rangeMax |-> 4, rangeSeg |-> 2, angleMax |-> 6, angleSeg |-> 2,
           cellMax |-> 3, cellExpired |-> 1]

\* The form may widen or narrow the sector, refine the segments (down to a
\* size of zero) and move both thresholds.
MCOptions == [rangeMax |-> {8}, rangeSeg |-> {0, 1}, angleMax |-> {12},
              angleSeg |-> {1}, cellMax |-> {2}, cellExpired |-> {2}]

At(r, a, v) == [range |-> r, angle |-> a, v |-> v]

\* Still and moving targets in one cell (its two sides included), artefacts,
\* a neighbour, and targets on the edges of the sector.
MCTargets == {At(2, 0, "zero"), At(3, -1, "slow"), At(2, 1, "noise"),
              At(4, 3, "zero"), At(8, -6, "slow"), At(3, 0, "fast")}
=============================================================================

-------------------------- MODULE MCOccupancyQueue --------------------------
(***************************************************************************)
(* A TLC instance of OccupancyQueue with two radars.                       *)
(***************************************************************************)
EXTENDS OccupancyQueue

CONSTANTS r1, r2

MCRadars == {r1, r2}
=============================================================================

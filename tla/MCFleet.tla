--------------------------------- MODULE MCFleet ---------------------------------
(***************************************************************************)
(* Three nodes, one of them not configured here, and devices that require, *)
(* prefer or ask for nothing.                                              *)
(***************************************************************************)
EXTENDS FleetService

MCNode == 1..4
MCSeeds == {1, 3}
MCFlagsOf == <<{"fast"}, {"gpio"}, {"gpio", "fast"}, {"gpio", "fast"}>>
MCRequired == <<{"gpio"}, {}, {"gpio", "can"}>>
MCPreferred == <<{"fast"}, {"fast"}, {}>>
MCScore == <<<<4, 2, 1, 3>>, <<1, 4, 2, 3>>, <<2, 3, 4, 1>>>>
================================================================================

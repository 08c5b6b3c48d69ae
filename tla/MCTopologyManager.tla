-------------------------- MODULE MCTopologyManager --------------------------
(***************************************************************************)
(* An instance of TopologyManager for TLC: two data centers, one of them    *)
(* with two racks.                                                          *)
(***************************************************************************)
EXTENDS TopologyManager

CONSTANTS d1, d2, r1, r2, r3

MCDataCenterOf == r1 :> d1 @@ r2 :> d1 @@ r3 :> d2
=============================================================================

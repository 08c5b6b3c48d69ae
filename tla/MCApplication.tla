--------------------------- MODULE MCApplication ---------------------------
(***************************************************************************)
(* Instances of Application for TLC: one data center, one rack.             *)
(***************************************************************************)
EXTENDS Application, TLC

CONSTANTS d1, r1

MCDataCenterOf == r1 :> d1

HostSymmetry == Permutations(Hosts)
=============================================================================

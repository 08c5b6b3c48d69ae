------------------------- MODULE MCDaemonCollection -------------------------
(***************************************************************************)
(* An instance of DaemonCollection for TLC: ints of three bits, and types    *)
(* that differ in the sign bit only.                                        *)
(***************************************************************************)
EXTENDS DaemonCollection, TLC

CONSTANTS m1, m2, m3, m4

MCTypeOf == m1 :> 1 @@ m2 :> 1 @@ m3 :> 5 @@ m4 :> 7
=============================================================================

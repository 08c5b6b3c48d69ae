---------------------------- MODULE MCVMManager ----------------------------
(***************************************************************************)
(* Instances of VMManager for TLC.  VMs are interchangeable.               *)
(***************************************************************************)
EXTENDS VMManager, TLC

SymmetryOfVMs == Permutations(VMIDs)
=============================================================================

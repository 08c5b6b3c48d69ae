------------------------ MODULE MCReentrantVMManager ------------------------
(***************************************************************************)
(* Instances of ReentrantVMManager for TLC.                                 *)
(***************************************************************************)
EXTENDS ReentrantVMManager, TLC

SymmetryOfVMs == Permutations(VMIDs)

\* What the handlers know is read by no action and by no property of this module.
AllButViews ==
    <<env, vmList, handlers, loop, next, IF note = Null THEN Null ELSE note.id, succes, nesting>>
=============================================================================

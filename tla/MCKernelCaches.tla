---------------------------- MODULE MCKernelCaches ----------------------------
(* Code objects for checking KernelCaches: two builds of one kernel and a    *)
(* code object with another kernel.                                          *)
EXTENDS KernelCaches, TLC

CONSTANTS build1, build2, other, name1, name2
MCCodes == {build1, build2, other}
MCKernelName == [c \in MCCodes |-> IF c = other THEN name2 ELSE name1]

MCTwoCodes == {build1, other}

HandleSymmetry == Permutations(Handles)
=============================================================================

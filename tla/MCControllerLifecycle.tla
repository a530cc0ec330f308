------------------------- MODULE MCControllerLifecycle -------------------------
(* Symmetry for checking ControllerLifecycle: any thread may configure the   *)
(* tool, call the runtimes or exit.                                          *)
EXTENDS ControllerLifecycle, TLC

ThreadSymmetry == Permutations(Threads)
=============================================================================

---------------------------- MODULE MCInterceptor ----------------------------
(* Model values and symmetry for checking Interceptor.  Threads run the same *)
(* code, so runs that check invariants only may permute them.                *)
EXTENDS Interceptor, TLC

ThreadSymmetry == Permutations(Threads)
=============================================================================

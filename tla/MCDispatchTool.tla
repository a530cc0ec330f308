---------------------------- MODULE MCDispatchTool ----------------------------
(* Instances of DispatchTool: the tools there are, one of them alone, and    *)
(* symmetry, since threads run the same code.                                *)
EXTENDS DispatchTool, TLC

ToolsAll == AllTools
ToolsInstrCount == {InstrCount}
ThreadSymmetry == Permutations(Threads)
=============================================================================

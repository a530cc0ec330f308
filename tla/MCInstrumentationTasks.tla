----------------------- MODULE MCInstrumentationTasks -----------------------
(* Two threads, two kernels of one ISA on two agents, two modules.           *)
EXTENDS InstrumentationTasks, TLC

CONSTANTS t1, t2, k1, k2, a1, a2, m1, m2

MCAgentOf == k1 :> a1 @@ k2 :> a2
MCIsaOf == a1 :> "gfx908" @@ a2 :> "gfx908"
MCVariablesOf == m1 :> <<"counter", "reserved">> @@ m2 :> <<"counter">>
=============================================================================

-------------------------- MODULE MCRegisterLiveness --------------------------
(* The functions analysed for checking RegisterLiveness.  A register is live *)
(* or not whatever the others are, so one register is enough.                *)
EXTENDS RegisterLiveness

CONSTANTS r1

D == {r1}
I(kind, defs, uses) == [kind |-> kind, defs |-> defs, uses |-> uses]
Define == I("vector", D, {})
Use == I("vector", {}, D)
Other == I("vector", {}, {})
Exec == I("exec", {}, {})
Instrs == {Define, I("cmpx", {}, {}), I("scalar", {}, {}), Exec}

Firsts == {<<Other, i>> : i \in Instrs}
Seconds == UNION {[1..n -> Instrs] : n \in 1..2}
Ends == {<<I("lane", {}, D)>>, <<Exec, Use>>, <<Define, Exec, Use>>}

(* Two blocks of up to two instructions in a loop or an if, and a last block.*)
Shapes == {{<<1, 2>>, <<1, 3>>, <<2, 3>>},
           {<<1, 2>>, <<2, 1>>, <<1, 3>>}}
MCFunctions == [blocks : {<<a, b, e>> : a \in Firsts, b \in Seconds, e \in Ends},
                succ : Shapes]
=============================================================================

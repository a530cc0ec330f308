---------------------------- MODULE MCStatePlanner ----------------------------
(* The applications planned for: one kernel, or a kernel that calls a device *)
(* function, with any registers in use.                                      *)
EXTENDS StatePlanner

I(live, hook, callee) == [live |-> live, hook |-> hook, callee |-> callee]

(* A function of two blocks; d is what is live in its middle.                *)
Bodies(used, callee) ==
    {<< <<I({}, hook, 0), I(live, TRUE, callee)>>, <<I(live, TRUE, 0)>> >> :
        live \in {{}, used}, hook \in BOOLEAN}

(* Registers in use: any VGPRs, the first AGPRs, and none, two or all SGPRs. *)
FirstOf(c, n) == {c} \X (0..(n - 1))
Pressures == {v \cup FirstOf("a", a) \cup FirstOf("s", s) :
                 v \in SUBSET FirstOf("v", NumVGPRs), a \in 0..NumAGPRs, s \in {0, 2, 3}}
Functions(k, callee) ==
    UNION {{[kernel |-> k, used |-> u, blocks |-> b] : b \in Bodies(u, callee)} :
           u \in Pressures}
MCModules ==
    [mfs : {<<f>> : f \in Functions(TRUE, 0)}
           \cup {<<f, g>> : f \in Functions(TRUE, 2),
                            g \in {g \in Functions(FALSE, 0) : ~g.blocks[1][1].hook}},
     accessed : {{}, {<<"v", 0>>}}]
=============================================================================

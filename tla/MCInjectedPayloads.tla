-------------------------- MODULE MCInjectedPayloads --------------------------
(* The applications instrumented.  No payload is outlined before the first   *)
(* instruction of a block that a branch leads to, nor inlined there unless   *)
(* it is one block; no payload of one block is inlined elsewhere than before *)
(* the first instruction of a block.  No payload with a condition writes,    *)
(* functions take no arguments in registers, and with every call target      *)
(* known functions are called by the kernel only.                            *)
EXTENDS InjectedPayloads

Op(use, def) == [op |-> "op", use |-> use, def |-> def, to |-> 0, callee |-> 0]
Branch(use, to) == [op |-> "branch", use |-> use, def |-> {}, to |-> to, callee |-> 0]
Call(f) == [op |-> "call", use |-> {}, def |-> {}, to |-> 0, callee |-> f]
Ret == [op |-> "return", use |-> {}, def |-> {}, to |-> 0, callee |-> 0]
End == [op |-> "end", use |-> {}, def |-> {}, to |-> 0, callee |-> 0]

RR(r) == [name |-> "readReg", reg |-> r]
WR(r) == [name |-> "writeReg", reg |-> r]
Straight == {<< >>} \cup {<<RR(r)>> : r \in Regs} \cup {<<WR(r)>> : r \in Regs}
            \cup {<<RR("r"), WR("r"), WR("q"), RR("r"), WR("r")>>}
Hooks == {[body |-> b, guarded |-> << >>] : b \in Straight}
         \cup {[body |-> <<RR("r")>>, guarded |-> <<RR(r)>>] : r \in Regs}

Loop == << << <<Op({}, {"r", "q"})>>,
              <<Op({"r"}, {}), Branch({"r"}, 2)>>,
              <<Op({"q"}, {"q"}), End>> >> >>
Kernel == << <<Op({}, {"r"}), Call(2), Op({"r"}, {}), End>> >>
Leaf == << <<Op({}, {"q"}), Op({"q"}, {}), Ret>> >>
Middle == << <<Op({}, {"q"}), Call(3), Op({"q"}, {}), Ret>> >>
Hooked(places) ==
    UNION {[s -> Hooks] : s \in {s \in SUBSET places : Cardinality(s) \in 1..2}}
Outlined(mfs, places, det) ==
    {[mfs |-> mfs, deterministic |-> det, outline |-> TRUE, hooks |-> h] : h \in Hooked(places)}

(* Payloads of one block at ones, of several at others.                      *)
Inlined(mfs, ones, others, det) ==
    {[mfs |-> mfs, deterministic |-> det, outline |-> FALSE, hooks |-> h] :
        h \in {h \in Hooked(ones \cup others) : \A m \in DOMAIN h :
                  m \in IF h[m].guarded = << >> THEN ones ELSE others}}

MCApplications ==
    Outlined(Loop, {<<1, 1, 1>>, <<1, 2, 2>>, <<1, 3, 1>>, <<1, 3, 2>>}, TRUE)
    \cup Outlined(<<Kernel, Leaf>>, {<<1, 1, 1>>, <<1, 1, 3>>, <<2, 1, 2>>}, TRUE)
    \cup Outlined(<<Kernel, Middle, << <<Ret>> >> >>, {<<2, 1, 1>>, <<3, 1, 1>>}, FALSE)
    \cup Inlined(Loop, {<<1, 1, 1>>, <<1, 2, 1>>, <<1, 3, 1>>},
                 {<<1, 1, 1>>, <<1, 2, 2>>, <<1, 3, 1>>, <<1, 3, 2>>}, TRUE)
    \cup Inlined(<<Kernel, Leaf>>, {<<1, 1, 1>>, <<2, 1, 1>>}, {<<1, 1, 3>>, <<2, 1, 2>>}, TRUE)
=============================================================================

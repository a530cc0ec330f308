--------------------------- MODULE ApplicationCode ---------------------------
(***************************************************************************)
(* A lifted application, the payloads asked for at its instructions, and   *)
(* what is live at each of them.                                           *)
(***************************************************************************)
EXTENDS Naturals, Sequences, FiniteSets

CONSTANTS
    Regs,         \* registers of the application
    Applications  \* applications, and the hooks asked for

(* An application: mfs, functions of blocks of instructions, the first of    *)
(* them the kernel; hooks, for the instructions that have any, their         *)
(* payload; deterministic, whether the target of each call is known;         *)
(* outline, the option OutlineAllInjectedPayloads.                           *)
Ops == {"op", "branch", "call", "return", "end"}
MachineInstr ==
    [op : Ops, use : SUBSET Regs, def : SUBSET Regs, to : Nat, callee : Nat]

(* A payload: what its hooks do in order, and what they do last under a      *)
(* condition of their own.                                                   *)
Intrinsic == [name : {"readReg", "writeReg"}, reg : Regs]
Payload == [body : Seq(Intrinsic), guarded : Seq(Intrinsic)]

ASSUME ApplicationCodeAssumption ==
    \A a \in Applications :
        /\ a.mfs \in Seq(Seq(Seq(MachineInstr)))
        /\ a.deterministic \in BOOLEAN /\ a.outline \in BOOLEAN
        /\ \A m \in DOMAIN a.hooks :
              a.hooks[m].body \in Seq(Intrinsic) /\ a.hooks[m].guarded \in Seq(Intrinsic)

MIs(a) == UNION {UNION {{<<f, b, i>> : i \in DOMAIN a.mfs[f][b]} :
                        b \in DOMAIN a.mfs[f]} : f \in DOMAIN a.mfs}
MI(a, m) == a.mfs[m[1]][m[2]][m[3]]
Following(a, m) ==
    IF m[3] < Len(a.mfs[m[1]][m[2]]) THEN <<m[1], m[2], m[3] + 1>> ELSE <<m[1], m[2] + 1, 1>>

(* Where control may go from an instruction within its function.             *)
Successors(a, m) ==
    CASE MI(a, m).op = "branch" -> {Following(a, m), <<m[1], MI(a, m).to, 1>>}
      [] MI(a, m).op \in {"return", "end"} -> {}
      [] OTHER -> {Following(a, m)}

(* The least solution of the equations of liveness, as pairs of an           *)
(* instruction and a register first.                                         *)
Liveness(a, use, succ) ==
    LET ms == MIs(a)
        round[n \in 0..Cardinality(ms)] ==
            IF n = 0 THEN {}
            ELSE LET last == round[n - 1]
                 IN {<<m, r>> \in ms \X Regs :
                        \/ r \in use[m]
                        \/ r \notin MI(a, m).def /\ \E s \in succ[m] : <<s, r>> \in last}
        live == round[Cardinality(ms)]
    IN [m \in ms |-> {r \in Regs : <<m, r>> \in live}]

HookRegs(a, m) ==
    IF m \in DOMAIN a.hooks
    THEN {a.hooks[m].body[k].reg : k \in DOMAIN a.hooks[m].body} \cup
         {a.hooks[m].guarded[k].reg : k \in DOMAIN a.hooks[m].guarded}
    ELSE {}

(* live: the registers live in the function before each instruction;         *)
(* looked: those that the application or a hook may look at from there.      *)
WithLiveness(a) ==
    LET within == [m \in MIs(a) |-> Successors(a, m)]
        across == [m \in MIs(a) |->
                      Successors(a, m) \cup
                      IF MI(a, m).op = "call" THEN {<<MI(a, m).callee, 1, 1>>} ELSE {}]
    IN [mfs |-> a.mfs, hooks |-> a.hooks, deterministic |-> a.deterministic,
        outline |-> a.outline,
        live |-> Liveness(a, [m \in MIs(a) |-> MI(a, m).use], within),
        looked |-> Liveness(a, [m \in MIs(a) |-> MI(a, m).use \cup HookRegs(a, m)], across)]

Analyzed == {WithLiveness(a) : a \in Applications}

(* The registers whose values matter at m under the calls of stack s.        *)
Needed(a, m, s) ==
    IF m = << >> THEN {}
    ELSE a.looked[m] \cup UNION {a.looked[s[k]] : k \in DOMAIN s}
=============================================================================

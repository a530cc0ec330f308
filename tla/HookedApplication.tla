-------------------------- MODULE HookedApplication --------------------------
(***************************************************************************)
(* What instrumenting an application promises: the application runs as it  *)
(* would alone, and before each execution of an instruction the tool asked *)
(* for (InstrumentationTask::insertHookBefore) its hooks run, in the order *)
(* they were asked for, as if at once, on the registers of the             *)
(* application.                                                            *)
(*                                                                         *)
(* Data is symbolic: a register holds where its value was made.  regs      *)
(* holds the registers that the application or a hook may still look at.   *)
(***************************************************************************)
EXTENDS ApplicationCode

LOCAL INSTANCE FiniteSetsExt

VARIABLES
    app,     \* the application
    at,      \* the instruction to execute next; << >> when the kernel ended
    stack,   \* where the functions that wait for a call go on
    ran,     \* the hooks of this instruction have run
    regs,
    seen     \* what the last instruction or the last hooks looked at

vars == <<app, at, stack, ran, regs, seen>>

Init ==
    /\ app \in Analyzed
    /\ at = <<1, 1, 1>>
    /\ stack = << >>
    /\ ran = FALSE
    /\ regs = [r \in Needed(app, at, stack) |-> <<"initial", r>>]
    /\ seen = << >>

-----------------------------------------------------------------------------
(* What register r holds when the k-th of the intrinsics begins.             *)
ValueAt(code, k, r) ==
    LET writes == {j \in 1..(k - 1) : code[j] = [name |-> "writeReg", reg |-> r]}
    IN IF writes = {} THEN regs[r] ELSE <<"hook", at, Max(writes)>>

ReadsOf(code) == {k \in DOMAIN code : code[k].name = "readReg"}

(* The hooks of an instruction run before it.                                *)
RunHooks ==
    /\ at \in DOMAIN app.hooks /\ ~ran
    /\ \E code \in {app.hooks[at].body, app.hooks[at].body \o app.hooks[at].guarded} :
          /\ seen' = [o \in {"intrinsic"} \X ReadsOf(code) |-> ValueAt(code, o[2], code[o[2]].reg)]
          /\ regs' = [r \in DOMAIN regs |-> ValueAt(code, Len(code) + 1, r)]
    /\ ran' = TRUE
    /\ UNCHANGED <<app, at, stack>>

(* The application executes an instruction.                                  *)
Execute ==
    /\ at # << >>
    /\ at \in DOMAIN app.hooks => ran
    /\ LET mi == MI(app, at)
       IN /\ CASE mi.op = "call" ->
                    at' = <<mi.callee, 1, 1>> /\ stack' = <<Following(app, at)>> \o stack
               [] mi.op = "return" -> at' = Head(stack) /\ stack' = Tail(stack)
               [] mi.op = "end" -> at' = << >> /\ stack' = << >>
               [] OTHER -> at' \in Successors(app, at) /\ UNCHANGED stack
          /\ seen' = [o \in {"operand"} \X mi.use |-> regs[o[2]]]
          /\ regs' = [r \in Needed(app, at', stack') |->
                         IF r \in mi.def THEN <<"def", at>> ELSE regs[r]]
    /\ ran' = FALSE
    /\ UNCHANGED app

Next == RunHooks \/ Execute

Spec == Init /\ [][Next]_vars
=============================================================================

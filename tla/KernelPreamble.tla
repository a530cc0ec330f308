---------------------------- MODULE KernelPreamble ----------------------------
(***************************************************************************)
(* The code put before a kernel to fill the state value array              *)
(* (PrePostAmbleEmitter).  Lifting enables in the function info the        *)
(* arguments the kernel had.  While payloads are lowered they ask for what *)
(* they will read from the array; when all are, the arguments asked for    *)
(* are enabled behind those and code is emitted that stores them.  Then    *)
(* the kernel is launched and the code runs, before the first instruction  *)
(* of the kernel.                                                          *)
(*                                                                         *)
(* SIMachineFunctionInfo gives arguments registers in the order of the     *)
(* calls that add them, and the GPU loads the enabled ones in the order of *)
(* the ABI: both are modelled, and they need not agree.                    *)
(***************************************************************************)
EXTENDS Naturals, Sequences, FiniteSets, TLC

LOCAL INSTANCE SequencesExt
LOCAL INSTANCE FiniteSetsExt

CONSTANTS
    Kernels,  \* kernels: the arguments their descriptors enable, and their metadata
    Requests  \* what payloads may ask for: a stack, or a kernel argument

(* PreloadedValue: user SGPRs, then system SGPRs, in the order of the ABI.   *)
PreloadedValues ==
    <<"PRIVATE_SEGMENT_BUFFER", "DISPATCH_PTR", "QUEUE_PTR", "KERNARG_SEGMENT_PTR",
      "DISPATCH_ID", "FLAT_SCRATCH_INIT", "WORKGROUP_ID_X", "PRIVATE_SEGMENT_WAVE_BYTE_OFFSET">>
System == {"WORKGROUP_ID_X", "PRIVATE_SEGMENT_WAVE_BYTE_OFFSET"}
Size(a) == CASE a = "PRIVATE_SEGMENT_BUFFER" -> 4 [] a \in System -> 1 [] OTHER -> 2

StoreSlot ==
    [KERNARG_SEGMENT_PTR |-> 15, HIDDEN_KERNARG_OFFSET |-> 17, USER_KERNARG_OFFSET |-> 18,
     DISPATCH_ID |-> 19, PRIVATE_SEGMENT_WAVE_BYTE_OFFSET |-> 21, DISPATCH_PTR |-> 22,
     QUEUE_PTR |-> 24, WORK_ITEM_PRIVATE_SEGMENT_SIZE |-> 26]
Stored == <<"KERNARG_SEGMENT_PTR", "DISPATCH_ID", "DISPATCH_PTR", "QUEUE_PTR">>

(* Arguments of the stack, which have no lane of their own.                  *)
StackArguments == {"WAVEFRONT_PRIVATE_SEGMENT_BUFFER", "FLAT_SCRATCH"}
KernelArgumentType == DOMAIN StoreSlot \cup StackArguments

Functions == {"kernel", "device"}

ASSUME PreambleAssumption ==
    /\ Kernels \subseteq [args : SUBSET ToSet(PreloadedValues), hasArgs : BOOLEAN, queueArg : BOOLEAN]
    /\ \A k \in Kernels : k.queueArg => k.hasArgs
    /\ Requests \subseteq Functions \X (KernelArgumentType \cup {"stack"})

VARIABLES
    kernel,    \* the kernel as it was
    info,      \* SIMachineFunctionInfo: arguments in the order they were added
    requested, \* RequestedKernelArguments of each function
    scratch,   \* RequiresScratchAndStackSetup of each function
    code,      \* preamble that is yet to run
    phase,     \* lower, run, done, or fatal: the process has ended
    sgprs,     \* register |-> value; others hold what they hold
    lanes      \* lane of the array |-> value, those that were written

vars == <<kernel, info, requested, scratch, code, phase, sgprs, lanes>>

-----------------------------------------------------------------------------
(* getPreloadedReg: the first register of a, as the function info has it.    *)
Index(on, a) == CHOOSE n \in DOMAIN on : on[n] = a
PreloadedReg(on, a) ==
    MapThenSumSet(Size, ToSet(SubSeq(on, 1, Index(on, a) - 1)) \ System)

(* Where the GPU loads a when `on` are enabled, and all that it loads.       *)
Place(a) == Index(PreloadedValues, a)
Position(on, a) == MapThenSumSet(Size, {b \in on : Place(b) < Place(a)})
Channels(on, a) == Position(on, a)..(Position(on, a) + Size(a) - 1)
Loaded(on) ==
    [r \in UNION {Channels(on, a) : a \in on} |->
        LET a == CHOOSE a \in on : r \in Channels(on, a) IN <<a, r - Position(on, a)>>]

(* The instrumented kernel has what the function info has, and the ids of    *)
(* work groups, which are attributes of the function.                        *)
Enabled(on) == ToSet(on) \cup (kernel.args \cap {"WORKGROUP_ID_X"})

(* initLiftedKernelEntry: QUEUE_PTR is added for a hidden argument only, and *)
(* DISPATCH_ID never.                                                        *)
LiftedArguments(k) ==
    SelectSeq(<<"DISPATCH_PTR", "PRIVATE_SEGMENT_BUFFER", "KERNARG_SEGMENT_PTR",
                "FLAT_SCRATCH_INIT", "PRIVATE_SEGMENT_WAVE_BYTE_OFFSET">>, LAMBDA a : a \in k.args)
    \o IF k.queueArg THEN <<"QUEUE_PTR">> ELSE << >>

Init ==
    /\ kernel \in Kernels
    /\ info = LiftedArguments(kernel)
    /\ requested = [f \in Functions |-> {}]
    /\ scratch = [f \in Functions |-> FALSE]
    /\ code = << >>
    /\ phase = "lower"
    /\ sgprs = << >> /\ lanes = << >>

(* A payload in function f reads a kernel argument from the array.  One that *)
(* has no lane is a fatal error.                                             *)
RequestKernelArgument(f, a) ==
    /\ phase = "lower" /\ a \in KernelArgumentType
    /\ IF a \in DOMAIN StoreSlot
       THEN requested' = [requested EXCEPT ![f] = @ \cup {a}] /\ UNCHANGED phase
       ELSE phase' = "fatal" /\ UNCHANGED requested
    /\ UNCHANGED <<kernel, info, scratch, code, sgprs, lanes>>

(* The prologue of a payload in function f needs a stack.                    *)
RequestStack(f) ==
    /\ phase = "lower"
    /\ scratch' = [scratch EXCEPT ![f] = TRUE]
    /\ UNCHANGED <<kernel, info, requested, code, phase, sgprs, lanes>>

-----------------------------------------------------------------------------
(* The lanes of the array.  StackLanes: where a payload finds s0-s3, s32,    *)
(* FLAT_SCR_LO and FLAT_SCR_HI; SpillLanes: where s0, s1 and the flat        *)
(* scratch are kept on the way.                                              *)
StackLanes == <<8, 9, 10, 11, 12, 13, 14>>
FLAT_SCR_LO == 102
FLAT_SCR_HI == 103
FrameRegs == <<0, 1, 2, 3, 32, FLAT_SCR_LO, FLAT_SCR_HI>>
SlipSpillLanes ==   \* the lanes of the stack
    [S0 |-> 8, S1 |-> 9, FLAT_SCR_LO |-> 13, FLAT_SCR_HI |-> 14]
SpillLanes == [S0 |-> 0, S1 |-> 1, FLAT_SCR_LO |-> 6, FLAT_SCR_HI |-> 7]

WriteLane(r, lane) == [op |-> "writelane", reg |-> r, lane |-> lane]
ReadLane(r, lane) == [op |-> "readlane", reg |-> r, lane |-> lane]
WriteImm(v, lane) == [op |-> "writeimm", value |-> v, lane |-> lane]
AddWaveOffset(r, offset) == [op |-> "add", reg |-> r, offset |-> offset]
MoveImm(r, v) == [op |-> "moveimm", reg |-> r, value |-> v]
Move(to, from, n) == [op |-> "move", to |-> to, from |-> from, n |-> n]

SetupScratch(on) ==
    LET psb == PreloadedReg(on, "PRIVATE_SEGMENT_BUFFER")
        fs == PreloadedReg(on, "FLAT_SCRATCH_INIT")
        pswo == PreloadedReg(on, "PRIVATE_SEGMENT_WAVE_BYTE_OFFSET")
    IN <<WriteLane(psb, SpillLanes.S0), WriteLane(psb + 1, SpillLanes.S1),
         WriteLane(fs, SpillLanes.FLAT_SCR_LO), WriteLane(fs + 1, SpillLanes.FLAT_SCR_HI),
         AddWaveOffset(psb, pswo), AddWaveOffset(fs, pswo), MoveImm(32, <<"fixed size", 0>>)>>
       \o [k \in DOMAIN FrameRegs |-> WriteLane(FrameRegs[k], StackLanes[k])]
       \o <<ReadLane(0, SpillLanes.S0), ReadLane(1, SpillLanes.S1),
            ReadLane(fs, SpillLanes.FLAT_SCR_LO), ReadLane(fs + 1, SpillLanes.FLAT_SCR_HI)>>

(* emitCodeToStoreSGPRKernelArg for each argument asked for, and the number. *)
StoreKernelArguments(on, wanted) ==
    FlattenSeq([k \in DOMAIN Stored |->
        LET a == Stored[k]
        IN IF a \in wanted
           THEN [i \in 1..Size(a) |-> WriteLane(PreloadedReg(on, a) + i - 1, StoreSlot[a] + i - 1)]
           ELSE << >>])
    \o IF "HIDDEN_KERNARG_OFFSET" \in wanted
       THEN <<WriteImm(<<"hidden offset", 0>>, StoreSlot.HIDDEN_KERNARG_OFFSET)>> ELSE << >>

(* "Put every SGPR argument back in its place": those that the function info *)
(* has elsewhere now.  It never has, so that nothing is moved.               *)
Displaced(old, on) == {a \in ToSet(old) : PreloadedReg(old, a) # PreloadedReg(on, a)}
ReturnSGPRArgs(old, on, order) ==
    FlattenSeq([k \in DOMAIN order |->
        LET a == order[k]
            to == PreloadedReg(old, a)
            from == PreloadedReg(on, a)
        IN IF Size(a) <= 2 THEN <<Move(to, from, Size(a))>>
           ELSE [i \in 1..(Size(a) \div 2) |-> Move(to + i - 1, from + i - 1, 2)]])

(* doesLRRequireSVA.  Nothing sets UsesStateValueArray of a device function. *)
RequiresSVA == requested["kernel"] # {} \/ scratch["kernel"]
RequiresAccessToScratch == scratch["kernel"] \/ requested["kernel"] \cap StackArguments # {}

(* The enable functions: what is preloaded already stays as it is.           *)
Enable(these) == info \o SelectSeq(these, LAMBDA a : a \notin ToSet(info))
EnableRequested ==
    Enable((IF RequiresAccessToScratch
            THEN <<"PRIVATE_SEGMENT_BUFFER", "FLAT_SCRATCH_INIT", "PRIVATE_SEGMENT_WAVE_BYTE_OFFSET">>
            ELSE << >>)
           \o SelectSeq(Stored, LAMBDA a : a \in requested["kernel"]))

(* PrePostAmbleEmitter::run, and the launch of the kernel.  The offset of    *)
(* the hidden arguments of a kernel without arguments is a fatal error.      *)
EmitPreamble ==
    /\ phase = "lower"
    /\ IF RequiresSVA
       THEN /\ info' = EnableRequested
            /\ \E order \in SetToSeqs(Displaced(info, info')) :
                  code' = (IF RequiresAccessToScratch THEN SetupScratch(info') ELSE << >>)
                          \o StoreKernelArguments(info', requested["kernel"])
                          \o ReturnSGPRArgs(info, info', order)
            /\ phase' = IF "HIDDEN_KERNARG_OFFSET" \in requested["kernel"] /\ ~kernel.hasArgs
                        THEN "fatal" ELSE "run"
       ELSE phase' = "run" /\ UNCHANGED <<info, code>>
    /\ sgprs' = Loaded(Enabled(info'))
    /\ UNCHANGED <<kernel, requested, scratch, lanes>>

-----------------------------------------------------------------------------
(* The GPU runs the preamble.                                                *)
Value(r) == IF r \in DOMAIN sgprs THEN sgprs[r] ELSE <<"any", r>>
Instr == Head(code)

Execute ==
    /\ phase = "run" /\ code # << >>
    /\ sgprs' =
          CASE Instr.op = "readlane" -> (Instr.reg :> lanes[Instr.lane]) @@ sgprs
            [] Instr.op = "moveimm" -> (Instr.reg :> Instr.value) @@ sgprs
            [] Instr.op = "add" ->
                 [r \in {Instr.reg, Instr.reg + 1} |->
                     <<"plus wave offset", Value(r), Value(Instr.offset)>>] @@ sgprs
            [] Instr.op = "move" ->
                 [r \in Instr.to..(Instr.to + Instr.n - 1) |->
                     Value(Instr.from + (r - Instr.to))] @@ sgprs
            [] OTHER -> sgprs
    /\ lanes' =
          CASE Instr.op = "writelane" -> (Instr.lane :> Value(Instr.reg)) @@ lanes
            [] Instr.op = "writeimm" -> (Instr.lane :> Instr.value) @@ lanes
            [] OTHER -> lanes
    /\ code' = Tail(code)
    /\ UNCHANGED <<kernel, info, requested, scratch, phase>>

Begin ==
    /\ phase = "run" /\ code = << >>
    /\ phase' = "done"
    /\ UNCHANGED <<kernel, info, requested, scratch, code, sgprs, lanes>>

Ended == phase \in {"done", "fatal"} /\ UNCHANGED vars

Next ==
    \/ \E req \in Requests :
          \/ req[2] = "stack" /\ RequestStack(req[1])
          \/ RequestKernelArgument(req[1], req[2])
    \/ EmitPreamble \/ Execute \/ Begin \/ Ended

Spec == Init /\ [][Next]_vars

-----------------------------------------------------------------------------
InPlace(a) == \A r \in Channels(kernel.args, a) : Value(r) = <<a, r - Position(kernel.args, a)>>

(* The function info has a where the GPU loads it: what was added before it  *)
(* is what the ABI has before it.                                            *)
Known(a) ==
    \A b \in (IF a \in System THEN Enabled(info) ELSE Enabled(info) \ System) \ {a} :
        Place(b) < Place(a) <=> b \in ToSet(info) /\ Index(info, b) < Index(info, a)
StackKnown == RequiresAccessToScratch => Known("PRIVATE_SEGMENT_BUFFER")

(* The kernel finds an argument of its own where it expects it, with the     *)
(* value it expects although the stack of the payloads has been set up in    *)
(* these registers, unless an argument that the ABI has before it has been   *)
(* enabled or lost, or the stack was set up from other registers than the    *)
(* buffer's.                                                                 *)
ArgumentsKept ==
    phase = "done" =>
        \A a \in kernel.args \cap Enabled(info) :
            \/ InPlace(a)
            \/ \E b \in SymDiff(Enabled(info), kernel.args) : Place(b) < Place(a)
            \/ ~StackKnown


(* What a comment promises, and the moves that are never emitted were for.   *)
ArgumentsInPlace == phase = "done" => \A a \in kernel.args \cap Enabled(info) : InPlace(a)

(* The function info has every argument of the kernel where the GPU loads it *)
(* before any is enabled for payloads.                                       *)
LiftedKnown ==
    phase = "lower" => \A a \in ToSet(info) : PreloadedReg(info, a) = Position(Enabled(info), a)

(* Every function's payloads, the kernel's or one's that it calls, read what *)
(* they asked for.                                                           *)
AllRequestsServed ==
    phase = "done" =>
        \A f \in Functions : \A a \in requested[f] \cap ToSet(Stored) :
            StoreSlot[a] \in DOMAIN lanes /\ lanes[StoreSlot[a]] = <<a, 0>>
=============================================================================

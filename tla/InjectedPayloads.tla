--------------------------- MODULE InjectedPayloads ---------------------------
(***************************************************************************)
(* From the hooks a tool asks for to the instrumented application.  For    *)
(* each instruction with hooks one function, its payload, is generated     *)
(* (IModuleIRGeneratorPass); after instruction selection each payload has  *)
(* its physical registers saved and made virtual, block by block           *)
(* (PhysicalRegAccessVirtualizationPass), and its intrinsics lowered, one  *)
(* by one (IntrinsicMIRLoweringPass).  Then the payloads are placed at the *)
(* end of the functions they belong to, with a jump to and fro, or, if an  *)
(* option says so, in the midst of them (PatchLiftedRepresentationPass).   *)
(* Last the application runs.                                              *)
(*                                                                         *)
(* The register allocator is taken to use, between the copies at the begin *)
(* and at the end of a payload, every register of the application.         *)
(***************************************************************************)
EXTENDS ApplicationCode, TLC

LOCAL INSTANCE SequencesExt

VARIABLES
    app,         \* see ApplicationCode
    phase,       \* generate, visit, lower, run
    built,       \* m |-> the blocks of its payload, once through the passes
    saved,       \* PhysicalLiveInsForInjectedPayload, kept between payloads
    current,     \* the payload in the passes
    code,        \* its blocks
    queue, visited,  \* ToBeVisitedMBBs, VisitedMBBs
    virt,        \* operand |-> the virtual register it uses
    uses,        \* those operands, in the order of the use lists
    mbb,         \* the block the lowering is in
    overwritten, \* MBBOverwrittenPhysRegs
    patched,     \* the instructions whose payload is in place
    layout,      \* the blocks of each function of the application, in order
    blocks,      \* and their instructions
    pc, frames,  \* the place in them, and where calls go on
    phys, env,   \* physical and virtual registers
    log,         \* what the payload in progress has read
    ran, seen, before  \* hooks of the next instruction are done; what was
                       \* looked at; registers when the payload began

passes == <<built, saved, current, code, queue, visited, virt, uses, mbb, overwritten>>
machine == <<pc, frames, phys, env, log, ran, seen, before>>
vars == <<app, phase, passes, patched, layout, blocks, machine>>

Empty == << >>

Init ==
    /\ app \in Analyzed
    /\ phase = "generate"
    /\ built = Empty /\ saved = {} /\ current = Empty /\ code = Empty
    /\ queue = << >> /\ visited = {}
    /\ virt = Empty /\ uses = << >> /\ mbb = 1 /\ overwritten = Empty
    /\ patched = {}
    /\ layout = [f \in DOMAIN app.mfs |->
                    [b \in DOMAIN app.mfs[f] |-> <<"app", <<f, b>>>>]]
    /\ blocks = [id \in UNION {ToSet(layout[f]) : f \in DOMAIN layout} |->
                    [i \in DOMAIN app.mfs[id[2][1]][id[2][2]] |->
                        [op |-> "app", mi |-> <<id[2][1], id[2][2], i>>]]]
    /\ pc = <<layout[1][1], 1>> /\ frames = << >>
    /\ phys = [r \in Regs |-> <<"initial", r>>]
    /\ env = Empty /\ log = Empty
    /\ ran = FALSE /\ seen = Empty /\ before = phys

-----------------------------------------------------------------------------
(* IModuleIRGeneratorPass, and instruction selection with the placeholders   *)
(* of ProcessIntrinsicsAtIRLevelPass.                                        *)

Placeholders(intrinsics, from) ==
    [k \in DOMAIN intrinsics |->
        [op |-> "asm", name |-> intrinsics[k].name, reg |-> intrinsics[k].reg, k |-> from + k]]

Return == [op |-> "return"]
IsReturnBlock(b) == Last(b).op = "return"

Selected(h) ==
    LET entry == <<[op |-> "clobber"]>> \o Placeholders(h.body, 0)
    IN IF h.guarded = << >> THEN <<Append(entry, Return)>>
       ELSE <<Append(entry, [op |-> "maybe", to |-> 3]),
              Placeholders(h.guarded, Len(h.body)), <<Return>>>>

InjectedPayloadMF(m) == Selected(app.hooks[m])
Accessed(m) == HookRegs(app, m)

(* The call instructions that may lead to function f.                        *)
CallSites(f) ==
    {c \in MIs(app) : /\ MI(app, c).op = "call"
                      /\ app.deterministic => MI(app, c).callee = f}

(* PhysRegsNotInLiveInsAnalysis.                                             *)
PhysRegsNotInLiveIns == UNION {Accessed(m) \ app.live[m] : m \in DOMAIN app.hooks}

SlipLiveIns(m) == app.live[m] \cup PhysRegsNotInLiveIns   \* no call sites
(* A device function is taken to need what is live where it may be called.   *)
CallSiteLiveIns(m) ==
    IF m[1] = 1 THEN {} ELSE UNION {app.live[c] : c \in CallSites(m[1])}
LiveIns(m) == app.live[m] \cup CallSiteLiveIns(m) \cup PhysRegsNotInLiveIns

CopyIns(regs, kind) ==
    LET order == SetToSeq(regs)
    IN [k \in DOMAIN order |-> [op |-> "copyIn", reg |-> order[k], to |-> <<kind, order[k]>>]]
CopyOuts(regs, n) ==
    LET order == SetToSeq(regs)
    IN [k \in DOMAIN order |-> [op |-> "copyOut", reg |-> order[k], operand |-> <<"out", order[k], n>>]]
BeforeReturn(b, copies) == Front(b) \o copies \o <<Last(b)>>
OperandsOf(copies) == [k \in DOMAIN copies |-> copies[k].operand]

(* A payload begins; the registers it does not access are preserved.         *)
Preserve(m) ==
    /\ phase = "generate" /\ m \notin DOMAIN built
    /\ current' = m
    /\ saved' = saved \cup LiveIns(m)
    /\ LET rest == saved' \ Accessed(m)
           mf == InjectedPayloadMF(m)
           outs == CopyOuts(rest, 0)
       IN /\ code' = [b \in DOMAIN mf |->
                         LET copied == IF b = 1 THEN CopyIns(rest, "preserved") \o mf[b] ELSE mf[b]
                         IN IF IsReturnBlock(mf[b]) THEN BeforeReturn(copied, outs) ELSE copied]
          /\ virt' = [o \in ToSet(OperandsOf(outs)) |-> <<"preserved", o[2]>>]
          /\ uses' = OperandsOf(outs)
    /\ queue' = <<1>> /\ visited' = {}
    /\ phase' = "visit"
    /\ UNCHANGED <<app, built, mbb, overwritten, patched, layout, blocks, machine>>

PayloadSuccessors(b) ==
    IF IsReturnBlock(code[b]) THEN << >>
    ELSE IF Last(code[b]).op = "maybe" THEN <<b + 1, Last(code[b]).to>> ELSE <<b + 1>>

(* The SSA updater of a register is only ever told of the copy the entry     *)
(* block makes, so that it is what the updater answers in every block.       *)
SlipLocation(r) == <<"preserved", r>>   \* the map of the other copies
Location(r) == <<"accessed", r>>

(* One block of the traversal.  It counts as visited when it leaves the      *)
(* queue, in which it may be twice.                                          *)
VisitBlock ==
    LET b == Head(queue)
        regs == Accessed(current)
        turn == 1 + Cardinality({k \in DOMAIN uses : uses[k][3] # 0 /\ \E r \in regs : uses[k][2] = r})
        outs == CopyOuts(regs, turn)
        entered == IF b = 1 THEN CopyIns(regs, "accessed") \o code[b] ELSE code[b]
    IN /\ phase = "visit" /\ queue # << >>
       /\ IF IsReturnBlock(code[b])
          THEN /\ code' = [code EXCEPT ![b] = BeforeReturn(entered, outs)]
               /\ virt' = virt @@ [o \in ToSet(OperandsOf(outs)) |-> Location(o[2])]
               /\ uses' = uses \o OperandsOf(outs)
          ELSE /\ code' = [code EXCEPT ![b] = entered]
               /\ UNCHANGED <<virt, uses>>
       /\ queue' = Tail(queue) \o SelectSeq(PayloadSuccessors(b), LAMBDA s : s \notin visited)
       /\ visited' = visited \cup {b}
       /\ UNCHANGED <<app, phase, built, saved, current, mbb, overwritten, patched,
                      layout, blocks, machine>>

Visited ==
    /\ phase = "visit" /\ queue = << >>
    /\ phase' = "lower"
    /\ mbb' = 1 /\ overwritten' = Empty
    /\ UNCHANGED <<app, built, saved, current, code, queue, visited, virt, uses,
                   patched, layout, blocks, machine>>

-----------------------------------------------------------------------------
(* IntrinsicMIRLoweringPass.                                                 *)

PhysRegAccessor(r) == IF r \in DOMAIN overwritten THEN overwritten[r] ELSE Location(r)

AsmsIn(b) == {i \in DOMAIN code[b] : code[b][i].op = "asm"}
Placeholder == CHOOSE i \in AsmsIn(mbb) : \A j \in AsmsIn(mbb) : i <= j

LowerReadReg ==
    /\ phase = "lower" /\ mbb <= Len(code) /\ AsmsIn(mbb) # {}
    /\ LET asm == code[mbb][Placeholder]
           operand == <<"read", asm.reg, asm.k>>
       IN /\ asm.name = "readReg"
          /\ code' = [code EXCEPT ![mbb][Placeholder] =
                         [op |-> "read", k |-> asm.k, operand |-> operand]]
          /\ virt' = virt @@ (operand :> PhysRegAccessor(asm.reg))
          /\ uses' = Append(uses, operand)
    /\ UNCHANGED <<app, phase, built, saved, current, queue, visited, mbb, overwritten,
                   patched, layout, blocks, machine>>

UsesOf(v) == SelectSeq(uses, LAMBDA o : virt[o] = v)

(* The loop over the uses of the old register sets the first of them to the  *)
(* new one, which moves it to the end of the other's list and ends the loop. *)
LowerWriteReg ==
    /\ phase = "lower" /\ mbb <= Len(code) /\ AsmsIn(mbb) # {}
    /\ LET asm == code[mbb][Placeholder]
           new == <<"written", asm.k>>
           old == UsesOf(PhysRegAccessor(asm.reg))
       IN /\ asm.name = "writeReg"
          /\ code' = [code EXCEPT ![mbb][Placeholder] = [op |-> "write", k |-> asm.k, to |-> new]]
          /\ IF old = << >> THEN UNCHANGED <<virt, uses>>
             ELSE /\ virt' = [virt EXCEPT ![old[1]] = new]
                  /\ uses' = Append(Remove(uses, old[1]), old[1])
          /\ overwritten' = (asm.reg :> new) @@ overwritten
    /\ UNCHANGED <<app, phase, built, saved, current, queue, visited, mbb, patched,
                   layout, blocks, machine>>

LowerNextBlock ==
    /\ phase = "lower" /\ mbb <= Len(code) /\ AsmsIn(mbb) = {}
    /\ mbb' = mbb + 1
    /\ overwritten' = Empty
    /\ UNCHANGED <<app, phase, built, saved, current, code, queue, visited, virt, uses,
                   patched, layout, blocks, machine>>

WithRegister(i) ==
    ("of" :> current) @@
    CASE i.op = "read" -> [op |-> "read", k |-> i.k, from |-> virt[i.operand]]
      [] i.op = "copyOut" -> [op |-> "copyOut", reg |-> i.reg, from |-> virt[i.operand]]
      [] OTHER -> i

PayloadBuilt ==
    /\ phase = "lower" /\ mbb > Len(code)
    /\ built' = (current :> [b \in DOMAIN code |->
                                [i \in DOMAIN code[b] |-> WithRegister(code[b][i])]]) @@ built
    /\ current' = Empty /\ code' = Empty /\ visited' = {} /\ virt' = Empty /\ uses' = << >>
    /\ phase' = IF DOMAIN built' = DOMAIN app.hooks THEN "patch" ELSE "generate"
    /\ UNCHANGED <<app, saved, queue, mbb, overwritten, patched, layout, blocks, machine>>

-----------------------------------------------------------------------------
(* PatchLiftedRepresentationPass.                                            *)

(* decidePatchingMethod.  A branch that cannot reach its target any more     *)
(* changes nothing, for the map has an entry and keeps it.                   *)
PatchingMethod == IF app.outline THEN "OUTLINE" ELSE "INLINE"

BlockOf(m) == CHOOSE id \in DOMAIN blocks : [op |-> "app", mi |-> m] \in ToSet(blocks[id])
IndexOf(m) == CHOOSE i \in DOMAIN blocks[BlockOf(m)] :
                  blocks[BlockOf(m)][i] = [op |-> "app", mi |-> m]

(* The blocks of m's function, with others in the place of m's.              *)
Spliced(m, ids) ==
    LET order == layout[m[1]]
        place == CHOOSE p \in DOMAIN order : order[p] = BlockOf(m)
    IN SubSeq(order, 1, place - 1) \o ids \o SubSeq(order, place + 1, Len(order))

(* The borders of a payload: jumps when it is outlined, and no instructions  *)
(* at all (to is << >>) when it is not.                                      *)
Enter(m, to) == [op |-> "enter", of |-> m, to |-> to]
Leave(m, to) == [op |-> "leave", of |-> m, to |-> to]

(* Block b of the payload, where block c of it goes to MBBMap[c].            *)
Clone(m, b, MBBMap, jumpTo) ==
    [i \in DOMAIN built[m][b] |->
        CASE built[m][b][i].op = "return" -> Leave(m, jumpTo)
          [] built[m][b][i].op = "maybe" ->
                [op |-> "maybe", of |-> m, to |-> MBBMap[built[m][b][i].to]]
          [] OTHER -> built[m][b][i]]

(* The block of m is split before m; if m comes first, a block is made to go *)
(* before it, to which no branch is turned.                                  *)
OutlineInjectedPayload(m) ==
    LET id == BlockOf(m)
        i == IndexOf(m)
        from == IF i = 1 THEN <<"from", m>> ELSE id
        to == IF i = 1 THEN id ELSE <<"to", m>>
        ids == [b \in DOMAIN built[m] |-> <<"payload", m, b>>]
        split == (from :> Append(SubSeq(blocks[id], 1, i - 1), Enter(m, ids[1]))) @@
                 (to :> SubSeq(blocks[id], i, Len(blocks[id])))
    IN /\ phase = "patch" /\ m \notin patched /\ PatchingMethod = "OUTLINE"
       /\ layout' = [layout EXCEPT ![m[1]] =
                        Spliced(m, <<from, to>>) \o ids]
       /\ blocks' = [p \in ToSet(ids) |-> Clone(m, p[3], ids, to)] @@ split @@ blocks
       /\ patched' = patched \cup {m}
       /\ UNCHANGED <<app, phase, passes, machine>>

(* Where inlineInjectedPayload puts the blocks of a payload that has several:*)
(* the first at the end of what comes before m, or in a block of its own if  *)
(* nothing does, the one that returns at the front of m's block.             *)
InlinedBlocks(m) ==
    LET first == IndexOf(m) = 1
    IN [b \in DOMAIN built[m] |->
           CASE b = 1 /\ ~first -> BlockOf(m)
             [] b = Len(built[m]) -> IF first THEN BlockOf(m) ELSE <<"to", m>>
             [] OTHER -> <<"payload", m, b>>]

(* A payload of one block goes to the front of m's block, wherever m is.     *)
InlineInjectedPayload(m) ==
    LET id == BlockOf(m)
        i == IndexOf(m)
        size == Len(built[m])
        ids == IF size = 1 THEN <<id>> ELSE InlinedBlocks(m)
        cloned(b) == Clone(m, b, ids, << >>)
        split == IF size = 1 THEN id :> (<<Enter(m, << >>)>> \o cloned(1) \o blocks[id])
                 ELSE (ids[1] :> (SubSeq(blocks[id], 1, i - 1) \o <<Enter(m, << >>)>> \o cloned(1))) @@
                      (ids[size] :> (cloned(size) \o SubSeq(blocks[id], i, Len(blocks[id])))) @@
                      [p \in {ids[b] : b \in 2..(size - 1)} |-> cloned(p[3])]
    IN /\ phase = "patch" /\ m \notin patched /\ PatchingMethod = "INLINE"
       /\ layout' = [layout EXCEPT ![m[1]] = Spliced(m, ids)]
       /\ blocks' = split @@ blocks
       /\ patched' = patched \cup {m}
       /\ UNCHANGED <<app, phase, passes, machine>>

Launch ==
    /\ phase = "patch" /\ patched = DOMAIN app.hooks
    /\ phase' = "run"
    /\ pc' = <<layout[1][1], 1>>
    /\ UNCHANGED <<app, passes, patched, layout, blocks, frames, phys, env, log, ran, seen, before>>

-----------------------------------------------------------------------------
(* The GPU.                                                                  *)

Instr == blocks[pc[1]][pc[2]]
InPayload == pc # << >> /\ Instr.op \notin {"app", "enter"}
Running(op) == phase = "run" /\ pc # << >> /\ Instr.op = op

After(p) ==
    IF p[2] < Len(blocks[p[1]]) THEN <<p[1], p[2] + 1>>
    ELSE LET f == CHOOSE f \in DOMAIN layout : p[1] \in ToSet(layout[f])
             n == CHOOSE n \in DOMAIN layout[f] : layout[f][n] = p[1]
         IN <<layout[f][n + 1], 1>>

Junk == <<"junk">>
Held(v) == IF v \in DOMAIN env THEN env[v] ELSE Junk

RunApplication ==
    /\ Running("app")
    /\ LET mi == MI(app, Instr.mi)
       IN /\ CASE mi.op = "call" ->
                    pc' = <<layout[mi.callee][1], 1>> /\ frames' = <<After(pc)>> \o frames
               [] mi.op = "return" -> pc' = Head(frames) /\ frames' = Tail(frames)
               [] mi.op = "end" -> pc' = << >> /\ frames' = << >>
               [] mi.op = "branch" ->
                    /\ pc' \in {After(pc), <<<<"app", <<Instr.mi[1], mi.to>>>>, 1>>}
                    /\ UNCHANGED frames
               [] mi.op = "op" -> pc' = After(pc) /\ UNCHANGED frames
          /\ seen' = [o \in {"operand"} \X mi.use |-> phys[o[2]]]
          /\ phys' = [r \in Regs |-> IF r \in mi.def THEN <<"def", Instr.mi>> ELSE phys[r]]
    /\ ran' = FALSE
    /\ UNCHANGED <<app, phase, passes, patched, layout, blocks, env, log, before>>

Border == IF Instr.to = << >> THEN After(pc) ELSE <<Instr.to, 1>>

RunEnter ==
    /\ Running("enter")
    /\ pc' = Border
    /\ before' = phys
    /\ UNCHANGED <<app, phase, passes, patched, layout, blocks, frames, phys, env, log,
                   ran, seen>>

RunLeave ==
    /\ Running("leave")
    /\ pc' = Border
    /\ ran' = TRUE /\ seen' = log
    /\ env' = Empty /\ log' = Empty
    /\ UNCHANGED <<app, phase, passes, patched, layout, blocks, frames, phys, before>>

RunMaybe ==
    /\ Running("maybe")
    /\ pc' \in {After(pc), <<Instr.to, 1>>}
    /\ UNCHANGED <<app, phase, passes, patched, layout, blocks, frames, phys, env, log,
                   ran, seen, before>>

(* The instructions of a payload that stay in their block.                   *)
RunPayload ==
    /\ phase = "run" /\ InPayload
    /\ Instr.op \in {"copyIn", "copyOut", "clobber", "read", "write"}
    /\ env' = CASE Instr.op = "copyIn" -> (Instr.to :> phys[Instr.reg]) @@ env
                [] Instr.op = "write" -> (Instr.to :> <<"hook", Instr.of, Instr.k>>) @@ env
                [] OTHER -> env
    /\ phys' = CASE Instr.op = "copyOut" -> [phys EXCEPT ![Instr.reg] = Held(Instr.from)]
                 [] Instr.op = "clobber" -> [r \in Regs |-> Junk]
                 [] OTHER -> phys
    /\ log' = IF Instr.op = "read"
              THEN (<<"intrinsic", Instr.k>> :> Held(Instr.from)) @@ log ELSE log
    /\ pc' = After(pc)
    /\ UNCHANGED <<app, phase, passes, patched, layout, blocks, frames, ran, seen, before>>

Ended == pc = << >> /\ UNCHANGED vars

Next ==
    \/ \E m \in DOMAIN app.hooks :
          Preserve(m) \/ OutlineInjectedPayload(m) \/ InlineInjectedPayload(m)
    \/ VisitBlock \/ Visited
    \/ LowerReadReg \/ LowerWriteReg \/ LowerNextBlock \/ PayloadBuilt
    \/ Launch
    \/ RunApplication \/ RunEnter \/ RunLeave \/ RunMaybe \/ RunPayload
    \/ Ended

Spec == Init /\ [][Next]_vars

-----------------------------------------------------------------------------
(* The instruction of the application that comes next.                       *)
AppPlace(p) ==
    IF p = << >> THEN << >>
    ELSE LET i == blocks[p[1]][p[2]] IN IF i.op = "app" THEN i.mi ELSE i.of

Stack == [k \in DOMAIN frames |-> AppPlace(frames[k])]

(* While a payload runs its registers belong to it, and those of the         *)
(* application are as they were when it began.                               *)
HA == INSTANCE HookedApplication
          WITH at <- AppPlace(pc), stack <- Stack,
               regs <- [r \in Needed(app, AppPlace(pc), Stack) |->
                           IF InPayload THEN before[r] ELSE phys[r]]

(* insertHookBefore, writeReg, readReg: the instrumented application is the  *)
(* application with its hooks run, whole and in order, before the            *)
(* instructions they were asked for, and nothing else that it can observe.   *)
ImplementsHookedApplication == HA!Spec

(* No instruction of a payload uses a virtual register that the path to it   *)
(* has not set; register allocation rejects a function where one may.        *)
UsesDominated ==
    phase = "run" /\ InPayload /\ Instr.op \in {"read", "copyOut"} =>
        Instr.from \in DOMAIN env
=============================================================================

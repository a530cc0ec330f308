----------------------------- MODULE CodeLifting -----------------------------
(***************************************************************************)
(* CodeLifter: a function of a loaded code object becomes a LLVM machine   *)
(* function.  disassemble cuts the bytes into instructions and notes the   *)
(* targets of direct branches, liftFunction rebuilds basic blocks and      *)
(* operands one instruction at a time and links the branches at the end,   *)
(* and cloneRepresentation copies the result for an instrumentation.       *)
(*                                                                         *)
(* Addresses count words of four bytes from the start of the function; a   *)
(* relocation sits at the second word of a two-word instruction.  The      *)
(* names, the module and the target machine around a function are left     *)
(* out: they are containers that liftFunction only looks symbols up in.    *)
(***************************************************************************)
EXTENDS Naturals, Sequences, FiniteSets, SequencesExt

CONSTANTS
    Programs,      \* functions to lift: sequences of Instr
    MaxAttempts    \* bound: how often the tool asks to lift the function

Symbols == {"variable", "function", "section"}
Ops == {"valu", "barrier", "wait", "literal", "cbranch", "branch", "endpgm",
        "setpc", "data"}
Instr == [op : Ops, sym : Symbols \cup {"none"}, to : Nat]

ASSUME CodeLiftingAssumption ==
    /\ \A p \in Programs : p \in Seq(Instr) /\ p # << >>
    /\ \A p \in Programs : \A i \in DOMAIN p : p[i].sym # "none" => p[i].op = "literal"
    /\ MaxAttempts \in Nat \ {0}

VARIABLES
    code,      \* the bytes of the function, as the GPU decodes them
    phase,     \* disassemble, lift, resolve, failed, lifted, cloned
    attempts,
    instrs,    \* MCDisassembledSymbols: address and size of each instruction
    targets,   \* DirectBranchTargetLocations
    relocs,    \* Relocations: the entry of the code object and its table
    blocks,    \* basic blocks made so far, each with its instructions
    succ,      \* successor edges between blocks
    ops,       \* operands of the instructions made so far
    labels,    \* BranchTargetMBBs: target address to block
    pending,   \* UnresolvedBranchMIs: target address and branch
    copy       \* the cloned representation

mf == <<blocks, succ, ops, labels, pending>>
vars == <<code, phase, attempts, instrs, targets, relocs, mf, copy>>

NoRelocs == [cached |-> FALSE, table |-> {}]
NoCopy == [succ |-> {}, ops |-> << >>, origin |-> << >>]

(* What the instruction descriptions of LLVM say of an opcode.               *)
Words(op) == IF op = "literal" THEN 2 ELSE 1
Operands(op) == CASE op \in {"valu", "setpc"} -> <<"reg">>
                  [] op = "barrier" -> << >>
                  [] op = "literal" -> <<"reg", "imm">>
                  [] OTHER -> <<"imm">>
IsDirectBranch(op) == op \in {"cbranch", "branch"}
IsTerminator(op) == op \in {"cbranch", "branch", "endpgm", "setpc"}
IsUnconditionalBranch(op) == op = "branch"
ShouldReadExec(op) == op = "valu"

(* One word for each instruction before, and another for the long ones.      *)
Address(p) ==
    [i \in DOMAIN p |-> i - 1 + Cardinality({j \in 1..(i - 1) : Words(p[j].op) = 2})]
Here == Address(code)

-----------------------------------------------------------------------------
Init ==
    /\ code \in Programs
    /\ phase = "disassemble"
    /\ attempts = 1
    /\ instrs = << >>
    /\ targets = {}
    /\ relocs = NoRelocs
    /\ blocks = << << >> >>
    /\ succ = {}
    /\ ops = << >>
    /\ labels = << >>
    /\ pending = {}
    /\ copy = NoCopy

(* The size disassemble gives an instruction: the distance to the address of *)
(* the one before it.                                                        *)
SizeOf(i) == IF i = 1 THEN 0 ELSE Here[i] - Here[i - 1]

EvaluateBranch(i) == code[i].to

(* CodeLifter::disassemble: nothing is cached of a function with a word the  *)
(* disassembler does not know.                                               *)
Disassemble ==
    /\ phase = "disassemble"
    /\ IF \E i \in DOMAIN code : code[i].op = "data"
       THEN /\ phase' = "failed"
            /\ UNCHANGED <<instrs, targets>>
       ELSE /\ phase' = "lift"
            /\ instrs' = [i \in DOMAIN code |->
                             [addr |-> Here[i], size |-> SizeOf(i)]]
            /\ targets' = {EvaluateBranch(i) :
                           i \in {j \in DOMAIN code : IsDirectBranch(code[j].op)}}
    /\ UNCHANGED <<code, attempts, relocs, mf, copy>>

(* The relocations of the storage ELF; its sections list them by address.    *)
RelocationsOf(p) ==
    {[at |-> Address(p)[i] + 1, sym |-> p[i].sym] : i \in {i \in DOMAIN p : p[i].sym # "none"}}

(* What the first query of a code object leaves in Relocations: it stops at  *)
(* a symbol that is not one of the code object's symbols.                    *)
Filled ==
    {r \in RelocationsOf(code) :
        \A b \in RelocationsOf(code) : b.sym = "section" => r.at < b.at}

QueryFails == ~relocs.cached /\ \E r \in RelocationsOf(code) : r.sym = "section"

Table == IF relocs.cached THEN relocs.table ELSE Filled

SlipHits(i) == {r \in Table : r.at >= instrs[i].addr /\ r.at < instrs[i].addr + instrs[i].size}
(* The relocations resolveRelocation finds in an instruction: the search     *)
(* includes the address after its end.                                       *)
Hits(i) == {r \in Table : r.at \in instrs[i].addr..(instrs[i].addr + instrs[i].size)}

(* An operand of the machine instruction.  The immediate of a direct branch  *)
(* is left for the resolution of branches.                                   *)
LiftOperand(i, kind) ==
    IF kind = "imm" /\ Hits(i) # {}
    THEN LET r == CHOOSE r \in Hits(i) : \A s \in Hits(i) : r.at <= s.at
         IN << <<"symbol", r.sym>> >>
    ELSE IF kind = "imm" /\ IsDirectBranch(code[i].op)
         THEN << >> ELSE << <<kind>> >>

(* Registers come before immediates, and the implicit read of EXEC is last.  *)
LiftOperands(i) ==
    LET lifted(kind) == IF kind \in ToSet(Operands(code[i].op))
                        THEN LiftOperand(i, kind) ELSE << >>
    IN lifted("reg") \o lifted("imm")
       \o (IF ShouldReadExec(code[i].op) THEN << <<"exec">> >> ELSE << >>)

(* A branch target begins a block, unless the current one is still empty.    *)
StartsBlock(i) == Last(blocks) # << >> /\ instrs[i].addr \in targets

SlipFallsThrough(op) == ~IsDirectBranch(op)
(* A terminator is followed by its block unless it branches unconditionally; *)
(* the end of the program and an indirect branch do not count as that.       *)
FallsThrough(op) == ~IsUnconditionalBranch(op)

(* Branches whose targets are still to be resolved, and the end of a block:  *)
(* the last instruction of the function needs no next one.                   *)
Unresolved(i) ==
    IF IsDirectBranch(code[i].op)
    THEN pending \cup {<<EvaluateBranch(i), i>>} ELSE pending
Closes(i) == IsTerminator(code[i].op) /\ i < Len(code)

(* liftFunction, one turn of its loop.                                       *)
LiftInstr ==
    LET i == Len(ops) + 1
        op == code[i].op
        open == IF StartsBlock(i) THEN Append(blocks, << >>) ELSE blocks
        mbb == Len(open)
        filled == [open EXCEPT ![mbb] = Append(@, i)]
    IN /\ phase = "lift"
       /\ ~("imm" \in ToSet(Operands(op)) /\ QueryFails)
       /\ relocs' = IF "imm" \in ToSet(Operands(op))
                    THEN [cached |-> TRUE, table |-> Table] ELSE relocs
       /\ labels' = IF instrs[i].addr \in targets
                    THEN [a \in DOMAIN labels \cup {instrs[i].addr} |->
                             IF a = instrs[i].addr THEN mbb ELSE labels[a]]
                    ELSE labels
       /\ ops' = Append(ops, LiftOperands(i))
       /\ blocks' = IF Closes(i) THEN Append(filled, << >>) ELSE filled
       /\ succ' = succ \cup (IF StartsBlock(i) THEN {<<mbb - 1, mbb>>} ELSE {})
                       \cup (IF Closes(i) /\ FallsThrough(op)
                             THEN {<<mbb, mbb + 1>>} ELSE {})
       /\ pending' = Unresolved(i)
       /\ phase' = IF i = Len(code) THEN "resolve" ELSE "lift"
       /\ UNCHANGED <<code, attempts, instrs, targets, copy>>

(* A relocation with an unknown symbol: lift returns the error and drops its *)
(* representation, but the code object keeps its entry in Relocations.       *)
LiftInstrFails ==
    /\ phase = "lift"
    /\ "imm" \in ToSet(Operands(code[Len(ops) + 1].op))
    /\ QueryFails
    /\ relocs' = [cached |-> TRUE, table |-> Filled]
    /\ phase' = "failed"
    /\ UNCHANGED <<code, attempts, instrs, targets, mf, copy>>

BlockOf(i) == CHOOSE b \in DOMAIN blocks : i \in ToSet(blocks[b])

Resolved(b) == succ \cup {<<BlockOf(p[2]), labels[p[1]]>> : p \in b}

(* The branches get their target block as an operand and a successor; a      *)
(* target where no instruction of this function begins is an error.          *)
ResolveBranches ==
    /\ phase = "resolve"
    /\ IF \E p \in pending : p[1] \notin DOMAIN labels
       THEN phase' = "failed" /\ UNCHANGED <<ops, succ>>
       ELSE /\ phase' = "lifted"
            /\ ops' = [i \in DOMAIN ops |->
                          LET p == {q \in pending : q[2] = i}
                          IN IF p = {} THEN ops[i]
                             ELSE Append(ops[i], <<"block",
                                          labels[(CHOOSE q \in p : TRUE)[1]]>>)]
            /\ succ' = Resolved(pending)
    /\ UNCHANGED <<code, attempts, instrs, targets, relocs, blocks, labels,
                   pending, copy>>

(* The tool lifts again after an error: only the caches are left of the      *)
(* first attempt.                                                            *)
Retry ==
    /\ phase = "failed"
    /\ attempts < MaxAttempts
    /\ attempts' = attempts + 1
    /\ phase' = IF instrs = << >> THEN "disassemble" ELSE "lift"
    /\ blocks' = << << >> >>
    /\ succ' = {}
    /\ ops' = << >>
    /\ labels' = << >>
    /\ pending' = {}
    /\ UNCHANGED <<code, instrs, targets, relocs, copy>>

-----------------------------------------------------------------------------
Src2Dst(b) == <<"clone", b>>

SlipCloneOperand(mo) ==
    IF mo[1] = "block" THEN <<"block", <<"lifted", mo[2]>>>> ELSE mo
(* An operand of the copy refers to the copied block.                        *)
CloneOperand(mo) ==
    IF mo[1] = "block" THEN <<"block", Src2Dst(mo[2])>> ELSE mo

(* cloneMF enters an instruction into its map from inside the loop over the  *)
(* operands: one without operands never gets there.                          *)
Mapped == {i \in DOMAIN ops : ops[i] # << >>}

(* cloneMF: the blocks are linked as theirs are, then the instructions are   *)
(* cloned into them.                                                         *)
CloneMF ==
    [succ |-> {<<Src2Dst(e[1]), Src2Dst(e[2])>> : e \in succ},
     ops |-> [i \in DOMAIN ops |-> [k \in DOMAIN ops[i] |-> CloneOperand(ops[i][k])]],
     origin |-> [i \in DOMAIN ops |-> IF i \in Mapped THEN i ELSE 0]]

(* cloneRepresentation of the lifted representation.                         *)
Clone ==
    /\ phase = "lifted"
    /\ copy' = CloneMF
    /\ phase' = "cloned"
    /\ UNCHANGED <<code, attempts, instrs, targets, relocs, mf>>

(* The tool keeps the representation, or gives the function up.              *)
Rest ==
    /\ phase = "cloned" \/ (phase = "failed" /\ attempts = MaxAttempts)
    /\ UNCHANGED vars

Next == \/ Disassemble \/ LiftInstr \/ LiftInstrFails \/ ResolveBranches
        \/ Retry \/ Clone \/ Rest

Spec == Init /\ [][Next]_vars

-----------------------------------------------------------------------------
Done == phase \in {"lifted", "cloned"}

(* Every variable has its type: in particular each instruction made so far   *)
(* is in exactly one block.                                                  *)
TypeOK ==
    /\ code \in Seq(Instr)
    /\ phase \in {"disassemble", "lift", "resolve", "failed", "lifted", "cloned"}
    /\ attempts \in 1..MaxAttempts
    /\ relocs.table \subseteq [at : Nat, sym : Symbols]
    /\ FlattenSeq(blocks) = [i \in DOMAIN ops |-> i]
    /\ succ \subseteq (DOMAIN blocks) \X (DOMAIN blocks)
    /\ \A a \in DOMAIN labels : labels[a] \in DOMAIN blocks

(* Where the GPU may go after instruction i; 0: it leaves the function.      *)
Flow(i) ==
    LET next == IF i < Len(code) THEN {i + 1} ELSE {0}
        taken == {j \in DOMAIN code : Here[j] = code[i].to}
    IN CASE code[i].op = "branch" -> taken
         [] code[i].op = "cbranch" -> taken \cup next
         [] code[i].op \in {"endpgm", "setpc"} -> {0}
         [] OTHER -> next

(* liftFunction: in the lifted function every step of the machine code stays *)
(* inside a block or follows an edge, no block can be entered or left but at *)
(* its ends, and an edge that is no step leaves a block that ends the        *)
(* program or returns.                                                       *)
ControlFlowLifted ==
    Done =>
        /\ \A i \in DOMAIN code : \A j \in Flow(i) \ {0} :
              \/ /\ j = i + 1
                 /\ BlockOf(i) = BlockOf(j)
              \/ /\ <<BlockOf(i), BlockOf(j)>> \in succ
                 /\ blocks[BlockOf(j)][1] = j
                 /\ Last(blocks[BlockOf(i)]) = i
        /\ \A e \in succ :
              LET i == Last(blocks[e[1]])
              IN \/ blocks[e[2]][1] \in Flow(i)
                 \/ code[i].op \in {"endpgm", "setpc"}

Symbolic(i) == {ops[i][k][2] : k \in {k \in DOMAIN ops[i] : ops[i][k][1] = "symbol"}}

(* An operand is a symbol exactly where the code object has a relocation     *)
(* for that instruction.                                                     *)
RelocationsExact ==
    Done => \A i \in DOMAIN code :
                Symbolic(i) = {code[i].sym} \ {"none"}

(* A short instruction between two long ones: the size of the one before,    *)
(* and the word more, stretch its window over the relocation of the next.    *)
Borrows(i) ==
    /\ i > 1 /\ i < Len(code) /\ code[i].op # "literal"
    /\ code[i - 1].op = "literal" /\ code[i + 1].op = "literal"

(* The relocation of i is not behind one that stopped the only query.        *)
Kept(i) ==
    /\ code[i].sym # "none"
    /\ attempts = 1 \/ \A j \in 1..i : code[j].sym # "section"

FoundBy(i, symbols) ==
    /\ i > 1 /\ Kept(i) => code[i].sym \in symbols
    /\ symbols \subseteq ({code[i].sym} \cup IF Borrows(i) THEN {code[i + 1].sym} ELSE {})
                          \ {"none"}

(* resolveRelocation, in any function: a relocated instruction gets its      *)
(* symbol, unless it is the first of the function or a failed attempt left   *)
(* the table without it; no instruction gets the symbol of another, but a    *)
(* short one between two long ones that of the next.                         *)
RelocationsFound == Done => \A i \in DOMAIN code : FoundBy(i, Symbolic(i))

(* cloneRepresentation: the copy has the edges and branch targets of the     *)
(* original between its own blocks, and each of its instructions that has    *)
(* operands leads back to the instruction it was lifted from.                *)
CloneIsomorphic ==
    phase = "cloned" =>
        /\ \A i \in DOMAIN code : \A k \in DOMAIN ops[i] :
              ops[i][k][1] = "block" =>
                 <<Src2Dst(BlockOf(i)), copy.ops[i][k][2]>> \in copy.succ
        /\ \A a, b \in DOMAIN blocks :
              <<a, b>> \in succ <=> <<Src2Dst(a), Src2Dst(b)>> \in copy.succ
        /\ \A i \in DOMAIN code : ops[i] # << >> => copy.origin[i] = i

(* The instruction a tool finds for a cloned machine instruction: every      *)
(* instruction of the copy leads back to the one it was lifted from.         *)
InstrsMapped ==
    phase = "cloned" => \A i \in DOMAIN code : copy.origin[i] = i

(* The size hsa::Instr keeps is the size of the instruction.                 *)
SizesOwn ==
    instrs # << >> => \A i \in DOMAIN code : instrs[i].size = Words(code[i].op)
=============================================================================

--------------------------- MODULE RegisterLiveness ---------------------------
(***************************************************************************)
(* AMDGPURegisterLiveness on the vector CFG of a lifted function.  A lane  *)
(* that is switched off in EXEC keeps its registers, so a definition kills *)
(* a register only in active lanes.  getVectorCFG cuts every basic block   *)
(* into vector blocks that some lanes take and others do not, and          *)
(* recomputeLiveIns runs the usual backward iteration over them until      *)
(* nothing changes.  Payloads may overwrite what is not live.              *)
(***************************************************************************)
EXTENDS Naturals, Sequences, FiniteSets, SequencesExt, FiniteSetsExt

CONSTANTS
    Regs,         \* vector registers
    Functions     \* machine functions: their blocks and successor edges

(* A vector instruction works on the active lanes, a cmpx one clears bits of *)
(* EXEC and defines no vector register; a lane access is made whatever EXEC  *)
(* is; a scalar instruction has nothing to do with vector registers, and an  *)
(* exec one writes EXEC.                                                     *)
Kinds == {"vector", "cmpx", "scalar", "exec", "lane"}
MachineInstr ==
    {i \in [kind : Kinds, defs : SUBSET Regs, uses : SUBSET Regs] :
        /\ i.kind \in {"cmpx", "scalar", "exec"} => i.defs = {}
        /\ i.kind \in {"scalar", "exec"} => i.uses = {}}

ASSUME RegisterLivenessAssumption ==
    \A f \in Functions :
        /\ f.blocks \in Seq(Seq(MachineInstr)) /\ f.blocks # << >>
        /\ f.succ \subseteq (DOMAIN f.blocks) \X (DOMAIN f.blocks)

VARIABLES
    func,       \* the machine function
    order,      \* the order in which the map of scalar blocks is walked
    vectors,    \* the vector blocks: where in its block each has instructions
    edges,      \* successor edges between vector blocks
    liveIns,    \* LiveIns of the vector blocks
    miLiveIns,  \* MachineInstrLivenessMap
    walk,       \* the vector blocks in the order recomputeLiveIns visits them
    next,       \* index in walk
    anyChange,
    phase       \* build, iterate, done

vars == <<func, order, vectors, edges, liveIns, miLiveIns, walk, next,
          anyChange, phase>>

Mbbs == DOMAIN func.blocks
MIs == UNION {{<<b, i>> : i \in DOMAIN func.blocks[b]} : b \in Mbbs}
MI(m) == func.blocks[m[1]][m[2]]

IsVector(i) == i.kind \in {"vector", "cmpx"}
WritesExecMask(i) == i.kind \in {"cmpx", "exec"}

EntryTaken(b) == <<b, "entry-taken", 0>>
EntryNotTaken(b) == <<b, "entry-not-taken", 0>>
ExitTaken(b) == <<b, "exit-taken", 0>>
ExitNotTaken(b) == <<b, "exit-not-taken", 0>>
FunctionEntry == <<0, "entry", 0>>
FunctionExit == <<0, "exit", 0>>

Init ==
    /\ func \in Functions
    /\ order \in SetToSeqs(DOMAIN func.blocks)
    /\ vectors = << >>
    /\ edges = {}
    /\ liveIns = << >>
    /\ miLiveIns = << >>
    /\ walk = << >>
    /\ next = 1
    /\ anyChange = FALSE
    /\ phase = "build"

-----------------------------------------------------------------------------
(* The constructor of ScalarMBB.  A split begins a block that only the lanes *)
(* still active take; a join begins one that all lanes take.                 *)
FormerScalar(b, i) == i > 1 /\ ~IsVector(func.blocks[b][i - 1])
Splits(b) == {i \in DOMAIN func.blocks[b] :
                 /\ IsVector(func.blocks[b][i])
                 /\ WritesExecMask(func.blocks[b][i]) \/ FormerScalar(b, i)}
Joins(b) == {i \in DOMAIN func.blocks[b] :
                ~IsVector(func.blocks[b][i]) /\ ~FormerScalar(b, i)}

(* createVectorMBB: the blocks made up to instruction i.                     *)
Made(b, i) == Cardinality({j \in Splits(b) \cup Joins(b) : j <= i})

(* CurrentTakenBlock once instruction i is added.                            *)
Taken(b, i) == IF Made(b, i) = 0 THEN EntryTaken(b) ELSE <<b, "made", Made(b, i)>>

(* NotTakenBlocksWithHangingEdges just before instruction i: the blocks that *)
(* were split off, or not taken at all, since the last join.                 *)
Hanging(b, i) ==
    LET joined(j) == \E k \in Joins(b) : j <= k /\ k < i
    IN {Taken(b, j - 1) : j \in {j \in Splits(b) : j < i /\ ~joined(j)}}
       \cup (IF joined(1) THEN {} ELSE {EntryNotTaken(b)})

SlipJoinEdges(b, i) == {<<Taken(b, i - 1), Taken(b, i)>>}   \* hanging blocks forgotten
JoinEdges(b, i) == (Hanging(b, i) \cup {Taken(b, i - 1)}) \X {Taken(b, i)}

ScalarEdges(b) ==
    LET n == Len(func.blocks[b])
    IN {<<Taken(b, i - 1), Taken(b, i)>> : i \in Splits(b)}
       \cup (UNION {JoinEdges(b, i) : i \in Joins(b)})
       \cup {<<Taken(b, n), ExitTaken(b)>>}
       \cup (Hanging(b, n + 1) \X {ExitNotTaken(b)})

(* The vector blocks of a scalar block in the order they are made.           *)
MBBs(b) ==
    <<EntryTaken(b), EntryNotTaken(b), ExitTaken(b), ExitNotTaken(b)>>
    \o [k \in 1..Made(b, Len(func.blocks[b])) |-> <<b, "made", k>>]

(* setInstRange: a vector block is a range of its block.                     *)
Instructions(v) ==
    IF v[1] = 0 THEN {} ELSE {i \in DOMAIN func.blocks[v[1]] : Taken(v[1], i) = v}

IsReturnBlock(b) == ~\E e \in func.succ : e[1] = b

(* The edges between scalar blocks.  The last set is made by the loop over   *)
(* predecessors, which adds a predecessor's exit as a successor.             *)
Links ==
    {<<FunctionEntry, v>> : v \in {EntryTaken(1), EntryNotTaken(1)}}
    \cup ({ExitTaken(b) : b \in {b \in Mbbs : IsReturnBlock(b)}} \X {FunctionExit})
    \cup ({ExitNotTaken(b) : b \in {b \in Mbbs : IsReturnBlock(b)}} \X {FunctionExit})
    \cup UNION {{<<ExitTaken(e[1]), EntryTaken(e[2])>>,
                 <<ExitNotTaken(e[1]), EntryNotTaken(e[2])>>,
                 <<EntryNotTaken(e[2]), ExitNotTaken(e[1])>>} : e \in func.succ}

GetVectorCFG ==
    /\ phase = "build"
    /\ LET all == FlattenSeq([k \in DOMAIN order |-> MBBs(order[k])])
                  \o <<FunctionEntry, FunctionExit>>
       IN /\ walk' = all
          /\ vectors' = [v \in ToSet(all) |-> Instructions(v)]
          /\ liveIns' = [v \in ToSet(all) |-> {}]
    /\ edges' = Links \cup UNION {ScalarEdges(b) : b \in Mbbs}
    /\ miLiveIns' = [m \in MIs |-> {}]
    /\ phase' = "iterate"
    /\ UNCHANGED <<func, order, next, anyChange>>

-----------------------------------------------------------------------------
LiveOuts(v) == UNION {liveIns[e[2]] : e \in {e \in edges : e[1] = v}}

SlipNoKill(live, mi) == live \cup mi.uses
StepBackward(live, mi) == (live \ mi.defs) \cup mi.uses

(* computeLiveIns of block v: the registers live before its instructions,    *)
(* and those live after it at every other place.                             *)
LiveBefore(v) ==
    LET n == Len(func.blocks[v[1]])
        from[i \in 1..(n + 1)] ==
            IF i \in vectors[v] THEN StepBackward(from[i + 1], MI(<<v[1], i>>))
            ELSE LiveOuts(v)
    IN from
LiveIn(v) ==
    IF vectors[v] = {} THEN LiveOuts(v) ELSE LiveBefore(v)[Min(vectors[v])]

SlipAgain(change) == TRUE   \* for ever
(* Another pass over the function is needed.                                 *)
Again(change) == change

(* clearLiveIns, addLiveIns, sortUniqueLiveIns: new live-ins of block v.     *)
WithLiveIns(v, live) == [liveIns EXCEPT ![v] = live]

(* recomputeLiveIns of the next vector block.                                *)
RecomputeLiveIns ==
    /\ phase = "iterate"
    /\ LET v == walk[next]
           last == next = Len(walk)
           change == anyChange \/ liveIns[v] # LiveIn(v)
       IN /\ liveIns' = WithLiveIns(v, LiveIn(v))
          /\ miLiveIns' = [m \in MIs |->
                 IF m[1] = v[1] /\ m[2] \in vectors[v] THEN LiveBefore(v)[m[2]]
                                                      ELSE miLiveIns[m]]
          /\ next' = IF last THEN 1 ELSE next + 1
          /\ anyChange' = (change /\ ~last)
          /\ phase' = IF last /\ ~Again(change) THEN "done" ELSE phase
    /\ UNCHANGED <<func, order, vectors, edges, walk>>

Rest == phase = "done" /\ UNCHANGED vars

Next == GetVectorCFG \/ RecomputeLiveIns \/ Rest

Spec == Init /\ [][Next]_vars /\ WF_vars(Next)

-----------------------------------------------------------------------------
(* Every variable has its type, and every instruction is in one vector block *)
(* (ScalarMBB, getVectorCFG).                                                *)
TypeOK ==
    /\ func \in Functions
    /\ phase \in {"build", "iterate", "done"}
    /\ edges \subseteq (DOMAIN vectors) \X (DOMAIN vectors)
    /\ phase \in {"iterate", "done"} =>
          /\ liveIns \in [DOMAIN vectors -> SUBSET Regs]
          /\ miLiveIns \in [MIs -> SUBSET Regs]
          /\ next \in DOMAIN walk /\ \A k \in DOMAIN walk : walk[k] \in DOMAIN vectors
          /\ \A m \in MIs : \E v \in DOMAIN vectors :
                \A w \in DOMAIN vectors : m[1] = w[1] /\ m[2] \in vectors[w] <=> w = v

(* recomputeLiveIns: whatever the order of the map, the iteration ends.      *)
LivenessSettles == <>(phase = "done")

-----------------------------------------------------------------------------
(* The places a lane comes to: before each instruction of a block and, with  *)
(* the numbers around those, at the beginning and at the end of the block.   *)
Places == UNION {{b} \X (0..(Len(func.blocks[b]) + 1)) : b \in Mbbs}
Lanes == Places \X BOOLEAN     \* a place, and whether the lane is on there

After(p) ==
    IF p[2] <= Len(func.blocks[p[1]]) THEN {<<p[1], p[2] + 1>>}
    ELSE {<<e[2], 0>> : e \in {e \in func.succ : e[1] = p[1]}}

(* What EXEC does to a lane.                                                 *)
ActiveAfter(p, active) ==
    IF p \notin MIs THEN {active}
    ELSE CASE MI(p).kind = "exec" -> BOOLEAN
           [] MI(p).kind = "cmpx" -> {FALSE, active}
           [] OTHER -> {active}
LaneNext(s) == After(s[1]) \X ActiveAfter(s[1], s[2])

(* As far as the vector CFG tells, every scalar instruction may write EXEC,  *)
(* and a lane that is off where a block begins may be one that is off where  *)
(* a predecessor ends: Links has that edge.                                  *)
GraphNext(s) ==
    (After(s[1]) \X (IF s[1] \in MIs /\ ~IsVector(MI(s[1])) THEN BOOLEAN
                     ELSE ActiveAfter(s[1], s[2])))
    \cup {<<<<e[1], Len(func.blocks[e[1]]) + 1>>, FALSE>> :
              e \in {e \in func.succ : s = <<<<e[2], 0>>, FALSE>>}}

Executes(s) == s[1] \in MIs /\ (s[2] \/ MI(s[1]).kind = "lane")
Reads(r) == {s \in Lanes : Executes(s) /\ r \in MI(s[1]).uses}
Writes(r) == {s \in Lanes : Executes(s) /\ r \in MI(s[1]).defs}

(* The lanes that may come to a read of r before they write r, going from s  *)
(* to Step[s].                                                               *)
MayRead(r, Step) ==
    LET back[n \in 0..Cardinality(Lanes)] ==
            IF n = 0 THEN Reads(r)
            ELSE back[n - 1] \cup
                 {s \in Lanes \ Writes(r) : Step[s] \cap back[n - 1] # {}}
    IN back[Cardinality(Lanes)]

(* Payloads at an instruction run in the lanes that are on there: where such *)
(* a lane loses a register it may read.                                      *)
Lost(r) ==
    LET reading == MayRead(r, [s \in Lanes |-> LaneNext(s)])
    IN {m \in MIs : <<m, TRUE>> \in reading /\ r \notin miLiveIns[m]}

(* The vector CFG gives sound live-ins at every instruction.                 *)
LivenessSound == phase = "done" => \A r \in Regs : Lost(r) = {}

(* Where the CFG keeps lanes that are off apart from the others: no block    *)
(* ends in a scalar instruction and leads to one that does not begin with    *)
(* one.  At its end all lanes are in the same vector block, and stay in one  *)
(* that has only those that are on.                                          *)
BeginsScalar(b) == func.blocks[b] # << >> /\ ~IsVector(func.blocks[b][1])
EndsScalar(b) == func.blocks[b] # << >> /\ ~IsVector(Last(func.blocks[b]))
ExecSettled == \A e \in func.succ : EndsScalar(e[1]) => BeginsScalar(e[2])

(* getVectorCFG and recomputeLiveIns: live-ins are sound in functions of     *)
(* that form, except at a vector instruction that itself writes EXEC.        *)
LivenessSoundIfSettled ==
    phase = "done" /\ ExecSettled =>
        \A r \in Regs : \A m \in Lost(r) : MI(m).kind = "cmpx"

(* Nothing is kept without need: a lane that is on at an instruction may, as *)
(* far as the vector CFG tells, read every register that is live there.      *)
LivenessPrecise ==
    phase = "done" =>
        \A r \in Regs :
            LET reading == MayRead(r, [s \in Lanes |-> GraphNext(s)])
            IN \A m \in MIs : r \in miLiveIns[m] => <<m, TRUE>> \in reading
=============================================================================

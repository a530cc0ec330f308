----------------------------- MODULE StatePlanner -----------------------------
(***************************************************************************)
(* SVStorageAndLoadLocations::calculate: where the state value array is    *)
(* kept along every function of the lifted representation, and into which  *)
(* VGPR each payload loads it.  A storage nobody uses in any function is   *)
(* taken for all of them if there is one; otherwise each function gets a   *)
(* storage of its own.                                                     *)
(*                                                                         *)
(* Registers are numbered in their class.  What liveness says of an        *)
(* instruction, and the registers payloads access although they are dead   *)
(* there (PhysRegsNotInLiveInsAnalysis), are inputs.                       *)
(***************************************************************************)
EXTENDS Naturals, Sequences, FiniteSets, SequencesExt, FiniteSetsExt

CONSTANTS
    NumVGPRs, NumAGPRs, NumSGPRs,  \* allocatable registers of each class
    Modules,     \* the functions of an application and how they call
    Subtargets   \* "gfx908", "gfx90a" or "gfx940"

Classes == {"v", "a", "s"}
Size(c) == CASE c = "v" -> NumVGPRs [] c = "a" -> NumAGPRs [] c = "s" -> NumSGPRs
Regs == UNION {{c} \X (0..(Size(c) - 1)) : c \in Classes}
None == <<"none">>

(* live: the registers live before an instruction, which the liveness of its *)
(* function finds among those the function uses; hook: it has a payload;     *)
(* callee: the function it calls, or 0.                                      *)
MachineInstr == [live : SUBSET Regs, hook : BOOLEAN, callee : Nat]

ASSUME StatePlannerAssumption ==
    /\ NumVGPRs \in Nat \ {0} /\ NumAGPRs \in Nat /\ NumSGPRs \in Nat
    /\ \A m \in Modules : DOMAIN m.mfs = 1..Len(m.mfs) /\ Len(m.mfs) \in Nat \ {0}
    /\ \A m \in Modules : \A f \in DOMAIN m.mfs :
          /\ m.mfs[f].used \subseteq Regs
          /\ m.mfs[f].blocks \in Seq(Seq(MachineInstr)) /\ m.mfs[f].blocks # << >>
          /\ \A b \in DOMAIN m.mfs[f].blocks :
                /\ m.mfs[f].blocks[b] # << >>
                /\ \A i \in DOMAIN m.mfs[f].blocks[b] :
                      /\ m.mfs[f].blocks[b][i].live \subseteq m.mfs[f].used
                      /\ m.mfs[f].blocks[b][i].callee \in 0..Len(m.mfs)
    /\ Subtargets \subseteq {"gfx908", "gfx90a", "gfx940"}

VARIABLES
    module,      \* mfs: used registers and blocks; accessed: see above
    subtarget,
    phase,       \* search, fixed, shuffle, planned, failed
    fixed,       \* StateValueFixedLocation
    mf, mbb, mi, \* the instruction the shuffle stands at
    svs,         \* SVS
    begin,       \* CurrentIntervalBegin
    pending,     \* HookInsertionPointsInCurrentSegment
    segments,    \* StateValueStorageIntervals
    plans,       \* InstPointSVSLoadPlans
    preamble     \* DeviceFunctions with RequiresPreAndPostAmble

at == <<mf, mbb, mi, svs, begin, pending>>
vars == <<module, subtarget, phase, fixed, at, segments, plans, preamble>>

MFs == DOMAIN module.mfs
Block(f, b) == module.mfs[f].blocks[b]
Blocks == UNION {{<<f, b>> : b \in DOMAIN module.mfs[f].blocks} : f \in MFs}
MIs == UNION {{<<b[1], b[2], i>> : i \in DOMAIN Block(b[1], b[2])} : b \in Blocks}
MI(m) == Block(m[1], m[2])[m[3]]
Hooks == {m \in MIs : MI(m).hook}

Init ==
    /\ module \in Modules
    /\ subtarget \in Subtargets
    /\ phase = "search"
    /\ fixed = None
    /\ mf = 0 /\ mbb = 1 /\ mi = 1
    /\ svs = None
    /\ begin = 1
    /\ pending = {}
    /\ segments = [b \in Blocks |-> << >>]
    /\ plans = << >>
    /\ preamble = {}

-----------------------------------------------------------------------------
SlipUnusedIn(fs, live) == {r \in Regs : \E f \in fs : r \notin module.mfs[f].used}
(* The registers scavengeFreeRegister may take.                              *)
UnusedIn(fs, live) ==
    {r \in Regs : /\ \A f \in fs : r \notin module.mfs[f].used
                  /\ r \notin module.accessed \cup live}

OfClass(c, s) == {r \in s : r[1] = c}
(* The storage kinds in their order of preference, with the registers they   *)
(* take and the subtargets that have them.                                   *)
Schemes == <<[agprs |-> 1, sgprs |-> 0, on |-> {"gfx90a", "gfx940"}],
             [agprs |-> 2, sgprs |-> 0, on |-> {"gfx908"}],
             [agprs |-> 1, sgprs |-> 3, on |-> {"gfx908"}],
             [agprs |-> 0, sgprs |-> 3, on |-> {"gfx908", "gfx90a"}],
             [agprs |-> 0, sgprs |-> 1, on |-> {"gfx940"}]>>
Supported == {k \in DOMAIN Schemes : subtarget \in Schemes[k].on}

NumUsed == [a |-> {Schemes[k].agprs : k \in Supported},
            s |-> {Schemes[k].sgprs : k \in Supported}]
MaxUsed(c) == Max(NumUsed[c])

(* At most n of the free registers of a class, taken from the lowest up or   *)
(* from the highest down.                                                    *)
Scavenge(free, n, up) ==
    LET before(r) == {q \in free : IF up THEN q[2] < r[2] ELSE q[2] > r[2]}
    IN [k \in 1..Min({n, Cardinality(free)}) |->
           CHOOSE r \in free : Cardinality(before(r)) = k - 1]
First(free, up) == IF free = {} THEN None ELSE Scavenge(free, 1, up)[1]

(* A VGPR if one is free, otherwise the first scheme there are registers for.*)
FindStorage(free, up) ==
    LET agprs == Scavenge(OfClass("a", free), MaxUsed("a"), up)
        sgprs == Scavenge(OfClass("s", free), MaxUsed("s"), up)
        fits == {k \in Supported : /\ Schemes[k].agprs <= Len(agprs)
                                   /\ Schemes[k].sgprs <= Len(sgprs)}
    IN IF OfClass("v", free) # {} THEN <<First(OfClass("v", free), up)>>
       ELSE IF fits = {} THEN None
       ELSE LET k == Min(fits)
            IN SubSeq(agprs, 1, Schemes[k].agprs) \o SubSeq(sgprs, 1, Schemes[k].sgprs)

FindFixedStorage == FindStorage(UnusedIn(MFs, {}), TRUE)
FindStorageAtMI(m) == FindStorage(UnusedIn({m[1]}, MI(m).live), FALSE)

InVGPR(s) == Len(s) = 1 /\ s[1][1] = "v"
StorageReg(s) == IF s[1][1] \in {"v", "a"} THEN s[1] ELSE None

SlipSelectLoad(m, s, scavengeDead) ==   \* liveness of the first instruction
    LET free == UnusedIn({}, MI(<<m[1], 1, 1>>).live)
    IN IF InVGPR(s) THEN [vgpr |-> s[1], clobbers |-> FALSE]
       ELSE [vgpr |-> First(OfClass("v", free), FALSE), clobbers |-> FALSE]
(* selectVGPRLoadLocationForInjectedPayload: the register and whether it     *)
(* holds a value of the application.                                         *)
SelectLoad(m, s, scavengeDead) ==
    LET free == UnusedIn({m[1]}, MI(m).live)
        used == {r \in OfClass("v", module.mfs[m[1]].used) : r \notin module.accessed}
    IN IF InVGPR(s) THEN [vgpr |-> s[1], clobbers |-> FALSE]
       ELSE IF ~scavengeDead THEN [vgpr |-> <<"v", 0>>, clobbers |-> TRUE]
       ELSE IF OfClass("v", free) # {} THEN [vgpr |-> First(OfClass("v", free), FALSE), clobbers |-> FALSE]
       ELSE IF OfClass("a", free) # {} THEN [vgpr |-> First(OfClass("a", free), FALSE), clobbers |-> FALSE]
       ELSE [vgpr |-> IF used # {} THEN First(used, TRUE) ELSE <<"v", 0>>, clobbers |-> TRUE]

Plan(m, s, scavengeDead) == [load |-> SelectLoad(m, s, scavengeDead), svs |-> s]

-----------------------------------------------------------------------------
(* calculate tries for one storage for all functions.                        *)
Search ==
    /\ phase = "search"
    /\ fixed' = FindFixedStorage
    /\ phase' = IF fixed' = None THEN "enter" ELSE "fixed"
    /\ mf' = IF fixed' = None THEN 1 ELSE 0
    /\ UNCHANGED <<module, subtarget, mbb, mi, svs, begin, pending, segments,
                   plans, preamble>>

PlanFixed ==
    /\ phase = "fixed"
    /\ segments' = [b \in Blocks |->
                       <<[from |-> 1, to |-> Len(Block(b[1], b[2])) + 1, svs |-> fixed]>>]
    /\ plans' = [m \in Hooks |-> Plan(m, fixed, TRUE)]
    /\ phase' = "planned"
    /\ UNCHANGED <<module, subtarget, fixed, at, preamble>>

(* The storage a function begins with.  The note of the preamble is made for *)
(* kernels, in the map of the device functions.                              *)
EnterFunction ==
    /\ phase = "enter"
    /\ preamble' = IF module.mfs[mf].kernel THEN preamble \cup {mf} ELSE preamble
    /\ svs' = FindStorageAtMI(<<mf, 1, 1>>)
    /\ phase' = IF svs' # None /\ Len(svs') = 1 /\ svs'[1][1] \in {"v", "a"}
                THEN "shuffle" ELSE "failed"
    /\ mbb' = 1 /\ mi' = 1 /\ begin' = 1
    /\ UNCHANGED <<module, subtarget, fixed, mf, pending, segments, plans>>

LastOfBlock == mi = Len(Block(mf, mbb))
LastOfFunction == LastOfBlock /\ mbb = Len(module.mfs[mf].blocks)

SlipEnd == mi
(* Where the segment that ends here ends.                                    *)
End == IF LastOfBlock THEN mi + 1 ELSE mi

(* One instruction of the walk over a function.                              *)
VisitInstr ==
    LET m == <<mf, mbb, mi>>
        hooks == IF MI(m).hook THEN pending \cup {m} ELSE pending
        tryRelocating == StorageReg(svs) = None /\ MI(m).hook
        mustRelocate == ToSet(svs) \cap MI(m).live # {}
        closes == LastOfBlock \/ tryRelocating \/ mustRelocate
        moved == IF tryRelocating \/ mustRelocate
                 THEN FindStorageAtMI(<<mf, 1, 1>>) ELSE svs
    IN /\ phase = "shuffle"
       /\ segments' = IF closes
                      THEN [segments EXCEPT ![<<mf, mbb>>] =
                               Append(@, [from |-> begin, to |-> End, svs |-> svs])]
                      ELSE segments
       /\ plans' = IF closes
                   THEN [h \in DOMAIN plans \cup hooks |->
                            IF h \in DOMAIN plans THEN plans[h] ELSE Plan(h, svs, FALSE)]
                   ELSE plans
       /\ pending' = IF closes THEN {} ELSE hooks
       /\ begin' = IF LastOfBlock THEN 1 ELSE IF closes THEN End ELSE begin
       /\ svs' = moved
       /\ mi' = IF LastOfBlock THEN 1 ELSE mi + 1
       /\ mbb' = IF LastOfBlock THEN mbb + 1 ELSE mbb
       /\ mf' = IF LastOfFunction THEN mf + 1 ELSE mf
       /\ phase' = IF moved = None THEN "failed"
                   ELSE IF ~LastOfFunction THEN "shuffle"
                   ELSE IF mf = Len(module.mfs) THEN "planned" ELSE "enter"
       /\ UNCHANGED <<module, subtarget, fixed, preamble>>

Rest == phase \in {"planned", "failed"} /\ UNCHANGED vars

Next == Search \/ PlanFixed \/ EnterFunction \/ VisitInstr \/ Rest

Spec == Init /\ [][Next]_vars

-----------------------------------------------------------------------------
SegmentAt(m) ==
    CHOOSE s \in ToSet(segments[<<m[1], m[2]>>]) : s.from <= m[3] /\ m[3] < s.to

(* calculate: when it succeeds, the segments of a block cover each of its    *)
(* instructions once, and each instruction with a payload has a plan that    *)
(* finds the array where the segment says it is.                             *)
PlansComplete ==
    phase = "planned" =>
        /\ \A m \in MIs :
              Cardinality({k \in DOMAIN segments[<<m[1], m[2]>>] :
                              LET s == segments[<<m[1], m[2]>>][k]
                              IN s.from <= m[3] /\ m[3] < s.to}) = 1
        /\ DOMAIN plans = Hooks
        /\ \A m \in Hooks : plans[m].svs = SegmentAt(m).svs

(* The functions that may run before control comes back to call m.           *)
Callees(m) ==
    LET Reached(fs) == /\ MI(m).callee \in fs \cup {0}
                       /\ \A c \in MIs : c[1] \in fs => MI(c).callee \in fs \cup {0}
    IN {g \in MFs : \A fs \in SUBSET MFs : Reached(fs) => g \in fs}

(* Nothing moves the array at a call: the functions called find it where the *)
(* caller left it, and do not write the registers it is in.                  *)
ArrayKeptByCalls ==
    phase = "planned" =>
        \A m \in MIs : \A g \in Callees(m) :
            /\ segments[<<g, 1>>][1].svs = SegmentAt(m).svs
            /\ ToSet(SegmentAt(m).svs) \cap module.mfs[g].used = {}

(* findFixedStateValueArrayStorage: so it is with one storage for all.       *)
ArrayKeptWhenFixed == fixed # None => ArrayKeptByCalls

(* What the callers of a function keep in registers across the call.         *)
LiveInCallers(f) ==
    UNION {MI(m).live : m \in {m \in MIs : f \in Callees(m)}}

(* A payload does not load the array over a value of the application unless  *)
(* its plan says that the value must be preserved.                           *)
LoadsPreserved(alsoLive(_)) ==
    \A m \in DOMAIN plans :
        plans[m].load.vgpr \in MI(m).live \cup alsoLive(m[1]) => plans[m].load.clobbers

NoCallers(f) == {}

(* selectVGPRLoadLocationForInjectedPayload: it holds for the values of the  *)
(* instrumented function itself.                                             *)
OwnValuesPreserved == LoadsPreserved(NoCallers)

(* What a plan says of the values its register holds is true of all that the *)
(* application keeps there, its callers' values included.                    *)
CallersValuesPreserved == LoadsPreserved(LiveInCallers)
=============================================================================

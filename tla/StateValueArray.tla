--------------------------- MODULE StateValueArray ---------------------------
(***************************************************************************)
(* The code Luthier emits around an injected payload: where the state      *)
(* value array (SVA) of a wave is kept while the application runs, how it  *)
(* is loaded for a payload and stored after it (InjectedPayloadPEIPass),   *)
(* and how it moves from one storage to another (emitCodeToSwitchSVS).     *)
(* The emitted instructions are executed one by one on the registers and   *)
(* the scratch memory of one wave.                                         *)
(*                                                                         *)
(* A vector register holds a scalar per lane.  The array has a lane for    *)
(* each frame register of the application that a payload may overwrite,    *)
(* lanes with the payload's own frame registers, and one lane stands for   *)
(* all that tools keep in it.  FLAT_SCR_LO and FLAT_SCR_HI, and the SGPRs  *)
(* that keep them, are one register each.  Waits for memory and register   *)
(* classes of operands are left out; so are s0 to s3 and s33, which are    *)
(* spilled as s32 is.                                                      *)
(***************************************************************************)
EXTENDS Naturals, Sequences

LOCAL INSTANCE SequencesExt

CONSTANTS
    Masks,         \* EXEC masks the application runs with
    Subtargets,    \* records; agprs: it has AGPRs to allocate
    Variants       \* of the emitter: see documented

Lanes == {"spillFs", "spillSp", "storeFs", "storeSp", "data"}
FrameSpillSlots == [fs |-> "spillFs", s32 |-> "spillSp"]
SlipFrameStoreSlots == [fs |-> "storeSp", s32 |-> "storeFs"]  \* exchanged
FrameStoreSlots == [fs |-> "storeFs", s32 |-> "storeSp"]
FrameRegs == DOMAIN FrameSpillSlots

ASSUME StateValueArrayAssumption ==
    /\ Masks \subseteq SUBSET Lanes
    /\ Subtargets \subseteq [gfx90a : BOOLEAN, architected : BOOLEAN,
                             agprs : BOOLEAN]
    /\ Variants \subseteq BOOLEAN

VARIABLES
    storage,   \* the StateValueArrayStorage in force
    code,      \* emitted instructions still to execute
    wave,      \* the registers and the scratch memory
    app,       \* EXEC, SCC and the frame registers live at the last point
    data,      \* what the tools last wrote to the array
    subtarget,
    documented,\* FALSE: this revision, which stores the array at the entry,
               \* ahead of the payload, and never moves it; TRUE: as comments
               \* say, stored in the return block and moved between storages
    lossy      \* history: a step known to lose registers was emitted

vars == <<storage, code, wave, app, data, subtarget, documented, lossy>>

(* v0 is the application's and live; the others are free to be storage.      *)
VectorRegs == {"v0", "v1", "v2", "a0", "a1", "a2", "a3"}
ScalarRegs == FrameRegs \cup {"s4", "s5", "s6", "s7"}
AppValue == [fs |-> "appFs", s32 |-> "appSp", v0 |-> "appV0"]
Scalars == {AppValue[r] : r \in DOMAIN AppValue}
           \cup {"toolFs", "toolSp", "old", "new", "junk"}

Array(d) == [l \in Lanes |-> CASE l = "storeFs" -> "toolFs"
                               [] l = "storeSp" -> "toolSp"
                               [] l = "data" -> d
                               [] OTHER -> "junk"]
All(x) == [l \in Lanes |-> x]
IsArray(f, d) == \A l \in Lanes :
    Array(d)[l] # "junk" => f[l] = Array(d)[l]

-----------------------------------------------------------------------------
(* The storage schemes, the free registers each takes, and the subtargets    *)
(* each is for.  The fixed order in which they are preferred is not modelled.*)
Kinds == {"vgpr", "agpr", "twoAgprs", "agprThreeSgprs", "spilledThreeSgprs",
          "spilledOneSgpr"}
IsSupportedOnSubTarget(kind) ==
    CASE kind = "vgpr" -> TRUE
      [] kind = "agpr" -> subtarget.gfx90a /\ subtarget.agprs
      [] kind \in {"twoAgprs", "agprThreeSgprs"} ->
           ~subtarget.gfx90a /\ subtarget.agprs
      [] kind = "spilledThreeSgprs" -> ~subtarget.architected
      [] kind = "spilledOneSgpr" -> subtarget.architected

Storage(k, v, a, b, f, o) ==
    [kind |-> k, temp |-> b, fs |-> f, sp |-> o,
     reg |-> IF k = "vgpr" THEN v
             ELSE IF k \in {"spilledThreeSgprs", "spilledOneSgpr"} THEN "none"
             ELSE a]
Storages == {s \in {Storage(k, "v1", "a0", "a1", "s4", "s5") : k \in Kinds}
               \cup {Storage(k, "v2", "a2", "a3", "s6", "s7") : k \in Kinds} :
             IsSupportedOnSubTarget(s.kind)}

InRegister(s) == s.reg # "none"     \* getStateValueStorageReg() is not 0
RequiresLoadAndStoreBeforeUse(s) == s.kind \notin {"vgpr", "agpr"}
ThreeSgprs(s) == s.kind \in {"agprThreeSgprs", "spilledThreeSgprs"}

(* operator==; the classof of the storage in one AGPR never accepts one.     *)
Same(s, t) == s = t /\ s.kind # "agpr"

-----------------------------------------------------------------------------
(* Instructions.  Move stands for the opcode that fits the classes of its    *)
(* registers; the emitter takes one that does not for VGPR to VGPR and for   *)
(* AGPR to AGPR, in code that this revision does not reach (see the README). *)
Move(d, s) == [op |-> "move", d |-> d, s |-> s]       \* lanes in EXEC
SMove(d, s) == [op |-> "smove", d |-> d, s |-> s]
SwapFs(s) == [op |-> "swap", s |-> s]                 \* with FLAT_SCR
Flip == [op |-> "flip"]
ReadLane(d, s, l) == [op |-> "readlane", d |-> d, s |-> s, lane |-> l]
WriteLane(d, s, l) == [op |-> "writelane", d |-> d, s |-> s, lane |-> l]
Spill(slot, sp, s) == [op |-> "spill", slot |-> slot, sp |-> sp, s |-> s]
Fill(slot, sp, d) == [op |-> "fill", slot |-> slot, sp |-> sp, d |-> d]
SetScc(b) == [op |-> "setscc", value |-> b]
Safe(body) == [op |-> "branch", body |-> body]        \* on SCC; see Branch
Work(d, stack) == [op |-> "work", d |-> d, stack |-> stack]

Both(s) == s \o <<Flip>> \o s \o <<Flip>>

(* emitCodeToLoadSVA                                                         *)
SlipLoad(s, d) ==           \* the active lanes only are spilled
    IF s.kind = "twoAgprs"
    THEN <<Move(s.temp, d), Safe(Both(<<Move(d, s.reg)>>))>>
    ELSE <<Spill("vgpr", s.sp, d), Safe(Both(<<Fill("sva", s.sp, d)>>))>>
SlipLoadWithFs(s, d) ==     \* swapped only behind the spills
    <<Safe(Both(<<IF s.kind = "twoAgprs" THEN Move(s.temp, d)
                  ELSE Spill("vgpr", s.sp, d),
                  IF InRegister(s) THEN Move(d, s.reg) ELSE Fill("sva", s.sp, d)>>)
           \o IF ThreeSgprs(s) THEN <<SwapFs(s.fs)>> ELSE <<>>)>>
Keep(s, d) == IF s.kind = "twoAgprs" THEN Move(s.temp, d) ELSE Spill("vgpr", s.sp, d)
Get(s, d) == IF InRegister(s) THEN Move(d, s.reg) ELSE Fill("sva", s.sp, d)
Load(s, d) ==
    <<Safe((IF ThreeSgprs(s) THEN <<SwapFs(s.fs)>> ELSE <<>>)
           \o Both(<<Keep(s, d), Get(s, d)>>))>>

(* emitCodeToStoreSVA.  With the array in AGPRs FLAT_SCR is swapped back     *)
(* before the application's VGPR is filled; when spilled, it is swapped      *)
(* behind the sequence, once by each of its two copies.                      *)
SlipStore(s, d) ==          \* the application's value first, then the array
    <<Safe(Both(IF s.kind = "twoAgprs" THEN <<Move(d, s.temp), Move(s.reg, d)>>
                ELSE <<Fill("vgpr", s.sp, d), Spill("sva", s.sp, d)>>))>>
Put(s, d) == IF InRegister(s) THEN Move(s.reg, d) ELSE Spill("sva", s.sp, d)
Restore(s, d) == IF s.kind = "twoAgprs" THEN Move(d, s.temp) ELSE Fill("vgpr", s.sp, d)
Store(s, d) ==
    <<Safe((IF s.kind = "agprThreeSgprs" THEN <<SwapFs(s.fs)>> ELSE <<>>)
           \o Both(<<Put(s, d), Restore(s, d)>>))>>
    \o IF s.kind = "spilledThreeSgprs" THEN <<SwapFs(s.fs), SwapFs(s.fs)>>
       ELSE <<>>

(* The overloads of emitCodeToSwitchSVS, from s to t.  The array is moved    *)
(* straight, spilled from a register, filled into one, or passes through v0, *)
(* which is kept in the AGPR or the spill slot of one of the two.  The       *)
(* virtual functions that should choose one cast `this` and end in           *)
(* llvm_unreachable, so this revision emits none of them: see SwitchTo.      *)
WithFs(s, body) == <<SwapFs(s.fs)>> \o body \o <<SwapFs(s.fs)>>

FrameOf(t, r) ==
    (IF ThreeSgprs(t) THEN <<ReadLane(t.fs, r, "storeFs")>> ELSE <<>>)
    \o <<ReadLane(t.sp, r, "storeSp")>>
SpillFrom(r, t) ==
    LET both == Both(<<Spill("sva", t.sp, r)>>)
    IN FrameOf(t, r) \o <<Safe(IF ThreeSgprs(t) THEN WithFs(t, both) ELSE both)>>

FillBoth(s, t) == Both(<<Fill("sva", s.sp, t.reg)>>)
FillInto(s, t) ==
    <<Safe(IF ThreeSgprs(s) THEN WithFs(s, FillBoth(s, t)) ELSE FillBoth(s, t))>>

SgprsTo(s, t) ==
    (IF ThreeSgprs(s) THEN <<SMove(t.fs, s.fs)>> ELSE <<>>)
    \o <<SMove(t.sp, s.sp)>>

FromTwoAgprs(s, t) ==
    LET enter == <<Move(s.temp, "v0"), Move("v0", s.reg)>> IN
    IF t.kind = "spilledThreeSgprs"
    THEN <<Safe(Both(enter))>> \o SpillFrom("v0", t)
         \o <<Safe(Both(<<Move("v0", s.temp)>>))>>
    ELSE <<Safe(Both(enter \o <<Move(t.reg, "v0")>>))>>  \* v0 is not restored

FromAgpr(s, t) ==
    LET put == IF InRegister(t) THEN Move(t.reg, "v0") ELSE Spill("sva", t.sp, "v0")
    IN IF t.kind = "twoAgprs"
       THEN <<Safe(Both(<<Move(t.temp, "v0"), Move("v0", s.reg), put,
                          Move("v0", t.temp)>>))>>
       ELSE SgprsTo(s, t)
            \o <<Safe(WithFs(t, Both(<<Spill("vgpr", t.sp, "v0"),
                   Move("v0", s.reg), put, Fill("vgpr", t.sp, "v0")>>)))>>

(* The SGPRs of t, if it has any, are not set.                               *)
FromSpilled(s, t) ==
    LET keep == IF t.kind = "twoAgprs" THEN Move(t.temp, "v0")
                ELSE Spill("vgpr", s.sp, "v0")
        restore == IF t.kind = "twoAgprs" THEN Move("v0", t.temp)
                   ELSE Fill("vgpr", s.sp, "v0")
    IN <<Safe(WithFs(s, Both(<<keep, Fill("sva", s.sp, "v0"),
                               Move(t.reg, "v0"), restore>>)))>>

Straight(s, t) == <<Safe(Both(<<Move(t.reg, s.reg)>>))>>

Direct == {"vgpr", "agpr"}
Spilled == {"spilledThreeSgprs", "spilledOneSgpr"}
Switch(s, t) ==
    CASE s.kind \in Direct /\ t.kind \in Spilled -> SpillFrom(s.reg, t)
      [] InRegister(s) /\ (s.kind \in Direct \/ t.kind \in Direct) ->
           Straight(s, t)
      [] s.kind = "twoAgprs" /\ t.kind \notin Direct -> FromTwoAgprs(s, t)
      [] s.kind = "agprThreeSgprs" /\ t.kind \notin Direct -> FromAgpr(s, t)
      [] s.kind \in Spilled /\ t.kind \in Spilled -> SgprsTo(s, t)
      [] s.kind \in Spilled /\ t.kind \in Direct -> FillInto(s, t)
      [] OTHER -> FromSpilled(s, t)

(* Switches that leave v0 or the SGPRs of the target without their values.   *)
LossySwitch(s, t) ==
    \/ s.kind = "twoAgprs" /\ t.kind \in {"twoAgprs", "agprThreeSgprs"}
    \/ t.kind = "agprThreeSgprs" /\ s.kind \in {"vgpr", "spilledThreeSgprs"}

(* InjectedPayloadPEIPass: saved are the frame registers that are live or    *)
(* must not be clobbered; stack is TRUE when the payload has a stack.        *)
LoadVGPR(s) == IF RequiresLoadAndStoreBeforeUse(s) THEN "v0" ELSE s.reg
Prologue(s, saved, stack) ==
    LET d == LoadVGPR(s) IN
    (IF RequiresLoadAndStoreBeforeUse(s) THEN Load(s, d) ELSE <<>>)
    \o SetToSeq({WriteLane(d, r, FrameSpillSlots[r]) : r \in saved})
    \o IF stack \/ ~InRegister(s)
       THEN SetToSeq({ReadLane(r, d, FrameStoreSlots[r]) :
                      r \in DOMAIN FrameStoreSlots})
       ELSE <<>>
Payload(s, saved, stack) ==
    LET d == LoadVGPR(s)
        store == IF RequiresLoadAndStoreBeforeUse(s) THEN Store(s, d) ELSE <<>>
        restored == SetToSeq({ReadLane(r, d, FrameSpillSlots[r]) : r \in saved})
        body == <<Work(d, stack)>>
    IN Prologue(s, saved, stack)
       \o IF documented THEN body \o restored \o store
          ELSE store \o body \o restored

-----------------------------------------------------------------------------
Idle == code = <<>>
Frame(sp) == IF wave.s[sp] = "toolSp"
                /\ (subtarget.architected \/ wave.s["fs"] = "toolFs")
             THEN "tool" ELSE "app"

Init ==
    /\ subtarget \in Subtargets /\ documented \in Variants
    /\ storage \in Storages
    /\ code = <<>> /\ data = "old" /\ lossy = FALSE
    /\ \E mask \in Masks, scc \in BOOLEAN :
         /\ app = [live |-> FrameRegs, exec |-> mask, scc |-> scc]
         /\ wave =
              [v |-> [r \in VectorRegs |->
                        IF r = storage.reg THEN Array("old")
                        ELSE IF r = "v0" THEN All("appV0") ELSE All("junk")],
               s |-> [r \in ScalarRegs |->
                        IF r \in FrameRegs THEN AppValue[r]
                        ELSE IF r = storage.fs THEN "toolFs"
                        ELSE IF r = storage.sp THEN "toolSp" ELSE "junk"],
               mem |-> [tool |-> [vgpr |-> All("junk"), sva |->
                          IF InRegister(storage) THEN All("junk") ELSE Array("old")],
                        app |-> [vgpr |-> All("junk"), sva |-> All("junk")]],
               exec |-> mask, scc |-> scc]

(* Code is emitted at points of the application, which runs until the next   *)
(* one: it may change EXEC and SCC, sets its own registers, and may leave    *)
(* anything in the registers that are not the storage's.                     *)
RunOn(mask, scc) ==
    [wave EXCEPT !.exec = mask, !.scc = scc,
       !.v = [r \in VectorRegs |-> IF r = storage.reg THEN wave.v[r]
                                   ELSE IF r = "v0" THEN All("appV0")
                                   ELSE All("junk")],
       !.s = [r \in ScalarRegs |-> IF r \in FrameRegs THEN AppValue[r]
                                   ELSE IF r \in {storage.fs, storage.sp}
                                   THEN wave.s[r] ELSE "junk"]]

(* Runs of the wave are followed up to the first step known to lose a        *)
(* register.  Payloads that leave the array and the frame registers alone    *)
(* get no prologue and change nothing here.                                  *)
Inject(saved, stack, mask, scc) ==
    /\ Idle /\ ~lossy
    /\ wave' = RunOn(mask, scc)
    /\ app' = [live |-> saved, exec |-> mask, scc |-> scc]
    /\ code' = Payload(storage, saved, stack)
    /\ lossy' = (/\ RequiresLoadAndStoreBeforeUse(storage)
                 /\ ~documented \/ ThreeSgprs(storage))
    /\ UNCHANGED <<storage, data, subtarget, documented>>

(* As the comments describe: the overload for the two classes is emitted.    *)
SwitchTo(t, mask, scc) ==
    /\ documented
    /\ Idle /\ ~lossy /\ ~Same(storage, t)
    /\ wave' = RunOn(mask, scc)
    /\ app' = [live |-> FrameRegs, exec |-> mask, scc |-> scc]
    /\ code' = Switch(storage, t) /\ storage' = t
    /\ lossy' = LossySwitch(storage, t)
    /\ UNCHANGED <<data, subtarget, documented>>

-----------------------------------------------------------------------------
(* One instruction.                                                          *)
Next1(op) == ~Idle /\ Head(code).op = op
I == Head(code)
Else == UNCHANGED <<storage, app, data, subtarget, documented, lossy>>
Masked(new, old) == [l \in Lanes |-> IF l \in wave.exec THEN new[l] ELSE old[l]]

ExecuteMove ==
    /\ Next1("move") /\ code' = Tail(code) /\ Else
    /\ wave' = [wave EXCEPT !.v[I.d] = Masked(wave.v[I.s], @)]

ExecuteSMove ==
    /\ Next1("smove") /\ code' = Tail(code) /\ Else
    /\ wave' = [wave EXCEPT !.s[I.d] = wave.s[I.s]]

(* Three S_XOR_B32: SCC says whether the last result is not 0.               *)
ExecuteSwap ==
    /\ Next1("swap") /\ code' = Tail(code) /\ Else
    /\ \E scc \in BOOLEAN :
         wave' = [wave EXCEPT !.s["fs"] = wave.s[I.s], !.s[I.s] = wave.s["fs"],
                              !.scc = scc]

(* S_NOT_B64                                                                 *)
ExecuteFlip ==
    /\ Next1("flip") /\ code' = Tail(code) /\ Else
    /\ wave' = [wave EXCEPT !.exec = Lanes \ @, !.scc = (wave.exec # Lanes)]

ExecuteReadLane ==
    /\ Next1("readlane") /\ code' = Tail(code) /\ Else
    /\ wave' = [wave EXCEPT !.s[I.d] = wave.v[I.s][I.lane]]

ExecuteWriteLane ==
    /\ Next1("writelane") /\ code' = Tail(code) /\ Else
    /\ wave' = [wave EXCEPT !.v[I.d][I.lane] = wave.s[I.s]]

ExecuteSpill ==
    /\ Next1("spill") /\ code' = Tail(code) /\ Else
    /\ wave' = [wave EXCEPT !.mem[Frame(I.sp)][I.slot] = Masked(wave.v[I.s], @)]

ExecuteFill ==
    /\ Next1("fill") /\ code' = Tail(code) /\ Else
    /\ wave' = [wave EXCEPT !.v[I.d] = Masked(wave.mem[Frame(I.sp)][I.slot], @)]

(* createSCCSafeSequenceOfMIs: a branch on SCC to one of two copies of the   *)
(* body, each of which ends by setting SCC to what it was.                   *)
Branch ==
    /\ Next1("branch") /\ Else /\ UNCHANGED wave
    /\ code' = I.body \o <<SetScc(wave.scc)>> \o Tail(code)

ExecuteSetScc ==
    /\ Next1("setscc") /\ code' = Tail(code) /\ Else
    /\ wave' = [wave EXCEPT !.scc = I.value]

(* The payload proper updates the register it takes for the array, and may   *)
(* overwrite frame registers, except those it needs for a stack.  When the   *)
(* array was stored ahead of it, what it writes does not get to the array.   *)
ExecuteWork ==
    /\ Next1("work") /\ code' = Tail(code)
    /\ data' = IF documented \/ ~RequiresLoadAndStoreBeforeUse(storage)
               THEN "new" ELSE data
    /\ wave' = [wave EXCEPT !.v[I.d]["data"] = "new",
         !.s = [r \in ScalarRegs |->
           IF r \in FrameRegs /\ (I.stack => r \notin DOMAIN FrameStoreSlots)
           THEN "junk" ELSE wave.s[r]]]
    /\ UNCHANGED <<storage, app, subtarget, documented, lossy>>

Next ==
    \/ \E mask \in Masks, scc \in BOOLEAN :
         \/ \E saved \in SUBSET FrameRegs, stack \in BOOLEAN :
              Inject(saved, stack, mask, scc)
         \/ \E t \in Storages : SwitchTo(t, mask, scc)
    \/ ExecuteMove \/ ExecuteSMove \/ ExecuteSwap \/ ExecuteFlip
    \/ ExecuteReadLane \/ ExecuteWriteLane \/ ExecuteSpill \/ ExecuteFill
    \/ Branch \/ ExecuteSetScc \/ ExecuteWork

Spec == Init /\ [][Next]_vars

-----------------------------------------------------------------------------
(* The registers, memory and storage keep their types, and only a spilled    *)
(* array is in no register.                                                  *)
TypeOK ==
    /\ storage \in Storages
    /\ storage.reg = "none" <=> storage.kind \in Spilled
    /\ wave.v \in [VectorRegs -> [Lanes -> Scalars]]
    /\ wave.s \in [ScalarRegs -> Scalars]
    /\ wave.exec \in SUBSET Lanes /\ wave.scc \in BOOLEAN
    /\ app \in [live : SUBSET FrameRegs, exec : Masks, scc : BOOLEAN]
    /\ data \in {"old", "new"} /\ {documented, lossy} \subseteq BOOLEAN
    /\ subtarget \in Subtargets

AtBody == ~Idle /\ Head(code).op = "work"

(* In this revision the array is loaded and stored ahead of the body, and    *)
(* the run stops behind the body of a payload that needed a load.            *)
LoadedAndStored ==
    ~documented /\ AtBody /\ RequiresLoadAndStoreBeforeUse(storage)

(* InjectedPayloadPEIPass, emitCodeToSwitchSVS: after a payload and after a  *)
(* switch the application has its live registers, in active and inactive     *)
(* lanes, and SCC; so it has after this revision's load and store but for    *)
(* storages with three SGPRs.  EXEC is flipped back by every sequence, even  *)
(* by those that lose a register.                                            *)
RegistersRestored ==
    /\ Idle => wave.exec = app.exec
    /\ Idle /\ ~lossy => \A r \in app.live : wave.s[r] = AppValue[r]
    /\ (Idle /\ ~lossy) \/ (LoadedAndStored /\ ~ThreeSgprs(storage)) =>
         /\ wave.exec = app.exec
         /\ wave.v["v0"] = All("appV0")
         /\ wave.scc = app.scc

(* emitCodeToLoadSVA, emitCodeToStoreSVA: in this revision, whatever the     *)
(* storage and the EXEC mask, every lane of the array is back in its storage *)
(* when the body begins and between payloads, as the tools' last write that  *)
(* reached it left it.  The same holds of stores in the return block and of  *)
(* moves, and there the storage's SGPRs go on leading to the                 *)
(* instrumentation's scratch memory, but for the sequences known to be lossy.*)
ArrayKept ==
    /\ (Idle /\ (~documented \/ ~lossy)) \/ LoadedAndStored =>
         IsArray(IF InRegister(storage) THEN wave.v[storage.reg]
                 ELSE wave.mem.tool.sva, data)
    /\ Idle /\ ~lossy =>
         /\ ThreeSgprs(storage) => wave.s[storage.fs] = "toolFs"
         /\ ThreeSgprs(storage) \/ ~InRegister(storage) =>
              wave.s[storage.sp] = "toolSp"

(* When the payload starts, the array is in its load VGPR, and if it has a   *)
(* stack, the frame registers are the instrumentation's.                     *)
PayloadReady == AtBody /\ ~lossy =>
    /\ IsArray(wave.v[I.d], data)
    /\ I.stack => wave.s["fs"] = "toolFs" /\ wave.s["s32"] = "toolSp"

(* emitCodeToLoadSVA, emitCodeToStoreSVA: FLAT_SCRATCH leads to the          *)
(* instrumentation's frame at every spill this revision emits, up to and     *)
(* with the first payload that loses registers, so no lane is written to     *)
(* scratch memory of the application; nor is one by moves.                   *)
AppMemoryUntouched == ~documented \/ ~lossy =>
    wave.mem.app = [vgpr |-> All("junk"), sva |-> All("junk")]
=============================================================================

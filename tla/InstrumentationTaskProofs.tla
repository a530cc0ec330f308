---------------------- MODULE InstrumentationTaskProofs ----------------------
(***************************************************************************)
(* Concurrent instrumentAndLoad calls: the lock of the lifted kernel covers *)
(* the check and the insertion of loadInstrumentedKernel, for any threads,  *)
(* kernels, presets, agents and modules.  The second part is about the      *)
(* tool's module on the agents and the tasks that read it.                  *)
(***************************************************************************)
EXTENDS InstrumentationTasks, TLAPS

(* The steps of instrumentAndLoad under the lock of the representation.      *)
Locked == {"mutate", "look", "hook", "apply", "print", "link", "names", "load",
           "insert"}

(* The types of what tasks keep and of what they are filled from.            *)
Typed ==
    /\ task \in [Threads -> Task]
    /\ lrOwner \in [Kernels -> Threads \cup {None}]
    /\ loads \in [Kernels \X Presets -> Nat]
    /\ bitcode \in [Agents -> Copy \cup {None}]
    /\ variables \in [Agents -> [Names -> Copy \cup {None}]]
    /\ names \in Seq(Names)
    /\ registering \in Registration \cup {None}
    /\ numCopies \in Nat

(* A task past LockLR owns its kernel's lock.                                *)
OwnersWork ==
    \A t \in Threads : task[t].pc \in Locked => lrOwner[task[t].kernel] = t

(* What the check found is still so at the insertion.                        *)
InsertsNew == \A t \in Threads : At(t, "insert") => loads[VersionOf(t)] = 0

Inv == Typed /\ OwnersWork /\ InsertsNew /\ OncePerPreset

Work == [pc : Steps, kernel : Kernels, preset : Presets, hooked : BOOLEAN,
         code : Copy \cup {None}, next : Nat, last : Nat,
         extern : [Names -> Copy \cup {None}]]

-----------------------------------------------------------------------------
(* A task that is at a step has a kernel, a preset and the rest.             *)
LEMMA AtWork ==
    ASSUME Typed, NEW t \in Threads, task[t].pc # "idle"
    PROVE  task[t] \in Work
<1>1. task[t] \in {Idle} \cup Work
  BY DEF Typed, Task, Work
<1> QED
  BY <1>1 DEF Idle

(* Goto moves a task and changes nothing else of it.                         *)
LEMMA Moved ==
    ASSUME Typed, NEW t \in Threads, task[t].pc # "idle", NEW pc \in Steps,
           Goto(t, pc)
    PROVE  /\ task' \in [Threads -> Task]
           /\ task'[t].pc = pc /\ task'[t].kernel = task[t].kernel
           /\ task'[t].preset = task[t].preset
           /\ \A u \in Threads \ {t} : task'[u] = task[u]
<1>1. task[t] \in Work
  BY AtWork
<1>2. [task[t] EXCEPT !.pc = pc] \in Work
  BY <1>1 DEF Work
<1>3. task' = [task EXCEPT ![t] = [task[t] EXCEPT !.pc = pc]]
  BY DEF Goto
<1>4. Work \subseteq Task
  BY DEF Work, Task
<1> QED
  BY <1>1, <1>2, <1>3, <1>4 DEF Typed, Work

(* A call that returns keeps no lock, and takes none from another thread.    *)
LEMMA Left ==
    ASSUME Typed, NEW t \in Threads, Leaves(t)
    PROVE  /\ task' \in [Threads -> Task]
           /\ task'[t] = Idle /\ \A u \in Threads \ {t} : task'[u] = task[u]
           /\ lrOwner' \in [Kernels -> Threads \cup {None}]
           /\ \A k \in Kernels : lrOwner[k] # t => lrOwner'[k] = lrOwner[k]
<1>1. Idle \in Task
  BY DEF Task
<1> QED
  BY <1>1 DEF Leaves, Typed

(* What most steps of a task do: it stays the same task, comes under the     *)
(* lock only as its owner, and to the insertion only if nothing is loaded.   *)
Advance(t) ==
    /\ task' \in [Threads -> Task]
    /\ task'[t].kernel = task[t].kernel /\ task'[t].preset = task[t].preset
    /\ \A u \in Threads \ {t} : task'[u] = task[u]
    /\ task'[t].pc \in Locked =>
          task[t].pc \in Locked \/ lrOwner'[task[t].kernel] = t
    /\ task'[t].pc = "insert" =>
          task[t].pc = "insert" \/ loads[VersionOf(t)] = 0
    /\ lrOwner' \in [Kernels -> Threads \cup {None}]
    /\ \A k \in Kernels : lrOwner[k] # None => lrOwner'[k] = lrOwner[k]
    /\ loads' = loads

LEMMA AdvanceKeeps ==
    ASSUME Inv, NEW t \in Threads, task[t].pc # "idle", Advance(t)
    PROVE  OwnersWork' /\ InsertsNew' /\ OncePerPreset'
<1>1. task[t].kernel \in Kernels
  BY AtWork DEF Inv, Work
<1>2. OwnersWork'
  <2> SUFFICES ASSUME NEW u \in Threads, task'[u].pc \in Locked
               PROVE  lrOwner'[task'[u].kernel] = u
    BY DEF OwnersWork
  <2>1. CASE u = t
    <3>1. CASE task[t].pc \in Locked
      BY <1>1, <2>1, <3>1, InstrumentationTasksAssumption DEF Advance, Inv, OwnersWork
    <3> QED
      BY <2>1, <3>1 DEF Advance
  <2>2. CASE u # t
    <3>1. task'[u] = task[u] /\ task[u].pc \in Locked
      BY <2>2 DEF Advance
    <3>2. task[u].kernel \in Kernels
      BY <3>1, AtWork DEF Inv, Work, Locked
    <3> QED
      BY <3>1, <3>2, InstrumentationTasksAssumption DEF Advance, Inv, OwnersWork
  <2> QED
    BY <2>1, <2>2
<1>3. InsertsNew'
  BY DEF Advance, Inv, InsertsNew, At, VersionOf
<1> QED
  BY <1>2, <1>3 DEF Advance, Inv, OncePerPreset

LEMMA LeaveKeeps ==
    ASSUME Inv, NEW t \in Threads, Leaves(t), loads' = loads
    PROVE  OwnersWork' /\ InsertsNew' /\ OncePerPreset'
<1>1. /\ task'[t] = Idle /\ \A u \in Threads \ {t} : task'[u] = task[u]
      /\ \A k \in Kernels : lrOwner[k] # t => lrOwner'[k] = lrOwner[k]
  BY Left DEF Inv
<1>2. \A u \in Threads : task'[u].pc # "idle" => u # t /\ task'[u] = task[u]
  BY <1>1 DEF Idle
<1>3. \A u \in Threads : task[u].pc # "idle" => task[u].kernel \in Kernels
  BY AtWork DEF Inv, Work
<1>4. OwnersWork'
  BY <1>1, <1>2, <1>3 DEF Inv, OwnersWork, Locked
<1>5. InsertsNew'
  BY <1>2 DEF Inv, InsertsNew, At, VersionOf
<1> QED
  BY <1>4, <1>5 DEF Inv, OncePerPreset

-----------------------------------------------------------------------------
(* The state that only modules and their registration change.                *)
SimTyped ==
    /\ bitcode \in [Agents -> Copy \cup {None}]
    /\ variables \in [Agents -> [Names -> Copy \cup {None}]]
    /\ names \in Seq(Names)
    /\ registering \in Registration \cup {None}
    /\ numCopies \in Nat

LEMMA SimUnchanged == ASSUME Typed, UNCHANGED simVars PROVE SimTyped'
  BY DEF Typed, SimTyped, simVars

LEMMA AdvanceTyped ==
    ASSUME Typed, NEW t, Advance(t), UNCHANGED simVars
    PROVE  Typed'
<1>1. SimTyped'
  BY SimUnchanged
<1> QED
  BY <1>1 DEF Typed, SimTyped, Advance

LEMMA LeaveTyped ==
    ASSUME Typed, NEW t \in Threads, Leaves(t), loads' = loads, UNCHANGED simVars
    PROVE  Typed'
<1>1. SimTyped'
  BY SimUnchanged
<1> QED
  BY <1>1, Left DEF Typed, SimTyped

LEMMA StuckTyped ==
    ASSUME Typed, UNCHANGED <<task, lrOwner, loads, simVars>>
    PROVE  Typed'
<1>1. SimTyped'
  BY SimUnchanged DEF simVars
<1> QED
  BY <1>1 DEF Typed, SimTyped

(* A step of instrumentAndLoad but the insertion.                            *)
Harmless(t) ==
    \/ Advance(t)
    \/ Leaves(t) /\ loads' = loads
    \/ UNCHANGED <<task, lrOwner, loads>>

(* Goto within the lock, or before it.                                       *)
LEMMA GotoAdvances ==
    ASSUME Typed, NEW t \in Threads, task[t].pc # "idle", NEW pc \in Steps,
           Goto(t, pc), lrOwner' = lrOwner, loads' = loads,
           pc \in Locked => task[t].pc \in Locked,
           pc = "insert" => loads[VersionOf(t)] = 0
    PROVE  Advance(t)
  BY Moved DEF Advance, Typed

(* The steps of the lift and of the mutator, before anything is compiled.    *)
LEMMA LiftHarmless ==
    ASSUME Typed, NEW t \in Threads,
           \/ BeginLift(t) \/ InitLR(t) \/ GetTargetInfo(t) \/ FillTargetInfo(t)
           \/ Disassemble(t)
    PROVE  Harmless(t) /\ task[t].pc # "idle" /\ UNCHANGED simVars
<1>1. CASE BeginLift(t)
  <2>1. PICK pc \in {"lock", "init"} : Goto(t, pc)
    BY <1>1 DEF BeginLift
  <2> QED
    BY <1>1, <2>1, GotoAdvances DEF BeginLift, Harmless, At, Steps, Locked
<1>2. CASE InitLR(t)
  BY <1>2, GotoAdvances DEF InitLR, CreateTargetMachine, Fails, Harmless, At,
     Steps, Locked, lockVars
<1>3. CASE GetTargetInfo(t)
  BY <1>3, GotoAdvances DEF GetTargetInfo, Harmless, At, Steps, Locked, lockVars
<1>4. CASE FillTargetInfo(t)
  BY <1>4, GotoAdvances DEF FillTargetInfo, Harmless, At, Steps, Locked, lockVars
<1>5. CASE Disassemble(t)
  BY <1>5, GotoAdvances DEF Disassemble, GoesWrong, Fails, Harmless, At, Steps,
     Locked, lockVars
<1> QED
  BY <1>1, <1>2, <1>3, <1>4, <1>5

LEMMA LockHarmless ==
    ASSUME Typed, NEW t \in Threads, LockLR(t)
    PROVE  Harmless(t) /\ task[t].pc # "idle" /\ UNCHANGED simVars
<1>1. /\ task[t].pc = "lock" /\ Goto(t, "mutate") /\ lrOwner[task[t].kernel] = None
      /\ lrOwner' = [lrOwner EXCEPT ![task[t].kernel] = t]
      /\ loads' = loads /\ UNCHANGED simVars
  BY DEF LockLR, At
<1>2. task[t].kernel \in Kernels
  BY <1>1, AtWork DEF Work
<1>3. Advance(t)
  BY <1>1, <1>2, Moved DEF Advance, Typed, Steps
<1> QED
  BY <1>1, <1>3 DEF Harmless

(* Steps that fill in more than the program counter of a task.               *)
LEMMA FilledAdvances ==
    ASSUME Typed, NEW t \in Threads, task[t].pc \in Locked, NEW new \in Work,
           new.pc # "insert", new.kernel = task[t].kernel,
           new.preset = task[t].preset,
           task' = [task EXCEPT ![t] = new], lrOwner' = lrOwner, loads' = loads
    PROVE  Advance(t)
<1>1. Work \subseteq Task
  BY DEF Work, Task
<1> QED
  BY <1>1 DEF Advance, Typed

LEMMA HooksHarmless ==
    ASSUME Typed, NEW t \in Threads, InsertHooks(t)
    PROVE  Harmless(t) /\ task[t].pc # "idle" /\ UNCHANGED simVars
<1>1. task[t].pc = "hook" /\ task[t] \in Work
  BY AtWork DEF InsertHooks, At
<1>2. CASE Goto(t, "print") /\ UNCHANGED <<lrOwner, loads, simVars>>
  BY <1>1, <1>2, GotoAdvances DEF Harmless, Steps, Locked
<1>3. CASE /\ task' = [task EXCEPT ![t].pc = "apply", ![t].hooked = TRUE]
           /\ UNCHANGED <<lrOwner, loads, simVars>>
  <2> DEFINE new == [task[t] EXCEPT !.pc = "apply", !.hooked = TRUE]
  <2>1. new \in Work /\ new.pc = "apply" /\ new.kernel = task[t].kernel
        /\ new.preset = task[t].preset
    BY <1>1 DEF Work, Steps
  <2>2. task' = [task EXCEPT ![t] = new]
    BY <1>3
  <2> HIDE DEF new
  <2> QED
    BY <1>1, <1>3, <2>1, <2>2, FilledAdvances DEF Harmless, Locked
<1>4. CASE Fails(t)
  BY <1>1, <1>4 DEF Fails, Harmless
<1> QED
  BY <1>2, <1>3, <1>4 DEF InsertHooks, lockVars

LEMMA ApplyHarmless ==
    ASSUME Typed, NEW t \in Threads, ApplyInstrumentationTask(t)
    PROVE  Harmless(t) /\ task[t].pc # "idle" /\ UNCHANGED simVars
<1>1. task[t].pc = "apply" /\ task[t] \in Work
  BY AtWork DEF ApplyInstrumentationTask, At
<1>2. CASE /\ BitcodeFor(t) # None
           /\ task' = [task EXCEPT ![t].pc = "print", ![t].code = BitcodeFor(t)]
           /\ UNCHANGED <<lrOwner, loads, simVars>>
  <2> DEFINE new == [task[t] EXCEPT !.pc = "print", !.code = BitcodeFor(t)]
  <2>1. BitcodeFor(t) \in Copy
    BY <1>1, <1>2, InstrumentationTasksAssumption
       DEF BitcodeFor, AgentOfTask, Typed, Work
  <2>2. new \in Work /\ new.pc = "print" /\ new.kernel = task[t].kernel
        /\ new.preset = task[t].preset
    BY <1>1, <2>1 DEF Work, Steps
  <2>3. task' = [task EXCEPT ![t] = new]
    BY <1>2
  <2> HIDE DEF new
  <2> QED
    BY <1>1, <1>2, <2>2, <2>3, FilledAdvances DEF Harmless, Locked
<1>3. CASE Fails(t)
  BY <1>1, <1>3 DEF Fails, Harmless
<1> QED
  BY <1>2, <1>3 DEF ApplyInstrumentationTask, lockVars

LEMMA LinkHarmless ==
    ASSUME Typed, NEW t \in Threads, LinkRelocatable(t)
    PROVE  Harmless(t) /\ task[t].pc # "idle" /\ UNCHANGED simVars
<1>1. task[t].pc = "link" /\ task[t] \in Work
  BY AtWork DEF LinkRelocatable, At
<1>2. CASE /\ task' = [task EXCEPT ![t].pc = "names", ![t].last = Len(names)]
           /\ UNCHANGED <<lrOwner, loads, simVars>>
  <2> DEFINE new == [task[t] EXCEPT !.pc = "names", !.last = Len(names)]
  <2>1. Len(names) \in Nat
    BY DEF Typed
  <2>2. new \in Work /\ new.pc = "names" /\ new.kernel = task[t].kernel
        /\ new.preset = task[t].preset
    BY <1>1, <2>1 DEF Work, Steps
  <2>3. task' = [task EXCEPT ![t] = new]
    BY <1>2
  <2> HIDE DEF new
  <2> QED
    BY <1>1, <1>2, <2>2, <2>3, FilledAdvances DEF Harmless, Locked
<1>3. CASE Fails(t)
  BY <1>1, <1>3 DEF Fails, Harmless
<1> QED
  BY <1>2, <1>3 DEF LinkRelocatable, lockVars

LEMMA BindHarmless ==
    ASSUME Typed, NEW t \in Threads, BindVariable(t)
    PROVE  Harmless(t) /\ task[t].pc # "idle" /\ UNCHANGED simVars
<1>1. task[t].pc = "names" /\ task[t] \in Work
  BY AtWork DEF BindVariable, At
<1>2. CASE Goto(t, "load") /\ UNCHANGED <<lrOwner, loads, simVars>>
  BY <1>1, <1>2, GotoAdvances DEF Harmless, Steps, Locked
<1>3. CASE /\ VariableOn(t) # None
           /\ ~NamesChange(t) /\ task[t].next <= task[t].last
           /\ task' = [task EXCEPT ![t].next = @ + 1,
                                   ![t].extern[NameAt(t)] = VariableOn(t)]
           /\ UNCHANGED <<lrOwner, loads, simVars>>
  <2> DEFINE new == [task[t] EXCEPT !.next = @ + 1,
                                    !.extern = [@ EXCEPT ![NameAt(t)] = VariableOn(t)]]
  <2>1. new \in Work /\ new.pc = "names" /\ new.kernel = task[t].kernel
        /\ new.preset = task[t].preset
    <3>1. VariableOn(t) \in Copy \cup {None} \/ NameAt(t) \notin Names
      BY <1>1, InstrumentationTasksAssumption DEF VariableOn, AgentOfTask, Typed, Work
    <3>2. [task[t].extern EXCEPT ![NameAt(t)] = VariableOn(t)]
              \in [Names -> Copy \cup {None}]
      BY <1>1, <3>1 DEF Work
    <3>3. task[t].next + 1 \in Nat
      BY <1>1 DEF Work
    <3> QED
      BY <1>1, <3>2, <3>3 DEF Work
  <2>2. task' = [task EXCEPT ![t] = new]
    BY <1>3
  <2> HIDE DEF new
  <2> QED
    BY <1>1, <1>3, <2>1, <2>2, FilledAdvances DEF Harmless, Locked
<1>4. CASE Fails(t)
  BY <1>1, <1>4 DEF Fails, Harmless
<1>5. CASE UNCHANGED <<task, lrOwner, loads, simVars>>
  BY <1>1, <1>5 DEF Harmless
<1> QED
  BY <1>2, <1>3, <1>4, <1>5 DEF BindVariable, GoesWrong, lockVars

(* The other steps change no more than the program counter.                  *)
LEMMA PlainHarmless ==
    ASSUME Typed, NEW t \in Threads,
           Mutate(t) \/ Look(t) \/ PrintAssembly(t) \/ LoadInstrumentedKernel(t)
    PROVE  Harmless(t) /\ task[t].pc # "idle" /\ UNCHANGED simVars
<1>1. CASE Mutate(t)
  <2>1. CASE Fails(t)
    BY <1>1, <2>1 DEF Mutate, Fails, Harmless, At
  <2>2. CASE /\ \E pc \in {"look", "hook"} : Goto(t, pc)
             /\ UNCHANGED <<lrOwner, loads, simVars>>
    BY <1>1, <2>2, GotoAdvances DEF Mutate, Harmless, At, Steps, Locked
  <2> QED
    BY <1>1, <2>1, <2>2 DEF Mutate, lockVars
<1>2. CASE Look(t)
  BY <1>2, GotoAdvances DEF Look, Harmless, At, Steps, Locked, lockVars
<1>3. CASE PrintAssembly(t)
  BY <1>3, GotoAdvances DEF PrintAssembly, Fails, Harmless, At, Steps, Locked, lockVars
<1>4. CASE LoadInstrumentedKernel(t)
  BY <1>4, GotoAdvances DEF LoadInstrumentedKernel, Fails, Harmless, At, Steps,
     Locked, lockVars
<1> QED
  BY <1>1, <1>2, <1>3, <1>4

-----------------------------------------------------------------------------
(* The insertion: no other task is there for the same version, because both  *)
(* would own the lock of its kernel.                                         *)
LEMMA InsertKeeps ==
    ASSUME Inv, NEW t \in Threads, InsertVersion(t)
    PROVE  Inv'
<1>1. task[t].pc = "insert" /\ task[t] \in Work
  BY AtWork DEF InsertVersion, At, Inv
<1>2. VersionOf(t) \in Kernels \X Presets
  BY <1>1 DEF VersionOf, Work
<1>3. loads' = [loads EXCEPT ![VersionOf(t)] = 1]
  <2>1. loads[VersionOf(t)] + 1 = 1
    BY <1>1 DEF Inv, InsertsNew, At
  <2> QED
    BY <2>1 DEF InsertVersion
<1>4. /\ task' \in [Threads -> Task]
      /\ task'[t] = Idle /\ \A u \in Threads \ {t} : task'[u] = task[u]
      /\ lrOwner' \in [Kernels -> Threads \cup {None}]
      /\ \A k \in Kernels : lrOwner[k] # t => lrOwner'[k] = lrOwner[k]
  BY Left DEF InsertVersion, Inv
<1>5. \A u \in Threads : task'[u].pc # "idle" => u # t /\ task'[u] = task[u]
  BY <1>4 DEF Idle
<1>6. \A u \in Threads : task[u].pc # "idle" => task[u] \in Work
  BY AtWork DEF Inv
<1>7. Typed'
  <2>1. SimTyped'
    BY SimUnchanged DEF InsertVersion, Inv
  <2> QED
    BY <1>2, <1>3, <1>4, <2>1 DEF Typed, SimTyped, Inv
<1>8. OwnersWork'
  BY <1>4, <1>5, <1>6 DEF Inv, OwnersWork, Locked, Work
<1>9. InsertsNew'
  <2> SUFFICES ASSUME NEW u \in Threads, task'[u].pc = "insert"
               PROVE  loads'[VersionOf(u)'] = 0
    BY DEF InsertsNew, At
  <2>1. u # t /\ task'[u] = task[u] /\ task[u].pc = "insert" /\ task[u] \in Work
    BY <1>5, <1>6
  <2>2. VersionOf(u)' = VersionOf(u) /\ VersionOf(u) \in Kernels \X Presets
    BY <2>1 DEF VersionOf, Work
  <2>3. task[u].kernel # task[t].kernel
    BY <1>1, <2>1 DEF Inv, OwnersWork, Locked
  <2>4. VersionOf(u) # VersionOf(t)
    BY <2>3 DEF VersionOf
  <2>5. loads[VersionOf(u)] = 0
    BY <2>1 DEF Inv, InsertsNew, At
  <2> QED
    BY <1>3, <2>2, <2>4, <2>5 DEF Inv, Typed
<1>10. OncePerPreset'
  BY <1>2, <1>3 DEF Inv, Typed, OncePerPreset
<1> QED
  BY <1>7, <1>8, <1>9, <1>10 DEF Inv

LEMMA TaskKeeps ==
    ASSUME Inv, NEW t \in Threads, TaskStep(t)
    PROVE  Inv'
<1>1. CASE InsertVersion(t)
  BY <1>1, InsertKeeps
<1>2. CASE ~InsertVersion(t)
  <2>1. Harmless(t) /\ task[t].pc # "idle" /\ UNCHANGED simVars
    BY <1>2, LiftHarmless, LockHarmless, HooksHarmless, ApplyHarmless,
       LinkHarmless, BindHarmless, PlainHarmless DEF TaskStep, Inv
  <2>2. CASE Advance(t)
    BY <2>1, <2>2, AdvanceKeeps, AdvanceTyped DEF Inv
  <2>3. CASE Leaves(t) /\ loads' = loads
    BY <2>1, <2>3, LeaveKeeps, LeaveTyped DEF Inv
  <2>4. CASE UNCHANGED <<task, lrOwner, loads>>
    BY <2>1, <2>4, StuckTyped
       DEF Inv, OwnersWork, InsertsNew, OncePerPreset, At, VersionOf
  <2> QED
    BY <2>1, <2>2, <2>3, <2>4 DEF Harmless
<1> QED
  BY <1>1, <1>2

LEMMA StartKeeps ==
    ASSUME Inv, NEW t \in Threads, NEW k \in Kernels, NEW p \in Presets,
           StartTask(t, k, p)
    PROVE  Inv'
<1> DEFINE new == [pc |-> "lift", kernel |-> k, preset |-> p, hooked |-> FALSE,
                   code |-> None, next |-> 1, last |-> 0, extern |-> NoVariables]
<1>1. new \in Work /\ new.pc = "lift"
  BY DEF Work, Steps, NoVariables
<1>2. task' = [task EXCEPT ![t] = new] /\ UNCHANGED <<lrOwner, loads, simVars>>
  BY DEF StartTask, lockVars
<1> HIDE DEF new
<1>3. task' \in [Threads -> Task]
  BY <1>1, <1>2 DEF Inv, Typed, Task, Work
<1>4. Typed'
  <2>1. SimTyped'
    BY <1>2, SimUnchanged DEF Inv
  <2> QED
    BY <1>2, <1>3, <2>1 DEF Inv, Typed, SimTyped
<1>5. \A u \in Threads : task'[u].pc \in Locked => task'[u] = task[u]
  BY <1>1, <1>2 DEF Inv, Typed, Locked
<1> QED
  BY <1>2, <1>4, <1>5
     DEF Inv, OwnersWork, InsertsNew, OncePerPreset, At, VersionOf, Locked

(* Modules come and go without the state of tasks.                           *)
LEMMA ModulesKeep ==
    ASSUME Inv, UNCHANGED taskVars, SimTyped'
    PROVE  Inv'
<1>1. UNCHANGED <<task, lrOwner, loads>>
  BY DEF taskVars, lockVars
<1>2. Typed'
  BY <1>1 DEF Inv, Typed, SimTyped
<1> QED
  BY <1>1, <1>2 DEF Inv, OwnersWork, InsertsNew, OncePerPreset, At, VersionOf

LEMMA ModuleStepKeeps ==
    ASSUME Inv,
           \/ \E t \in Threads : RegisterVariable(t)
           \/ \E t \in Threads, a \in Agents, m \in Modules : LoadModule(t, a, m)
           \/ \E a \in Agents : UnloadModule(a)
           \/ \E hook \in Hooks : RegisterFunction(hook)
    PROVE  Inv'
<1>1. ASSUME NEW t \in Threads, RegisterVariable(t)
      PROVE  Inv'
  <2>1. registering \in Registration /\ registering.copy \in Copy
    BY <1>1, InstrumentationTasksAssumption
       DEF RegisterVariable, Registers, Inv, Typed, Registration
  <2>2. CASE registering.left # <<>>
    <3>1. Head(registering.left) \in Names /\ Tail(registering.left) \in Seq(Names)
      BY <2>1, <2>2 DEF Registration
    <3>2. registering' \in Registration
      BY <1>1, <2>1, <2>2, <3>1 DEF RegisterVariable, Registration
    <3>3. names' \in Seq(Names)
      <4>1. names \in Seq(Names) /\ Append(names, Head(registering.left)) \in Seq(Names)
        BY <3>1 DEF Inv, Typed
      <4>2. names' = Append(names, Head(registering.left)) \/ names' = names
        BY <1>1, <2>2 DEF RegisterVariable
      <4> QED
        BY <4>1, <4>2
    <3>4. variables' \in [Agents -> [Names -> Copy \cup {None}]]
      <4> DEFINE a == registering.copy.agent
                 new == [variables[a] EXCEPT ![Head(registering.left)] =
                            registering.copy]
      <4>1. a \in Agents /\ variables[a] \in [Names -> Copy \cup {None}]
        BY <2>1 DEF Copy, Inv, Typed
      <4>2. new \in [Names -> Copy \cup {None}]
        BY <2>1, <4>1
      <4>3. variables' = [variables EXCEPT ![a] = new]
        BY <1>1, <2>2 DEF RegisterVariable, RecordOf
      <4> HIDE DEF a, new
      <4> QED
        BY <4>1, <4>2, <4>3 DEF Inv, Typed
    <3> QED
      BY <1>1, <3>2, <3>3, <3>4, ModulesKeep DEF RegisterVariable, Inv, Typed, SimTyped
  <2>3. CASE registering.left = <<>>
    BY <1>1, <2>3, ModulesKeep DEF RegisterVariable, Inv, Typed, SimTyped
  <2> QED
    BY <2>2, <2>3
<1>2. ASSUME NEW t \in Threads, NEW a \in Agents, NEW m \in Modules,
             LoadModule(t, a, m)
      PROVE  Inv'
  <2> DEFINE copy == [agent |-> a, module |-> m, number |-> numCopies + 1]
  <2>1. copy \in Copy /\ copy.agent = a /\ copy.module = m
    <3>1. numCopies + 1 \in 1..MaxCopies
      BY <1>2, InstrumentationTasksAssumption DEF LoadModule, Inv, Typed
    <3> QED
      BY <3>1 DEF Copy
  <2>2. numCopies' \in Nat /\ UNCHANGED <<variables, names>> /\ UNCHANGED taskVars
    BY <1>2 DEF LoadModule, Inv, Typed
  <2>3. RegisterExecutable(t, copy) \/ UNCHANGED <<bitcode, registering>>
    BY <1>2 DEF LoadModule
  <2> HIDE DEF copy
  <2>4. CASE RegisterExecutable(t, copy)
    <3>1. bitcode' \in [Agents -> Copy \cup {None}]
      BY <2>1, <2>4 DEF RegisterExecutable, Inv, Typed
    <3>2. VariablesOf[Cuid(copy)] \in Seq(Names) /\ FirstTimeInit \in BOOLEAN
      BY <2>1, InstrumentationTasksAssumption DEF Cuid, FirstTimeInit
    <3>3. registering' \in Registration
      BY <2>1, <2>4, <3>2 DEF RegisterExecutable, Registration
    <3> QED
      BY <2>2, <3>1, <3>3, ModulesKeep DEF Inv, Typed, SimTyped
  <2>5. CASE UNCHANGED <<bitcode, registering>>
    BY <2>2, <2>5, ModulesKeep DEF Inv, Typed, SimTyped
  <2> QED
    BY <2>3, <2>4, <2>5
<1>3. ASSUME NEW a \in Agents, UnloadModule(a)
      PROVE  Inv'
  <2>1. NoVariables \in [Names -> Copy \cup {None}]
    BY DEF NoVariables
  <2>2. variables' \in [Agents -> [Names -> Copy \cup {None}]]
    BY <1>3, <2>1 DEF UnloadModule, Erase, Inv, Typed
  <2>3. bitcode' \in [Agents -> Copy \cup {None}]
    BY <1>3 DEF UnloadModule, Erase, Inv, Typed
  <2>4. names' = <<>> \/ names' = names
    BY <1>3 DEF UnloadModule, Erase
  <2>5. names' \in Seq(Names)
    <3>1. names \in Seq(Names)
      BY DEF Inv, Typed
    <3>2. <<>> \in Seq(Names)
      OBVIOUS
    <3> QED
      BY <2>4, <3>1, <3>2, Zenon
  <2> QED
    BY <1>3, <2>2, <2>3, <2>5, ModulesKeep DEF UnloadModule, Inv, Typed, SimTyped
<1>4. ASSUME NEW hook \in Hooks, RegisterFunction(hook)
      PROVE  Inv'
  BY <1>4, ModulesKeep DEF RegisterFunction, Inv, Typed, SimTyped
<1> QED
  BY <1>1, <1>2, <1>3, <1>4

-----------------------------------------------------------------------------
LEMMA InvInit == Init => Inv
<1> SUFFICES ASSUME Init PROVE Inv
  OBVIOUS
<1>1. NoVariables \in [Names -> Copy \cup {None}] /\ Idle \in Task
  BY DEF NoVariables, Task
<1>2. Typed
  BY <1>1 DEF Init, Typed
<1> QED
  BY <1>2 DEF Init, Inv, OwnersWork, InsertsNew, OncePerPreset, At, Idle, Locked

LEMMA InvNext == Inv /\ [Next]_vars => Inv'
<1> SUFFICES ASSUME Inv, [Next]_vars PROVE Inv'
  OBVIOUS
<1>1. CASE UNCHANGED vars
  <2>1. Typed'
    BY <1>1, StuckTyped DEF vars, lockVars, Inv
  <2> QED
    BY <1>1, <2>1 DEF vars, lockVars, Inv, OwnersWork, InsertsNew, OncePerPreset, At, VersionOf
<1>2. ASSUME NEW t \in Threads, NEW k \in Kernels, NEW p \in Presets,
             StartTask(t, k, p)
      PROVE  Inv'
  BY <1>2, StartKeeps
<1>3. ASSUME NEW t \in Threads, TaskStep(t)
      PROVE  Inv'
  BY <1>3, TaskKeeps
<1>4. CASE \/ \E t \in Threads : RegisterVariable(t)
           \/ \E t \in Threads, a \in Agents, m \in Modules : LoadModule(t, a, m)
           \/ \E a \in Agents : UnloadModule(a)
           \/ \E hook \in Hooks : RegisterFunction(hook)
  BY <1>4, ModuleStepKeeps
<1> QED
  BY <1>1, <1>2, <1>3, <1>4 DEF Next, Rests

(* Whatever threads lift, instrument and load at once, and however modules   *)
(* come and go: loadInstrumentedKernel loads a kernel at most once under a   *)
(* preset (ToolExecutableLoader.cpp:162, luthier.cpp:116).                   *)
THEOREM AlwaysOncePerPreset == Spec => []OncePerPreset
<1>1. Inv => OncePerPreset
  BY DEF Inv
<1> QED
  BY <1>1, InvInit, InvNext, PTL DEF Spec

-----------------------------------------------------------------------------
(***************************************************************************)
(* The tool's module on the agents, and the tasks that read it: a task with *)
(* hooks binds every variable to the copy on its own agent and runs into    *)
(* nothing undefined, and registration has no reason to refuse a copy of    *)
(* the same module.                                                         *)
(***************************************************************************)

(* Types of what the theorems so far had no use for.                         *)
ModulesTyped ==
    /\ copies \in [Agents -> Copy \cup {None}]
    /\ executables \in [Agents -> Copy \cup {None}]
    /\ \A a \in Agents : executables[a] # None => executables[a].agent = a

(* The variables of the module whose copy is registered on agent a.          *)
VarsOn(a) == VariablesOf[Cuid(executables[a])]

(* A name that the registration under way has still to come to.              *)
Awaited(v) == registering # None /\ \E j \in DOMAIN registering.left :
                  registering.left[j] = v

(* The code that is kept is that of the registered copies, of one module.    *)
OneModule ==
    /\ bitcode = executables
    /\ \A a, b \in Agents : executables[a] # None /\ executables[b] # None =>
          Cuid(executables[a]) = Cuid(executables[b])

(* The registration under way is of the copy that is registered.             *)
RegisteringKnown == registering # None =>
    /\ registering.copy \in Copy
    /\ executables[registering.copy.agent] = registering.copy
    /\ \A j \in DOMAIN registering.left :
          \E i \in DOMAIN VariablesOf[Cuid(registering.copy)] :
             VariablesOf[Cuid(registering.copy)][i] = registering.left[j]

(* Each variable is recorded on each agent that has a copy, once its         *)
(* registration has come to it.                                              *)
Recorded == \A a \in Agents : executables[a] # None =>
    \A i \in DOMAIN VarsOn(a) :
       \/ variables[a][VarsOn(a)[i]] = executables[a]
       \/ Awaited(VarsOn(a)[i]) /\ registering.copy.agent = a

(* The names are those of the module, the first registration adding them.    *)
NamesKnown == \A a \in Agents : executables[a] # None =>
    /\ \A j \in DOMAIN names : \E i \in DOMAIN VarsOn(a) : VarsOn(a)[i] = names[j]
    /\ \A i \in DOMAIN VarsOn(a) :
          \/ \E j \in DOMAIN names : names[j] = VarsOn(a)[i]
          \/ Awaited(VarsOn(a)[i]) /\ registering.first

NoNames == FirstTimeInit => names = <<>>

(* What is registered is what is loaded, unless unloading goes unnoticed.    *)
Noticed == unregisters \/ unloaded = {}
RegisteredLoaded == Noticed => \A a \in Agents :
    /\ executables[a] # None => copies[a] = executables[a]
    /\ ~fatal /\ copies[a] # None => executables[a] = copies[a]

ModulesInv ==
    /\ ModulesTyped /\ OneModule /\ RegisteringKnown /\ Recorded /\ NamesKnown
    /\ NoNames /\ RegisteredLoaded /\ RegistrationSucceeds

-----------------------------------------------------------------------------
(* The steps of lift that hold CacheMutex.                                   *)
Lifting == {"init", "target", "fill", "disassemble"}
TargetsTyped == targetInfo \in [Isas -> {"absent", "empty", "complete"}]
CacheHeld == \A t \in Threads : task[t].pc \in Lifting => cacheOwner = t

(* An empty entry is one that is being filled, or could not be.              *)
Filling == \A i \in Isas : targetInfo[i] = "empty" =>
    i \in failed \/ \E t \in Threads : At(t, "fill") /\ IsaOfTask(t) = i

(* The steps before a hook is inserted, and those after the code is read.    *)
Early == Lifting \cup {"lift", "lock", "mutate", "look", "hook"}
Later == {"print", "link", "names", "load", "insert"}

BeginsAfresh == \A t \in Threads :
    /\ task[t].pc \in Early => ~task[t].hooked
    /\ task[t].pc \in Early \cup {"apply", "print", "link"} => task[t].next = 1

(* A task with hooks has the code of its agent's copy, which stays, and so   *)
(* do the names; it has bound those that it has come to.                     *)
BoundTo(t) ==
    LET copy == executables[AgentOfTask(t)] IN
    /\ task[t].code = copy /\ copy # None
    /\ registering # None =>
          ~registering.first /\ registering.copy.agent # AgentOfTask(t)
    /\ At(t, "names") =>
          /\ task[t].last = Len(names)
          /\ task[t].next \in 1..Len(names) + 1
          /\ \A j \in 1..task[t].next - 1 : task[t].extern[names[j]] = copy
    /\ task[t].pc \in {"load", "insert"} =>
          \A j \in DOMAIN names : task[t].extern[names[j]] = copy

HookedBound == \A t \in Threads :
    task[t].pc \in Later /\ task[t].hooked => BoundTo(t)

HooksInv == /\ Inv /\ ModulesInv /\ TargetsTyped /\ CacheHeld /\ Filling
            /\ BeginsAfresh /\ HookedBound /\ WrongOnlyIf /\ VariablesOwn

-----------------------------------------------------------------------------
(* The modules, and the variables that their registration records.           *)

(* The variables of a registered copy are a sequence of names.               *)
LEMMA VarsTyped ==
    ASSUME ModulesTyped, NEW a \in Agents, executables[a] # None
    PROVE  /\ executables[a] \in Copy /\ Cuid(executables[a]) \in Modules
           /\ VarsOn(a) \in Seq(Names)
  <1>1. executables[a] \in Copy
    BY DEF ModulesTyped
  <1>2. executables[a].module \in Modules
    BY <1>1 DEF Copy
  <1> QED  BY <1>1, <1>2, InstrumentationTasksAssumption DEF VarsOn, Cuid

(* None of this depends on anything but the modules.                         *)
LEMMA ModulesStay ==
    ASSUME ModulesInv,
           UNCHANGED <<copies, executables, bitcode, variables, names,
                       registering, unregisters, unloaded, fatal>>
    PROVE  ModulesInv'
  <1>1. ModulesTyped' /\ OneModule' /\ RegisteringKnown'
    BY DEF ModulesInv, ModulesTyped, OneModule, RegisteringKnown, Cuid
  <1>2. \A a \in Agents : VarsOn(a)' = VarsOn(a)
    BY DEF VarsOn, Cuid
  <1>3. Recorded'
    BY <1>2 DEF ModulesInv, Recorded, Awaited
  <1>4. NamesKnown'
    BY <1>2 DEF ModulesInv, NamesKnown, Awaited
  <1>5. NoNames' /\ RegisteredLoaded' /\ RegistrationSucceeds'
    BY DEF ModulesInv, NoNames, FirstTimeInit, RegisteredLoaded, Noticed,
           RegistrationSucceeds
  <1> QED  BY <1>1, <1>3, <1>4, <1>5 DEF ModulesInv

LEMMA RegisterFunctionModules ==
    ASSUME ModulesInv, NEW hook \in Hooks, RegisterFunction(hook)
    PROVE  ModulesInv'
  BY ModulesStay DEF RegisterFunction, taskVars

(* A copy that is refused is of another module, or its agent's is unnoticed. *)
LEMMA RefusedWithReason ==
    ASSUME Inv, ModulesInv, ~fatal, NEW t \in Threads, NEW a \in Agents,
           NEW m \in Modules, LoadModule(t, a, m), fatal'
    PROVE  RegistrationSucceeds'
  <1> DEFINE copy == [agent |-> a, module |-> m, number |-> numCopies + 1]
  <1>1. /\ ~MayRegister(copy) /\ copies[a] = None
        /\ copies' = [copies EXCEPT ![a] = copy]
        /\ UNCHANGED <<executables, unregisters, unloaded>>
    BY Zenon DEF LoadModule
  <1>2. copy \in Copy /\ copy.module = m /\ copy.agent = a
    BY InstrumentationTasksAssumption DEF LoadModule, Inv, Typed, Copy
  <1> HIDE DEF copy
  <1>3. copies'[a] = copy
    BY <1>1 DEF ModulesInv, ModulesTyped
  <1>4. CASE executables[a] # None
    BY <1>1, <1>4 DEF ModulesInv, RegisteredLoaded, Noticed, RegistrationSucceeds
  <1>5. CASE executables[a] = None
    <2>1. PICK b \in Agents : executables[b] # None /\ Cuid(executables[b]) # Cuid(copy)
      BY <1>1, <1>2, <1>5 DEF MayRegister
    <2>2. copies'[a].module # executables'[b].module /\ executables'[b] # None
      BY <1>1, <1>3, <2>1 DEF Cuid
    <2>3. copy # None
      BY <1>2, NoneAssumption
    <2> QED  BY <1>3, <2>2, <2>3 DEF RegistrationSucceeds
  <1> QED  BY <1>4, <1>5

LEMMA LoadModuleModules ==
    ASSUME Inv, ModulesInv, ~fatal, NEW t \in Threads, NEW a \in Agents,
           NEW m \in Modules, LoadModule(t, a, m)
    PROVE  ModulesInv'
  <1> DEFINE copy == [agent |-> a, module |-> m, number |-> numCopies + 1]
             known == VariablesOf[m]
  <1>1. copy \in Copy /\ copy.module = m /\ copy.agent = a /\ Cuid(copy) = m
        /\ copy # None
    BY InstrumentationTasksAssumption, NoneAssumption
    DEF LoadModule, Inv, Typed, Copy, Cuid
  <1>2. /\ copies[a] = None /\ registering = None
        /\ copies' = [copies EXCEPT ![a] = copy]
        /\ UNCHANGED <<variables, names, unregisters, unloaded>>
        /\ \/ MayRegister(copy) /\ RegisterExecutable(t, copy) /\ fatal' = fatal
           \/ fatal' = TRUE /\ UNCHANGED <<executables, bitcode, registering>>
    BY Zenon DEF LoadModule, taskVars
  <1> HIDE DEF copy
  <1>3. /\ copies' \in [Agents -> Copy \cup {None}] /\ copies'[a] = copy
        /\ \A b \in Agents \ {a} : copies'[b] = copies[b]
    BY <1>1, <1>2 DEF ModulesInv, ModulesTyped
  <1>4. CASE fatal' = TRUE /\ UNCHANGED <<executables, bitcode, registering>>
    <2>1. RegistrationSucceeds'
      BY <1>4, RefusedWithReason
    <2>2. ModulesTyped' /\ OneModule' /\ RegisteringKnown'
      BY <1>2, <1>3, <1>4
      DEF ModulesInv, ModulesTyped, OneModule, RegisteringKnown, Cuid
    <2>3. \A b \in Agents : VarsOn(b)' = VarsOn(b)
      BY <1>4 DEF VarsOn, Cuid
    <2>4. Recorded' /\ NamesKnown'
      BY <1>2, <1>4, <2>3 DEF ModulesInv, Recorded, NamesKnown, Awaited
    <2>5. NoNames'
      BY <1>2, <1>4 DEF ModulesInv, NoNames, FirstTimeInit
    <2>6. RegisteredLoaded'
      BY <1>1, <1>2, <1>3, <1>4 DEF ModulesInv, RegisteredLoaded, Noticed
    <2> QED  BY <2>1, <2>2, <2>4, <2>5, <2>6 DEF ModulesInv
  <1>5. CASE MayRegister(copy) /\ RegisterExecutable(t, copy) /\ fatal' = fatal
    <2>1. /\ executables[a] = None
          /\ \A b \in Agents : executables[b] # None => Cuid(executables[b]) = m
          /\ executables' = [executables EXCEPT ![a] = copy]
          /\ bitcode' = [bitcode EXCEPT ![a] = copy]
          /\ registering' = [thread |-> t, copy |-> copy, first |-> FirstTimeInit,
                             left |-> known]
      BY <1>1, <1>5 DEF MayRegister, RegisterExecutable
    <2>2. /\ executables'[a] = copy /\ Cuid(executables[a])' = m
          /\ \A b \in Agents \ {a} : executables'[b] = executables[b]
          /\ \A b \in Agents : executables'[b] # None =>
                Cuid(executables[b])' = m /\ VarsOn(b)' = known
      BY <1>1, <2>1 DEF ModulesInv, ModulesTyped, VarsOn, Cuid
    <2>3. known \in Seq(Names) /\ FirstTimeInit \in BOOLEAN
      BY InstrumentationTasksAssumption DEF FirstTimeInit
    <2>4. registering' \in Registration /\ registering' # None
          /\ registering'.copy = copy /\ registering'.left = known
          /\ registering'.first = FirstTimeInit
      <3> HIDE DEF known
      <3>1. registering' \in Registration
        BY <1>1, <2>1, <2>3 DEF Registration
      <3> QED  BY <2>1, <3>1, NoneAssumption
    <2>5. \A i \in DOMAIN known : Awaited(known[i])'
      BY <2>4 DEF Awaited
    <2>6. ModulesTyped' /\ OneModule'
      BY <1>1, <1>2, <1>3, <2>1, <2>2 DEF ModulesInv, ModulesTyped, OneModule
    <2>7. RegisteringKnown'
      BY <1>1, <2>2, <2>4 DEF RegisteringKnown
    <2>8. Recorded'
      <3> SUFFICES ASSUME NEW b \in Agents, executables'[b] # None,
                          NEW i \in DOMAIN known
                   PROVE  \/ variables'[b][known[i]] = executables'[b]
                          \/ Awaited(known[i])' /\ registering'.copy.agent = b
        BY <2>2 DEF Recorded
      <3>1. CASE b = a
        BY <1>1, <2>4, <2>5, <3>1
      <3>2. CASE b # a
        <4>1. executables[b] # None /\ VarsOn(b) = known
          BY <2>1, <2>2, <3>2 DEF VarsOn
        <4> QED  BY <1>2, <2>2, <3>2, <4>1 DEF ModulesInv, Recorded, Awaited
      <3> QED  BY <3>1, <3>2
    <2>9. NamesKnown'
      <3> SUFFICES ASSUME NEW b \in Agents, executables'[b] # None
                   PROVE  /\ \A j \in DOMAIN names : \E i \in DOMAIN known :
                                 known[i] = names[j]
                          /\ \A i \in DOMAIN known :
                                \/ \E j \in DOMAIN names : names[j] = known[i]
                                \/ Awaited(known[i])' /\ registering'.first
        BY <1>2, <2>2 DEF NamesKnown
      <3>1. CASE FirstTimeInit
        <4>1. names = <<>>
          BY <3>1 DEF ModulesInv, NoNames
        <4> QED  BY <2>4, <2>5, <3>1, <4>1
      <3>2. CASE ~FirstTimeInit
        <4>1. PICK c \in Agents : executables[c] # None /\ VarsOn(c) = known
          BY <2>1, <3>2 DEF FirstTimeInit, VarsOn
        <4> QED  BY <1>2, <4>1 DEF ModulesInv, NamesKnown, Awaited
      <3> QED  BY <3>1, <3>2
    <2>10. NoNames'
      BY <1>1, <2>2 DEF NoNames, FirstTimeInit
    <2>11. RegisteredLoaded' /\ RegistrationSucceeds'
      BY <1>1, <1>2, <1>3, <1>5, <2>2
      DEF ModulesInv, RegisteredLoaded, Noticed, RegistrationSucceeds
    <2> QED  BY <2>6, <2>7, <2>8, <2>9, <2>10, <2>11 DEF ModulesInv
  <1> QED  BY <1>2, <1>4, <1>5

(* One step of the loop over a copy's variables, and the end of the loop.    *)
LEMMA RegisterVariableModules ==
    ASSUME Inv, ModulesInv, NEW t \in Threads, RegisterVariable(t)
    PROVE  ModulesInv'
  <1> DEFINE copy == registering.copy
             left == registering.left
             a == copy.agent
  <1>0. PICK known : known = VariablesOf[Cuid(copy)]
    OBVIOUS
  <1>1. /\ registering \in Registration /\ registering # None
        /\ copy \in Copy /\ a \in Agents /\ copy # None
        /\ executables[a] = copy /\ VarsOn(a) = known
        /\ left \in Seq(Names)
        /\ UNCHANGED <<copies, executables, bitcode, unregisters,
                       unloaded, fatal>>
    <2>1. registering \in Registration /\ registering # None
      BY DEF RegisterVariable, Registers, Inv, Typed
    <2>2. copy \in Copy /\ a \in Agents /\ copy # None
      BY <2>1, NoneAssumption DEF Registration, Copy
    <2>3. executables[a] = copy
      BY <2>1 DEF ModulesInv, RegisteringKnown
    <2> QED  BY <1>0, <2>1, <2>2, <2>3
             DEF RegisterVariable, taskVars, VarsOn, Registration
  <1>2. /\ \A b \in Agents : VarsOn(b)' = VarsOn(b)
        /\ \A b \in Agents : executables[b] # None => VarsOn(b) = known
    BY <1>0, <1>1 DEF VarsOn, ModulesInv, OneModule, Cuid
  <1>3. ModulesTyped' /\ OneModule' /\ RegisteredLoaded' /\ RegistrationSucceeds'
    BY <1>1 DEF ModulesInv, ModulesTyped, OneModule, Cuid, RegisteredLoaded,
                Noticed, RegistrationSucceeds
  <1>4. NoNames'
    BY <1>1 DEF NoNames, FirstTimeInit
  <1>5. CASE left = <<>> /\ registering' = None /\ UNCHANGED <<variables, names>>
    <2>1. \A v : ~Awaited(v)
      BY <1>5 DEF Awaited
    <2>2. Recorded' /\ NamesKnown'
      BY <1>1, <1>2, <1>5, <2>1 DEF ModulesInv, Recorded, NamesKnown
    <2> QED  BY <1>3, <1>4, <1>5, <2>2 DEF ModulesInv, RegisteringKnown
  <1>6. CASE /\ left # <<>>
             /\ variables' = RecordOf(copy)
             /\ names' = IF registering.first THEN Append(names, Head(left)) ELSE names
             /\ registering' = [registering EXCEPT !.left = Tail(@)]
    <2> DEFINE v == Head(left)
    <2>1. /\ v \in Names /\ Tail(left) \in Seq(Names)
          /\ \A j \in DOMAIN Tail(left) : j + 1 \in DOMAIN left /\ Tail(left)[j] = left[j + 1]
          /\ \A j \in DOMAIN left : left[j] = v
                \/ \E k \in DOMAIN Tail(left) : Tail(left)[k] = left[j]
          /\ \E j \in DOMAIN left : left[j] = v
      <3> HIDE DEF left
      <3>1. left \in Seq(Names) /\ left # <<>>
        BY <1>1, <1>6
      <3>2. ASSUME NEW j \in DOMAIN left, j # 1
            PROVE  j - 1 \in DOMAIN Tail(left) /\ Tail(left)[j - 1] = left[j]
        BY <3>1, <3>2
      <3>3. left[1] = Head(left) /\ 1 \in DOMAIN left
        BY <3>1
      <3> QED  BY <3>1, <3>2, <3>3
    <2>2. /\ registering' \in Registration /\ registering' # None
          /\ registering'.copy = copy /\ registering'.left = Tail(left)
          /\ registering'.first = registering.first
      <3>1. registering' \in Registration
        BY <1>1, <1>6, <2>1 DEF Registration
      <3> QED  BY <1>1, <1>6, <3>1, NoneAssumption DEF Registration
    <2>3. \A w : Awaited(w) => w = v \/ Awaited(w)'
      BY <2>1, <2>2, SMTT(30) DEF Awaited
    <2> HIDE DEF left, copy, v
    <2>4. RegisteringKnown'
      BY <1>0, <1>1, <2>1, <2>2 DEF ModulesInv, RegisteringKnown, left, copy
    <2>5. /\ variables'[a][v] = copy
          /\ \A w \in Names \ {v} : variables'[a][w] = variables[a][w]
          /\ \A b \in Agents \ {a} : variables'[b] = variables[b]
      BY <1>1, <1>6, <2>1 DEF RecordOf, Inv, Typed, v, left
    <2>6. Recorded'
      <3> SUFFICES ASSUME NEW b \in Agents, executables[b] # None,
                          NEW i \in DOMAIN known
                   PROVE  \/ variables'[b][known[i]] = executables[b]
                          \/ Awaited(known[i])' /\ registering'.copy.agent = b
        BY <1>1, <1>2 DEF Recorded
      <3>1. \/ variables[b][known[i]] = executables[b]
            \/ Awaited(known[i]) /\ a = b
        BY <1>2 DEF ModulesInv, Recorded, copy
      <3>2. known[i] \in Names
        BY <1>1, VarsTyped DEF ModulesInv
      <3>3. CASE b = a
        BY <1>1, <2>2, <2>3, <2>5, <3>1, <3>2, <3>3
      <3>4. CASE b # a
        BY <2>5, <3>1, <3>4
      <3> QED  BY <3>3, <3>4
    <2>7. NamesKnown'
      <3>1. \E i \in DOMAIN known : known[i] = v
        BY <1>0, <1>1, <2>1 DEF ModulesInv, RegisteringKnown, left, copy
      <3>2. /\ \A j \in DOMAIN names' : 
                  names'[j] = v \/ (j \in DOMAIN names /\ names'[j] = names[j])
            /\ \A j \in DOMAIN names : j \in DOMAIN names' /\ names'[j] = names[j]
            /\ registering.first => \E j \in DOMAIN names' : names'[j] = v
        <4>1. names \in Seq(Names)
          BY DEF Inv, Typed
        <4>2. CASE registering.first
          <5>1. names' = Append(names, v)
            BY <1>6, <4>2 DEF v
          <5>2. names'[Len(names) + 1] = v /\ Len(names) + 1 \in DOMAIN names'
            BY <2>1, <4>1, <5>1
          <5> QED  BY <2>1, <4>1, <5>1, <5>2
        <4>3. CASE ~registering.first
          BY <1>6, <4>1, <4>3
        <4> QED  BY <4>2, <4>3
      <3> SUFFICES ASSUME NEW b \in Agents, executables[b] # None
                   PROVE  /\ \A j \in DOMAIN names' : \E i \in DOMAIN known :
                                 known[i] = names'[j]
                          /\ \A i \in DOMAIN known :
                                \/ \E j \in DOMAIN names' : names'[j] = known[i]
                                \/ Awaited(known[i])' /\ registering'.first
        BY <1>1, <1>2 DEF NamesKnown
      <3>3. /\ \A j \in DOMAIN names : \E i \in DOMAIN known : known[i] = names[j]
            /\ \A i \in DOMAIN known :
                  \/ \E j \in DOMAIN names : names[j] = known[i]
                  \/ Awaited(known[i]) /\ registering.first
        BY <1>2 DEF ModulesInv, NamesKnown
      <3>4. \A j \in DOMAIN names' : \E i \in DOMAIN known : known[i] = names'[j]
        BY <3>1, <3>2, <3>3
      <3>5. \A i \in DOMAIN known :
                  \/ \E j \in DOMAIN names' : names'[j] = known[i]
                  \/ Awaited(known[i])' /\ registering'.first
        BY <2>2, <2>3, <3>2, <3>3
      <3> QED  BY <3>4, <3>5
    <2> QED  BY <1>3, <1>4, <2>4, <2>6, <2>7 DEF ModulesInv
  <1> QED  BY <1>5, <1>6 DEF RegisterVariable

(* Unloading takes what the agent had, when it is noticed.                   *)
LEMMA UnloadModuleModules ==
    ASSUME ModulesInv, ~fatal, NEW a \in Agents, UnloadModule(a)
    PROVE  ModulesInv'
  <1>1. /\ copies' = [copies EXCEPT ![a] = None] /\ unloaded' # {}
        /\ registering = None
        /\ UNCHANGED <<registering, unregisters, fatal>>
        /\ \/ unregisters /\ Erase(a)
           \/ ~unregisters /\ UNCHANGED <<variables, bitcode, executables, names>>
    BY DEF UnloadModule, taskVars
  <1>2. /\ copies' \in [Agents -> Copy \cup {None}] /\ copies'[a] = None
        /\ \A b \in Agents \ {a} : copies'[b] = copies[b]
    BY <1>1 DEF ModulesInv, ModulesTyped
  <1>3. RegistrationSucceeds' /\ RegisteringKnown'
    BY <1>1 DEF RegistrationSucceeds, RegisteringKnown
  <1>4. \A v : ~Awaited(v) /\ ~Awaited(v)'
    BY <1>1 DEF Awaited
  <1>5. CASE ~unregisters /\ UNCHANGED <<variables, bitcode, executables, names>>
    <2>1. ModulesTyped' /\ OneModule' /\ NoNames' /\ RegisteredLoaded'
      BY <1>1, <1>2, <1>5 DEF ModulesInv, ModulesTyped, OneModule, NoNames,
         FirstTimeInit, RegisteredLoaded, Noticed, Cuid
    <2>2. \A b \in Agents : VarsOn(b)' = VarsOn(b)
      BY <1>5 DEF VarsOn, Cuid
    <2>3. Recorded' /\ NamesKnown'
      BY <1>4, <1>5, <2>2 DEF ModulesInv, Recorded, NamesKnown
    <2> QED  BY <1>3, <2>1, <2>3 DEF ModulesInv
  <1>6. CASE unregisters /\ Erase(a)
    <2>1. /\ executables' = [executables EXCEPT ![a] = None]
          /\ bitcode' = [bitcode EXCEPT ![a] = None]
          /\ executables'[a] = None
          /\ \A b \in Agents \ {a} : executables'[b] = executables[b]
          /\ \A b \in Agents \ {a} : variables'[b] = variables[b]
      BY <1>6 DEF Erase, ModulesInv, ModulesTyped
    <2>2. /\ FirstTimeInit' => names' = <<>>
          /\ ~FirstTimeInit' => names' = names
      BY <1>6, <2>1 DEF Erase, FirstTimeInit
    <2>3. \A b \in Agents : executables'[b] # None =>
              /\ b # a /\ executables[b] # None /\ VarsOn(b)' = VarsOn(b)
              /\ ~FirstTimeInit'
      BY <2>1 DEF VarsOn, Cuid, FirstTimeInit
    <2>4. ModulesTyped' /\ OneModule'
      BY <1>1, <1>2, <2>1 DEF ModulesInv, ModulesTyped, OneModule, Cuid
    <2>5. Recorded'
      BY <1>4, <2>1, <2>3 DEF ModulesInv, Recorded
    <2>6. NamesKnown' /\ NoNames'
      BY <1>4, <2>2, <2>3 DEF ModulesInv, NamesKnown, NoNames
    <2>7. RegisteredLoaded'
      BY <1>1, <1>2, <1>6, <2>1 DEF ModulesInv, RegisteredLoaded, Noticed
    <2> QED  BY <1>3, <2>4, <2>5, <2>6, <2>7 DEF ModulesInv
  <1> QED  BY <1>1, <1>5, <1>6

-----------------------------------------------------------------------------
(* A step of a task concerns that task, and no module.                       *)
LEMMA TaskFrame ==
    ASSUME Typed, NEW t \in Threads, TaskStep(t)
    PROVE  /\ UNCHANGED simVars
           /\ \A u \in Threads \ {t} : task'[u] = task[u]
           /\ task[t].pc # "idle"
  <1>1. CASE InsertVersion(t)
    BY <1>1, Left DEF InsertVersion, At
  <1>2. CASE ~InsertVersion(t)
    <2>1. Harmless(t) /\ task[t].pc # "idle" /\ UNCHANGED simVars
      BY <1>2, LiftHarmless, LockHarmless, HooksHarmless, ApplyHarmless,
         LinkHarmless, BindHarmless, PlainHarmless DEF TaskStep
    <2> QED  BY <2>1, Left DEF Harmless, Advance
  <1> QED  BY <1>1, <1>2

(* Goto changes the program counter only.                                    *)
LEMMA MovedRest ==
    ASSUME Typed, NEW t \in Threads, task[t].pc # "idle", NEW pc \in Steps,
           Goto(t, pc)
    PROVE  /\ task'[t].pc = pc /\ task'[t].kernel = task[t].kernel
           /\ task'[t].hooked = task[t].hooked /\ task'[t].code = task[t].code
           /\ task'[t].next = task[t].next /\ task'[t].last = task[t].last
           /\ task'[t].extern = task[t].extern
  <1>1. task[t] \in Work
    BY AtWork
  <1>2. task' = [task EXCEPT ![t] = [task[t] EXCEPT !.pc = pc]]
    BY DEF Goto
  <1> QED  BY <1>1, <1>2 DEF Typed, Work

LEMMA LeavesIdle ==
    ASSUME Typed, NEW t \in Threads, Leaves(t)
    PROVE  /\ task'[t].pc = "idle"
           /\ \A u \in Threads \ {t} : task'[u] = task[u]
           /\ \A u \in Threads \ {t} : cacheOwner = u => cacheOwner' = u
  BY Left DEF Leaves, Idle

(* An ISA is known of every kernel.                                          *)
LEMMA IsaTyped ==
    ASSUME Typed, NEW t \in Threads, task[t].pc # "idle"
    PROVE  AgentOfTask(t) \in Agents /\ IsaOfTask(t) \in Isas
  BY AtWork, InstrumentationTasksAssumption DEF AgentOfTask, IsaOfTask, Work

(* What a step of lift does: it holds the mutex from BeginLift to its end,   *)
(* and an entry that it finds empty is not being filled by another.          *)
LiftInv == CacheHeld /\ Filling

(* A task stays out of lift, or leaves it.                                   *)
LEMMA OutsideLift ==
    ASSUME Typed, LiftInv, NEW t \in Threads, UNCHANGED <<targetInfo, failed>>,
           \A u \in Threads \ {t} : task'[u] = task[u],
           \A u \in Threads \ {t} : cacheOwner = u => cacheOwner' = u,
           ~At(t, "fill"), task'[t].pc \notin Lifting
    PROVE  LiftInv'
  <1>1. CacheHeld'
    <2> SUFFICES ASSUME NEW u \in Threads, task'[u].pc \in Lifting
                 PROVE  cacheOwner' = u
      BY DEF CacheHeld
    <2> QED  BY DEF LiftInv, CacheHeld
  <1>2. Filling'
    <2> SUFFICES ASSUME NEW i \in Isas, targetInfo'[i] = "empty", i \notin failed'
                 PROVE  \E u \in Threads : At(u, "fill")' /\ IsaOfTask(u)' = i
      BY DEF Filling
    <2>1. PICK u \in Threads : At(u, "fill") /\ IsaOfTask(u) = i
      BY DEF LiftInv, Filling
    <2>2. task'[u] = task[u]
      BY <2>1
    <2> QED  BY <2>1, <2>2 DEF At, IsaOfTask, AgentOfTask
  <1> QED  BY <1>1, <1>2 DEF LiftInv

(* A task moves within lift, and no descriptors are made.                    *)
LEMMA InsideLift ==
    ASSUME Typed, LiftInv, NEW t \in Threads, UNCHANGED <<targetInfo, failed>>,
           \A u \in Threads \ {t} : task'[u] = task[u],
           cacheOwner' = t, cacheOwner \in {t, None}, ~At(t, "fill")
    PROVE  LiftInv'
  <1>1. ASSUME NEW u \in Threads \ {t}
        PROVE  task'[u] = task[u] /\ task[u].pc \notin Lifting
    BY <1>1, InstrumentationTasksAssumption DEF LiftInv, CacheHeld
  <1>2. CacheHeld'
    BY <1>1 DEF CacheHeld
  <1>3. Filling'
    <2> SUFFICES ASSUME NEW i \in Isas, targetInfo'[i] = "empty", i \notin failed'
                 PROVE  \E u \in Threads : At(u, "fill")' /\ IsaOfTask(u)' = i
      BY DEF Filling
    <2>1. PICK u \in Threads : At(u, "fill") /\ IsaOfTask(u) = i
      BY DEF LiftInv, Filling
    <2> QED  BY <1>1, <2>1 DEF At, Lifting
  <1> QED  BY <1>2, <1>3 DEF LiftInv

LEMMA LiftStepsKeep ==
    ASSUME Typed, TargetsTyped, LiftInv, NEW t \in Threads,
           \/ BeginLift(t) \/ InitLR(t) \/ GetTargetInfo(t) \/ FillTargetInfo(t)
           \/ Disassemble(t)
    PROVE  LiftInv'
  <1>0. TaskStep(t)
    BY DEF TaskStep
  <1>1. /\ \A u \in Threads \ {t} : task'[u] = task[u]
        /\ task[t].pc # "idle" /\ IsaOfTask(t) \in Isas
    BY <1>0, TaskFrame, IsaTyped
  <1>2. CASE Fails(t) /\ ~At(t, "fill")
    <2>1. task'[t].pc \notin Lifting
          /\ \A u \in Threads \ {t} : cacheOwner = u => cacheOwner' = u
      BY <1>2, LeavesIdle DEF Fails, Lifting
    <2> QED  BY <1>1, <1>2, <2>1, OutsideLift DEF Fails
  <1>3. CASE BeginLift(t)
    <2>1. CASE task[t].kernel \in lifted
      <3>1. task'[t].pc = "lock"
        BY <1>1, <1>3, <2>1, MovedRest DEF BeginLift, Steps
      <3> QED  BY <1>1, <1>3, <3>1, OutsideLift, InstrumentationTasksAssumption
               DEF BeginLift, Lifting, At
    <2>2. CASE task[t].kernel \notin lifted
      BY <1>1, <1>3, <2>2, InsideLift DEF BeginLift, At
    <2> QED  BY <2>1, <2>2
  <1>4. CASE InitLR(t)
    <2>1. cacheOwner = t
      BY <1>4 DEF InitLR, LiftInv, CacheHeld, Lifting, At
    <2> QED  BY <1>1, <1>2, <1>4, <2>1, InsideLift
             DEF InitLR, CreateTargetMachine, lockVars, At
  <1>5. CASE GetTargetInfo(t)
    <2>1. cacheOwner = t /\ cacheOwner' = t
      BY <1>5 DEF GetTargetInfo, LiftInv, CacheHeld, Lifting, At, lockVars
    <2>2. CASE UNCHANGED <<targetInfo, failed>>
      BY <1>1, <1>5, <2>1, <2>2, InsideLift DEF GetTargetInfo, At
    <2>3. CASE /\ targetInfo' = [targetInfo EXCEPT ![IsaOfTask(t)] = "empty"]
               /\ Goto(t, "fill") /\ UNCHANGED failed
      <3>1. CacheHeld'
        BY <1>1, <2>1, InstrumentationTasksAssumption DEF LiftInv, CacheHeld
      <3>2. At(t, "fill")' /\ IsaOfTask(t)' = IsaOfTask(t)
        BY <1>1, <2>3, MovedRest DEF At, IsaOfTask, AgentOfTask, Steps
      <3>3. ASSUME NEW u \in Threads, At(u, "fill")
            PROVE  u = t
        BY <2>1, <3>3 DEF LiftInv, CacheHeld, Lifting, At
      <3>4. Filling'
        <4> SUFFICES ASSUME NEW i \in Isas, targetInfo'[i] = "empty", i \notin failed'
                     PROVE  \E u \in Threads : At(u, "fill")' /\ IsaOfTask(u)' = i
          BY DEF Filling
        <4>1. CASE i = IsaOfTask(t)
          BY <3>2, <4>1
        <4>2. CASE i # IsaOfTask(t)
          <5>1. targetInfo[i] = "empty"
            BY <1>1, <2>3, <4>2 DEF TargetsTyped
          <5>2. PICK u \in Threads : At(u, "fill")
            BY <2>3, <5>1 DEF LiftInv, Filling
          <5> QED  BY <1>5, <3>3, <5>2 DEF GetTargetInfo, At
        <4> QED  BY <4>1, <4>2
      <3> QED  BY <3>1, <3>4 DEF LiftInv
    <2> QED  BY <1>5, <2>2, <2>3 DEF GetTargetInfo
  <1>6. CASE FillTargetInfo(t)
    <2>1. cacheOwner = t /\ At(t, "fill")
      BY <1>6 DEF FillTargetInfo, LiftInv, CacheHeld, Lifting, At
    <2>2. \A u \in Threads \ {t} : task[u].pc \notin Lifting
      BY <2>1 DEF LiftInv, CacheHeld
    <2>3. \A i \in Isas : targetInfo[i] = "empty" => i \in failed \/ i = IsaOfTask(t)
      BY <2>2 DEF LiftInv, Filling, Lifting, At
    <2>4. \A i \in Isas : targetInfo'[i] = "empty" => i \in failed'
      <3>1. CASE /\ targetInfo' = [targetInfo EXCEPT ![IsaOfTask(t)] = "complete"]
                 /\ UNCHANGED failed
        BY <1>1, <2>3, <3>1 DEF TargetsTyped
      <3>2. CASE failed' = failed \cup {IsaOfTask(t)} /\ UNCHANGED targetInfo
        BY <2>3, <3>2
      <3> QED  BY <1>6, <3>1, <3>2 DEF FillTargetInfo
    <2>5. CacheHeld'
      <3>1. task'[t].pc \in Lifting => cacheOwner' = t
        <4>1. CASE UNCHANGED lockVars
          BY <2>1, <4>1 DEF lockVars
        <4>2. CASE Leaves(t)
          BY <4>2, LeavesIdle DEF Lifting
        <4> QED  BY <1>6, <4>1, <4>2 DEF FillTargetInfo
      <3> QED  BY <1>1, <2>2, <3>1 DEF CacheHeld
    <2> QED  BY <2>4, <2>5 DEF LiftInv, Filling
  <1>7. CASE Disassemble(t)
    <2>1. ~At(t, "fill")
      BY <1>7 DEF Disassemble, At
    <2>2. CASE GoesWrong(t, "descriptors")
      <3>1. cacheOwner' = t /\ cacheOwner = t
        BY <1>7, <2>2 DEF Disassemble, GoesWrong, LiftInv, CacheHeld, Lifting,
           At, lockVars
      <3> QED  BY <1>1, <2>1, <2>2, <3>1, InsideLift DEF GoesWrong
    <2>3. CASE /\ cacheOwner' = IF cacheOwner = t THEN None ELSE cacheOwner
               /\ Goto(t, "lock") /\ UNCHANGED <<targetInfo, failed>>
      <3>1. task'[t].pc \notin Lifting
        BY <1>1, <2>3, MovedRest DEF Steps, Lifting
      <3> QED  BY <1>1, <2>1, <2>3, <3>1, OutsideLift
    <2> QED  BY <1>2, <1>7, <2>1, <2>2, <2>3 DEF Disassemble
  <1> QED  BY <1>3, <1>4, <1>5, <1>6, <1>7

-----------------------------------------------------------------------------
(* The steps that fill in more than the program counter.                     *)
LEMMA HookFilled ==
    ASSUME Typed, NEW t \in Threads, At(t, "hook"),
           task' = [task EXCEPT ![t].pc = "apply", ![t].hooked = TRUE]
    PROVE  task'[t].pc = "apply" /\ task'[t].next = task[t].next
  <1>1. task[t] \in Work
    BY AtWork DEF At
  <1>2. task'[t] = [task[t] EXCEPT !.pc = "apply", !.hooked = TRUE]
    BY DEF Typed
  <1> QED  BY <1>1, <1>2, ZenonT(30) DEF Work

LEMMA CodeFilled ==
    ASSUME Typed, NEW t \in Threads, At(t, "apply"),
           NEW code \in Copy \cup {None},
           task' = [task EXCEPT ![t].pc = "print", ![t].code = code]
    PROVE  /\ task'[t].pc = "print" /\ task'[t].code = code
           /\ task'[t].next = task[t].next
           /\ task'[t].kernel = task[t].kernel
  <1>1. ASSUME NEW old \in Work
        PROVE  LET new == [old EXCEPT !.pc = "print", !.code = code]
               IN /\ new.pc = "print" /\ new.code = code
                  /\ new.next = old.next /\ new.kernel = old.kernel
    BY <1>1 DEF Work
  <1>2. task[t] \in Work
    BY AtWork DEF At
  <1>3. task'[t] = [task[t] EXCEPT !.pc = "print", !.code = code]
    BY DEF Typed
  <1> QED  BY <1>1, <1>2, <1>3, Zenon

LEMMA LastFilled ==
    ASSUME Typed, NEW t \in Threads, At(t, "link"), NEW last \in Nat,
           task' = [task EXCEPT ![t].pc = "names", ![t].last = last]
    PROVE  /\ task'[t].pc = "names" /\ task'[t].last = last
           /\ task'[t].next = task[t].next /\ task'[t].code = task[t].code
           /\ task'[t].kernel = task[t].kernel
           /\ task'[t].hooked = task[t].hooked
  <1>1. ASSUME NEW old \in Work
        PROVE  LET new == [old EXCEPT !.pc = "names", !.last = last]
               IN /\ new.pc = "names" /\ new.last = last /\ new.next = old.next
                  /\ new.code = old.code /\ new.kernel = old.kernel
                  /\ new.hooked = old.hooked
    BY <1>1 DEF Work
  <1>2. task[t] \in Work
    BY AtWork DEF At
  <1>3. task'[t] = [task[t] EXCEPT !.pc = "names", !.last = last]
    BY DEF Typed
  <1> QED  BY <1>1, <1>2, <1>3, Zenon

LEMMA ExternFilled ==
    ASSUME Typed, NEW t \in Threads, At(t, "names"), NEW v \in Names,
           NEW copy \in Copy \cup {None},
           task' = [task EXCEPT ![t].next = @ + 1, ![t].extern[v] = copy]
    PROVE  /\ task'[t].pc = "names" /\ task'[t].last = task[t].last
           /\ task'[t].next = task[t].next + 1 /\ task'[t].code = task[t].code
           /\ task'[t].kernel = task[t].kernel
           /\ task'[t].hooked = task[t].hooked
           /\ task'[t].extern[v] = copy
           /\ \A w \in Names \ {v} : task'[t].extern[w] = task[t].extern[w]
  <1> DEFINE extern == [task[t].extern EXCEPT ![v] = copy]
  <1>1. task[t] \in Work /\ task[t].pc = "names"
    BY AtWork DEF At
  <1>2. /\ extern \in [Names -> Copy \cup {None}] /\ extern[v] = copy
        /\ \A w \in Names \ {v} : extern[w] = task[t].extern[w]
    BY <1>1 DEF Work
  <1>3. task'[t] = [task[t] EXCEPT !.next = task[t].next + 1, !.extern = extern]
    BY DEF Typed
  <1> HIDE DEF extern
  <1>4. /\ task'[t].pc = task[t].pc /\ task'[t].last = task[t].last
        /\ task'[t].next = task[t].next + 1 /\ task'[t].code = task[t].code
        /\ task'[t].kernel = task[t].kernel
        /\ task'[t].hooked = task[t].hooked /\ task'[t].extern = extern
    <2> DEFINE old == task[t]
               new == task'[t]
    <2>1. old \in Work /\ new = [old EXCEPT !.next = old.next + 1, !.extern = extern]
      BY <1>1, <1>3
    <2> HIDE DEF old, new
    <2>2. /\ new.pc = old.pc /\ new.last = old.last
          /\ new.next = old.next + 1 /\ new.code = old.code
          /\ new.kernel = old.kernel /\ new.hooked = old.hooked
          /\ new.extern = extern
      BY <2>1 DEF Work
    <2> QED  BY <2>2 DEF old, new
  <1> QED  BY <1>1, <1>2, <1>4

(* A step after lift is no step of it, and lets no other thread lose the     *)
(* mutex.                                                                    *)
LiftStep(t) == BeginLift(t) \/ InitLR(t) \/ GetTargetInfo(t)
               \/ FillTargetInfo(t) \/ Disassemble(t)

LEMMA AfterLift ==
    ASSUME Typed, NEW t \in Threads, TaskStep(t), ~LiftStep(t)
    PROVE  /\ UNCHANGED <<targetInfo, failed>>
           /\ \A u \in Threads \ {t} : cacheOwner = u => cacheOwner' = u
           /\ task[t].pc \notin Lifting /\ task'[t].pc \notin Lifting
  <1>1. task[t].pc # "idle"
    BY TaskFrame
  <1>2. CASE Fails(t) /\ task[t].pc \notin Lifting
    BY <1>2, LeavesIdle DEF Fails, Lifting
  <1>3. ASSUME NEW pc \in Steps \ Lifting, Goto(t, pc)
        PROVE  task'[t].pc \notin Lifting
    BY <1>1, <1>3, MovedRest
  <1>4. CASE LockLR(t) \/ Mutate(t) \/ Look(t) \/ PrintAssembly(t)
             \/ LoadInstrumentedKernel(t)
    BY <1>2, <1>3, <1>4 DEF LockLR, Mutate, Look, PrintAssembly,
       LoadInstrumentedKernel, At, Lifting, Steps, lockVars
  <1>5. CASE InsertHooks(t)
    <2>1. CASE /\ task' = [task EXCEPT ![t].pc = "apply", ![t].hooked = TRUE]
               /\ UNCHANGED <<targetInfo, lockVars, failed>>
      BY <1>5, <2>1, HookFilled DEF InsertHooks, At, Lifting, lockVars
    <2> QED  BY <1>2, <1>3, <1>5, <2>1 DEF InsertHooks, At, Lifting, Steps, lockVars
  <1>6. CASE ApplyInstrumentationTask(t)
    <2>1. BitcodeFor(t) \in Copy \cup {None}
      BY <1>1, IsaTyped DEF BitcodeFor, Typed
    <2> QED  BY <1>2, <1>6, <2>1, CodeFilled
             DEF ApplyInstrumentationTask, At, Lifting, lockVars
  <1>7. CASE LinkRelocatable(t)
    <2>1. Len(names) \in Nat
      BY DEF Typed
    <2> QED  BY <1>2, <1>7, <2>1, LastFilled
             DEF LinkRelocatable, At, Lifting, lockVars
  <1>8. CASE BindVariable(t)
    <2>1. task[t].pc = "names" /\ task[t] \in Work
      BY <1>8, AtWork DEF BindVariable, At
    <2>2. CASE Fails(t)
      BY <1>2, <2>1, <2>2 DEF Lifting
    <2>3. CASE Goto(t, "load") /\ UNCHANGED <<targetInfo, lockVars, failed>>
      BY <1>3, <2>1, <2>3 DEF Lifting, Steps, lockVars
    <2>4. CASE UNCHANGED <<task, targetInfo, lockVars, failed>>
      BY <2>1, <2>4 DEF Lifting, lockVars
    <2>5. CASE /\ task' = [task EXCEPT ![t].next = @ + 1,
                                       ![t].extern[NameAt(t)] = VariableOn(t)]
               /\ UNCHANGED <<targetInfo, lockVars, failed>>
      <3>1. task'[t].pc = "names"
        BY <2>1, <2>5 DEF Typed, Work
      <3> QED  BY <2>1, <2>5, <3>1 DEF Lifting, lockVars
    <2> QED  BY <1>8, <2>2, <2>3, <2>4, <2>5 DEF BindVariable, GoesWrong
  <1>9. CASE InsertVersion(t)
    BY <1>9, LeavesIdle DEF InsertVersion, At, Lifting
  <1> QED  BY <1>4, <1>5, <1>6, <1>7, <1>8, <1>9 DEF TaskStep, LiftStep

LEMMA TaskKeepsLift ==
    ASSUME Typed, TargetsTyped, LiftInv, NEW t \in Threads, TaskStep(t)
    PROVE  LiftInv' /\ TargetsTyped'
  <1>1. CASE LiftStep(t)
    <2>1. TargetsTyped'
      BY <1>1 DEF TargetsTyped, LiftStep, BeginLift, InitLR, CreateTargetMachine,
         GetTargetInfo, FillTargetInfo, Disassemble, GoesWrong, Fails
    <2> QED  BY <1>1, <2>1, LiftStepsKeep DEF LiftStep
  <1>2. CASE ~LiftStep(t)
    <2>1. \A u \in Threads \ {t} : task'[u] = task[u]
      BY TaskFrame
    <2> QED  BY <1>2, <2>1, AfterLift, OutsideLift DEF Lifting, At, TargetsTyped
  <1> QED  BY <1>1, <1>2

-----------------------------------------------------------------------------
(* What is said of one task in BeginsAfresh and in HookedBound.              *)
Sound(t) ==
    /\ task[t].pc \in Early => ~task[t].hooked
    /\ task[t].pc \in Early \cup {"apply", "print", "link"} => task[t].next = 1
    /\ task[t].pc \in Later /\ task[t].hooked => BoundTo(t)

LEMMA SoundAll == BeginsAfresh /\ HookedBound <=> \A t \in Threads : Sound(t)
  BY DEF BeginsAfresh, HookedBound, Sound

(* What is bound stays bound while the copy and the names stay.              *)
LEMMA BoundStays ==
    ASSUME NEW t \in Threads, BoundTo(t), task'[t] = task[t],
           executables'[AgentOfTask(t)] = executables[AgentOfTask(t)],
           names' = names,
           registering' # None =>
              ~registering'.first /\ registering'.copy.agent # AgentOfTask(t)
    PROVE  BoundTo(t)'
  <1>1. AgentOfTask(t)' = AgentOfTask(t) /\ At(t, "names")' = At(t, "names")
    BY DEF AgentOfTask, At
  <1> QED  BY <1>1 DEF BoundTo

LEMMA SoundStays ==
    ASSUME NEW t \in Threads, Sound(t), task'[t] = task[t], UNCHANGED simVars
    PROVE  Sound(t)'
  <1>1. UNCHANGED <<executables, names, registering>>
    BY DEF simVars
  <1>2. BoundTo(t) => BoundTo(t)'
    BY <1>1, BoundStays DEF BoundTo
  <1> QED  BY <1>2 DEF Sound

(* The early steps: no hook is inserted, and no name bound.                  *)
LEMMA EarlySound ==
    ASSUME Typed, NEW t \in Threads, Sound(t), task[t].pc \in Early,
           TaskStep(t), ~InsertHooks(t)
    PROVE  Sound(t)'
  <1>1. task[t].pc # "idle"
    BY TaskFrame
  <1>2. CASE task'[t].pc = "idle"
    BY <1>2 DEF Sound, Early, Lifting, Later
  <1>3. CASE UNCHANGED task
    BY <1>3 DEF Sound, Early, Lifting, Later
  <1>4. ASSUME NEW pc \in Early, Goto(t, pc)
        PROVE  Sound(t)'
    <2>1. task'[t].pc = pc /\ task'[t].hooked = task[t].hooked
          /\ task'[t].next = task[t].next
      BY <1>1, <1>4, MovedRest DEF Early, Lifting, Steps
    <2> QED  BY <1>4, <2>1 DEF Sound, Early, Lifting, Later
  <1>5. CASE Leaves(t)
    BY <1>2, <1>5, LeavesIdle
  <1>6. CASE BeginLift(t)
    <2>1. PICK pc \in {"lock", "init"} : Goto(t, pc)
      BY <1>6 DEF BeginLift
    <2> QED  BY <1>4, <2>1 DEF Early, Lifting
  <1> QED  BY <1>3, <1>4, <1>5, <1>6
           DEF TaskStep, InitLR, CreateTargetMachine, GetTargetInfo, FillTargetInfo,
               Disassemble, GoesWrong, LockLR, Mutate, Look, Fails, Early,
               Lifting, At, ApplyInstrumentationTask, PrintAssembly,
               LinkRelocatable, BindVariable, LoadInstrumentedKernel, InsertVersion

(* A module's code is read when nothing is being registered.                 *)
LEMMA ApplySound ==
    ASSUME Typed, ModulesInv, NEW t \in Threads, Sound(t),
           ApplyInstrumentationTask(t)
    PROVE  Sound(t)'
  <1>1. /\ task[t].pc = "apply" /\ registering = None /\ task[t].next = 1
        /\ UNCHANGED simVars
    BY DEF ApplyInstrumentationTask, At, Shared, Sound, Fails, simVars
  <1>2. CASE Fails(t)
    BY <1>2, LeavesIdle DEF Fails, Sound, Early, Lifting, Later
  <1>3. CASE /\ BitcodeFor(t) # None
             /\ task' = [task EXCEPT ![t].pc = "print", ![t].code = BitcodeFor(t)]
    <2>1. BitcodeFor(t) = executables[AgentOfTask(t)] /\ BitcodeFor(t) \in Copy
      BY <1>1, <1>3, IsaTyped DEF BitcodeFor, ModulesInv, OneModule, Typed
    <2>2. /\ task'[t].pc = "print" /\ task'[t].next = 1
          /\ task'[t].code = executables[AgentOfTask(t)]
          /\ task'[t].kernel = task[t].kernel
      BY <1>1, <1>3, <2>1, CodeFilled DEF At
    <2>3. UNCHANGED <<executables, registering>> /\ AgentOfTask(t)' = AgentOfTask(t)
      BY <1>1, <2>2 DEF simVars, AgentOfTask
    <2> QED  BY <1>1, <1>3, <2>1, <2>2, <2>3
             DEF Sound, BoundTo, At, Early, Lifting, Later
  <1> QED  BY <1>2, <1>3 DEF ApplyInstrumentationTask

(* The name that is bound next is one that the agent's copy has.             *)
LEMMA NextNameKnown ==
    ASSUME Typed, ModulesInv, NEW t \in Threads, BoundTo(t), At(t, "names"),
           task[t].next <= task[t].last, Shared
    PROVE  /\ task[t].next \in DOMAIN names /\ NameAt(t) \in Names
           /\ VariableOn(t) = executables[AgentOfTask(t)]
           /\ VariableOn(t) \in Copy /\ ~NoCopy(t)
  <1> DEFINE a == AgentOfTask(t)
  <1>1. /\ a \in Agents /\ names \in Seq(Names) /\ executables[a] \in Copy
        /\ executables[a] # None /\ VarsOn(a) \in Seq(Names)
    BY IsaTyped, VarsTyped DEF At, BoundTo, ModulesInv, ModulesTyped, Typed
  <1>2. task[t].next \in DOMAIN names
    BY <1>1 DEF BoundTo
  <1>3. NameAt(t) \in Names
    BY <1>1, <1>2 DEF NameAt
  <1>4. PICK i \in DOMAIN VarsOn(a) : VarsOn(a)[i] = NameAt(t)
    BY <1>1, <1>2 DEF ModulesInv, NamesKnown, NameAt
  <1>5. variables[a][NameAt(t)] = executables[a]
    BY <1>1, <1>4 DEF ModulesInv, Recorded, Awaited, Shared
  <1> QED  BY <1>1, <1>2, <1>3, <1>5 DEF VariableOn, NoCopy, NoVariables

LEMMA BindSound ==
    ASSUME Typed, ModulesInv, NEW t \in Threads, Sound(t), BindVariable(t)
    PROVE  Sound(t)'
  <1>1. task[t].pc = "names" /\ task[t] \in Work
    BY AtWork DEF BindVariable, At
  <1>2. CASE Fails(t)
    BY <1>2, LeavesIdle DEF Fails, Sound, Early, Lifting, Later
  <1>3. CASE UNCHANGED <<task, simVars>>
    BY <1>3, SoundStays DEF simVars
  <1>4. CASE /\ ~NamesChange(t) /\ task[t].next > task[t].last
             /\ Goto(t, "load") /\ UNCHANGED simVars
    <2>1. /\ task'[t].pc = "load" /\ task'[t].hooked = task[t].hooked
          /\ task'[t].code = task[t].code /\ task'[t].extern = task[t].extern
          /\ task'[t].kernel = task[t].kernel
      BY <1>1, <1>4, MovedRest DEF Steps
    <2>2. /\ UNCHANGED <<executables, registering, names>>
          /\ AgentOfTask(t)' = AgentOfTask(t)
      BY <1>4, <2>1 DEF simVars, AgentOfTask
    <2>3. BoundTo(t) => BoundTo(t)'
      <3> SUFFICES ASSUME BoundTo(t) PROVE BoundTo(t)'
        OBVIOUS
      <3>1. names \in Seq(Names) /\ task[t].next = Len(names) + 1
        BY <1>1, <1>4 DEF BoundTo, At, Typed
      <3>2. \A j \in DOMAIN names : task[t].extern[names[j]] = executables[AgentOfTask(t)]
        BY <1>1, <3>1 DEF BoundTo, At
      <3> QED  BY <2>1, <2>2, <3>2 DEF BoundTo, At
    <2> QED  BY <1>1, <2>1, <2>3 DEF Sound, Early, Lifting, Later
  <1>5. CASE /\ ~NamesChange(t) /\ task[t].next <= task[t].last /\ Shared
             /\ VariableOn(t) # None
             /\ task' = [task EXCEPT ![t].next = @ + 1,
                                     ![t].extern[NameAt(t)] = VariableOn(t)]
             /\ UNCHANGED simVars
    <2>1. CASE task[t].hooked
      <3>1. BoundTo(t)
        BY <1>1, <2>1 DEF Sound, Later
      <3>2. /\ task[t].next \in DOMAIN names /\ NameAt(t) \in Names
            /\ VariableOn(t) = executables[AgentOfTask(t)] /\ VariableOn(t) \in Copy
        BY <1>1, <1>5, <3>1, NextNameKnown DEF At
      <3>3. /\ task'[t].pc = "names" /\ task'[t].last = task[t].last
            /\ task'[t].next = task[t].next + 1 /\ task'[t].code = task[t].code
            /\ task'[t].kernel = task[t].kernel
            /\ task'[t].extern[NameAt(t)] = VariableOn(t)
            /\ \A w \in Names \ {NameAt(t)} : task'[t].extern[w] = task[t].extern[w]
        <4>1. At(t, "names") /\ VariableOn(t) \in Copy \cup {None}
          BY <1>1, <3>2 DEF At
        <4>2. task' = [task EXCEPT ![t].next = @ + 1,
                                   ![t].extern[NameAt(t)] = VariableOn(t)]
          BY <1>5
        <4> QED  BY <3>2, <4>1, <4>2, ExternFilled, ZenonT(30)
      <3>4. /\ UNCHANGED <<executables, registering, names>>
            /\ AgentOfTask(t)' = AgentOfTask(t)
        BY <1>5, <3>3 DEF simVars, AgentOfTask
      <3>5. names \in Seq(Names) /\ task[t].next \in 1..Len(names) /\ task[t].last = Len(names)
        BY <1>1, <3>1, <3>2 DEF BoundTo, At, Typed
      <3>6. \A j \in 1..task[t].next : task'[t].extern[names[j]] = executables[AgentOfTask(t)]
        <4> SUFFICES ASSUME NEW j \in 1..task[t].next
                     PROVE  task'[t].extern[names[j]] = executables[AgentOfTask(t)]
          OBVIOUS
        <4>1. names[j] \in Names
          BY <3>5
        <4>2. CASE names[j] = NameAt(t)
          BY <3>2, <3>3, <4>2
        <4>3. CASE names[j] # NameAt(t)
          <5>1. j \in 1..task[t].next - 1
            BY <3>5, <4>3 DEF NameAt
          <5>2. task[t].extern[names[j]] = executables[AgentOfTask(t)]
            BY <1>1, <3>1, <5>1 DEF BoundTo, At
          <5> QED  BY <3>3, <4>1, <4>3, <5>2
        <4> QED  BY <4>2, <4>3
      <3>7. BoundTo(t)'
        <4>1. task'[t].next \in 1..Len(names) + 1 /\ task'[t].next - 1 = task[t].next
          BY <3>3, <3>5
        <4> QED  BY <3>1, <3>3, <3>4, <3>5, <3>6, <4>1 DEF BoundTo, At
      <3> QED  BY <3>3, <3>7 DEF Sound, Early, Lifting, Later
    <2>2. CASE ~task[t].hooked
      <3>1. task'[t].pc = "names" /\ ~task'[t].hooked
        BY <1>1, <1>5, <2>2 DEF Typed, Work
      <3> QED  BY <3>1 DEF Sound, Early, Lifting, Later
    <2> QED  BY <2>1, <2>2
  <1> QED  BY <1>2, <1>3, <1>4, <1>5 DEF BindVariable, GoesWrong

LEMMA LaterSound ==
    ASSUME Typed, NEW t \in Threads, Sound(t), TaskStep(t),
           \/ InsertHooks(t) \/ PrintAssembly(t) \/ LinkRelocatable(t)
           \/ LoadInstrumentedKernel(t) \/ InsertVersion(t)
    PROVE  Sound(t)'
  <1>1. /\ task[t].pc # "idle" /\ UNCHANGED simVars
        /\ UNCHANGED <<executables, registering, names>>
    BY TaskFrame DEF simVars
  <1>2. CASE Leaves(t)
    BY <1>2, LeavesIdle DEF Sound, Early, Lifting, Later
  <1>3. ASSUME NEW pc \in Steps, Goto(t, pc)
        PROVE  /\ task'[t].pc = pc /\ task'[t].hooked = task[t].hooked
               /\ task'[t].next = task[t].next /\ task'[t].code = task[t].code
               /\ task'[t].extern = task[t].extern
               /\ AgentOfTask(t)' = AgentOfTask(t)
    BY <1>1, <1>3, MovedRest DEF AgentOfTask
  <1>4. CASE InsertHooks(t)
    <2>1. task[t].pc = "hook" /\ ~task[t].hooked /\ task[t].next = 1
      BY <1>4 DEF InsertHooks, At, Sound, Early
    <2>2. CASE Goto(t, "print")
      BY <1>3, <2>1, <2>2 DEF Sound, Early, Lifting, Later, Steps
    <2>3. CASE task' = [task EXCEPT ![t].pc = "apply", ![t].hooked = TRUE]
      <3>1. task'[t].pc = "apply" /\ task'[t].next = 1
        BY <2>1, <2>3, HookFilled DEF At
      <3> QED  BY <3>1 DEF Sound, Early, Lifting, Later
    <2> QED  BY <1>2, <1>4, <2>2, <2>3 DEF InsertHooks, Fails
  <1>5. CASE PrintAssembly(t)
    <2>1. CASE Goto(t, "link")
      <3>1. task[t].pc = "print" /\ task'[t].pc = "link"
        BY <1>3, <1>5, <2>1 DEF PrintAssembly, At, Steps
      <3>2. BoundTo(t) => BoundTo(t)'
        BY <1>1, <1>3, <2>1, <3>1 DEF BoundTo, At, Steps
      <3> QED  BY <1>3, <2>1, <3>1, <3>2 DEF Sound, Early, Lifting, Later, Steps
    <2> QED  BY <1>2, <1>5, <2>1 DEF PrintAssembly, Fails
  <1>6. CASE LinkRelocatable(t)
    <2>1. CASE task' = [task EXCEPT ![t].pc = "names", ![t].last = Len(names)]
      <3>1. task[t].pc = "link" /\ task[t].next = 1 /\ Len(names) \in Nat
        BY <1>6 DEF LinkRelocatable, At, Sound, Typed
      <3>2. /\ task'[t].pc = "names" /\ task'[t].last = Len(names)
            /\ task'[t].next = 1 /\ task'[t].code = task[t].code
            /\ task'[t].hooked = task[t].hooked
            /\ AgentOfTask(t)' = AgentOfTask(t)
        BY <2>1, <3>1, LastFilled DEF At, AgentOfTask
      <3>3. BoundTo(t) => BoundTo(t)'
        BY <1>1, <3>1, <3>2 DEF BoundTo, At
      <3> QED  BY <3>1, <3>2, <3>3 DEF Sound, Early, Lifting, Later
    <2> QED  BY <1>2, <1>6, <2>1 DEF LinkRelocatable, Fails
  <1>7. CASE LoadInstrumentedKernel(t)
    <2>1. CASE Goto(t, "insert")
      <3>1. task[t].pc = "load" /\ task'[t].pc = "insert"
        BY <1>3, <1>7, <2>1 DEF LoadInstrumentedKernel, At, Steps
      <3>2. BoundTo(t) => BoundTo(t)'
        BY <1>1, <1>3, <2>1, <3>1 DEF BoundTo, At, Steps
      <3> QED  BY <1>3, <2>1, <3>1, <3>2 DEF Sound, Early, Lifting, Later, Steps
    <2> QED  BY <1>2, <1>7, <2>1 DEF LoadInstrumentedKernel, Fails
  <1> QED  BY <1>2, <1>4, <1>5, <1>6, <1>7 DEF InsertVersion

LEMMA TaskSound ==
    ASSUME Typed, ModulesInv, \A u \in Threads : Sound(u),
           NEW t \in Threads, TaskStep(t)
    PROVE  (\A u \in Threads : Sound(u))'
  <1>1. ASSUME NEW u \in Threads \ {t}
        PROVE  Sound(u)'
    BY <1>1, TaskFrame, SoundStays
  <1>2. Sound(t)'
    <2>1. CASE task[t].pc \in Early /\ ~InsertHooks(t)
      BY <2>1, EarlySound
    <2>2. CASE task[t].pc \notin Early
      BY <2>2, ApplySound, BindSound, LaterSound
      DEF TaskStep, BeginLift, InitLR, GetTargetInfo, FillTargetInfo,
          Disassemble, LockLR, Mutate, Look, At, Early, Lifting
    <2> QED  BY <2>1, <2>2, LaterSound
  <1> QED  BY <1>1, <1>2

(* What a step of the modules leaves to a task that has read the code.       *)
LEMMA ModulesLeave ==
    ASSUME Typed, ModulesInv, NEW t \in Threads, BoundTo(t), task[t].pc # "idle",
           \/ \E u \in Threads : RegisterVariable(u)
           \/ \E u \in Threads, a \in Agents, m \in Modules : LoadModule(u, a, m)
           \/ \E a \in Agents : UnloadModule(a)
           \/ \E hook \in Hooks : RegisterFunction(hook)
    PROVE  BoundTo(t)'
  <1> DEFINE on == AgentOfTask(t)
  <1>1. on \in Agents /\ executables[on] # None /\ executables[on] \in Copy
    BY IsaTyped DEF BoundTo, ModulesInv, ModulesTyped
  <1>2. task' = task
    BY DEF RegisterVariable, LoadModule, UnloadModule, RegisterFunction, taskVars
  <1>3. CASE \E hook \in Hooks : RegisterFunction(hook)
    BY <1>2, <1>3, BoundStays DEF RegisterFunction, BoundTo
  <1>4. ASSUME NEW u \in Threads, RegisterVariable(u)
        PROVE  BoundTo(t)'
    <2>1. registering \in Registration /\ ~registering.first
          /\ registering.copy.agent # on /\ UNCHANGED executables
      BY <1>4 DEF RegisterVariable, Registers, BoundTo, Typed
    <2>2. names' = names
      BY <1>4, <2>1 DEF RegisterVariable
    <2>3. registering' # None =>
             ~registering'.first /\ registering'.copy.agent # on
      BY <1>4, <2>1 DEF RegisterVariable, Registration
    <2> QED  BY <1>2, <2>1, <2>2, <2>3, BoundStays
  <1>5. ASSUME NEW u \in Threads, NEW a \in Agents, NEW m \in Modules,
               LoadModule(u, a, m)
        PROVE  BoundTo(t)'
    <2> DEFINE copy == [agent |-> a, module |-> m, number |-> numCopies + 1]
    <2>1. registering = None /\ names' = names
      BY <1>5 DEF LoadModule
    <2>2. CASE UNCHANGED <<executables, registering>>
      BY <1>2, <2>1, <2>2, BoundStays
    <2>3. CASE MayRegister(copy) /\ RegisterExecutable(u, copy)
      <3>1. copy.agent = a
        OBVIOUS
      <3> HIDE DEF copy
      <3>2. a # on /\ ~FirstTimeInit
        BY <1>1, <2>3, <3>1 DEF MayRegister, FirstTimeInit
      <3>3. executables'[on] = executables[on]
        BY <1>1, <2>3, <3>1, <3>2 DEF RegisterExecutable, ModulesInv, ModulesTyped
      <3>4. ~registering'.first /\ registering'.copy.agent # on
        BY <2>3, <3>1, <3>2 DEF RegisterExecutable
      <3> QED  BY <1>2, <2>1, <3>3, <3>4, BoundStays
    <2> QED  BY <1>5, <2>2, <2>3, Zenon DEF LoadModule
  <1>6. ASSUME NEW a \in Agents, UnloadModule(a)
        PROVE  BoundTo(t)'
    <2>1. a # on /\ registering' = None
      BY <1>6 DEF UnloadModule, WorksOn, At
    <2>2. executables'[on] = executables[on] /\ names' = names
      BY <1>1, <1>6, <2>1 DEF UnloadModule, Erase, ModulesInv, ModulesTyped
    <2> QED  BY <1>2, <2>1, <2>2, BoundStays
  <1> QED  BY <1>3, <1>4, <1>5, <1>6

-----------------------------------------------------------------------------
(* Only two steps can have undefined behaviour.                              *)
LEMMA TaskWrongOnlyIf ==
    ASSUME Typed, ModulesInv, LiftInv, ill = None, NEW t \in Threads, Sound(t),
           TaskStep(t)
    PROVE  WrongOnlyIf'
  <1>1. CASE Disassemble(t) /\ targetInfo[IsaOfTask(t)] = "empty"
             /\ GoesWrong(t, "descriptors")
    <2>1. At(t, "disassemble") /\ cacheOwner = t /\ IsaOfTask(t) \in Isas
      BY <1>1, IsaTyped DEF Disassemble, LiftInv, CacheHeld, Lifting, At
    <2>2. \A u \in Threads : ~At(u, "fill")
      BY <2>1 DEF LiftInv, CacheHeld, Lifting, At
    <2>3. IsaOfTask(t) \in failed
      BY <1>1, <2>1, <2>2 DEF LiftInv, Filling
    <2>4. ill'.what = "descriptors" /\ ill'.isa = IsaOfTask(t) /\ failed' = failed
      BY <1>1 DEF GoesWrong
    <2> QED  BY <2>3, <2>4 DEF WrongOnlyIf
  <1>2. ASSUME NEW what \in {"names", "address"}, GoesWrong(t, what), At(t, "names"),
               what = "names" => NamesChange(t),
               what = "address" => task[t].next <= task[t].last /\ Shared /\ NoCopy(t)
        PROVE  WrongOnlyIf'
    <2>1. ~task[t].hooked
      <3> SUFFICES ASSUME task[t].hooked PROVE FALSE
        OBVIOUS
      <3>1. BoundTo(t)
        BY <1>2 DEF Sound, Later, At
      <3>2. ~NamesChange(t)
        BY <1>2, <3>1 DEF BoundTo, NamesChange
      <3>3. CASE what = "address"
        BY <1>2, <3>1, <3>3, NextNameKnown
      <3> QED  BY <1>2, <3>2, <3>3
    <2>2. ill'.what = what /\ ill'.hooked = task[t].hooked
      BY <1>2 DEF GoesWrong
    <2> QED  BY <2>1, <2>2 DEF WrongOnlyIf
  <1>3. CASE ill' = ill
    BY <1>3 DEF WrongOnlyIf
  <1>4. CASE BindVariable(t)
    BY <1>2, <1>3, <1>4 DEF BindVariable, Fails
  <1> QED  BY <1>1, <1>3, <1>4
           DEF TaskStep, BeginLift, InitLR, CreateTargetMachine, GetTargetInfo,
               FillTargetInfo, Disassemble, LockLR, Mutate, Look, InsertHooks,
               ApplyInstrumentationTask, PrintAssembly, LinkRelocatable,
               LoadInstrumentedKernel, InsertVersion, Fails

(* A kernel about to be inserted is bound to the copy that is loaded.        *)
LEMMA BoundIsOwn ==
    ASSUME Inv, ModulesInv, HookedBound
    PROVE  VariablesOwn
  <1> SUFFICES ASSUME NEW t \in Threads, At(t, "insert"), task[t].hooked, Noticed
               PROVE  LET copy == copies[AgentOfTask(t)]
                      IN /\ task[t].code = copy
                         /\ \A i \in DOMAIN VariablesOf[copy.module] :
                               task[t].extern[VariablesOf[copy.module][i]] = copy
    BY DEF VariablesOwn, Noticed
  <1> DEFINE a == AgentOfTask(t)
  <1>1. BoundTo(t) /\ a \in Agents
    BY IsaTyped DEF Inv, HookedBound, Later, At
  <1>2. executables[a] # None /\ copies[a] = executables[a] /\ task[t].code = copies[a]
    BY <1>1 DEF BoundTo, ModulesInv, RegisteredLoaded
  <1>3. \A j \in DOMAIN names : task[t].extern[names[j]] = copies[a]
    BY <1>1, <1>2 DEF BoundTo, At
  <1>4. VarsOn(a) = VariablesOf[copies[a].module]
    BY <1>2 DEF VarsOn, Cuid
  <1>5. \A i \in DOMAIN VarsOn(a) : \E j \in DOMAIN names : names[j] = VarsOn(a)[i]
    BY <1>1, <1>2 DEF ModulesInv, NamesKnown, Awaited, BoundTo
  <1> QED  BY <1>2, <1>3, <1>4, <1>5

LEMMA InitHooksInv == Init => HooksInv
  <1> SUFFICES ASSUME Init
               PROVE  HooksInv
    OBVIOUS
  <1>1. Inv
    BY InvInit
  <1>2. ModulesInv
    BY DEF Init, ModulesInv, ModulesTyped, OneModule, RegisteringKnown, Recorded,
           NamesKnown, NoNames, RegisteredLoaded, RegistrationSucceeds
  <1>3. /\ TargetsTyped /\ CacheHeld /\ Filling /\ BeginsAfresh /\ HookedBound
        /\ WrongOnlyIf
    BY DEF Init, Idle, TargetsTyped, CacheHeld, Filling, BeginsAfresh,
           HookedBound, WrongOnlyIf, Early, Later, Lifting
  <1> QED  BY <1>1, <1>2, <1>3, BoundIsOwn DEF HooksInv

(* What HooksInv says, as the lemmas above use it.                           *)
StepInv == /\ ModulesInv /\ TargetsTyped /\ LiftInv /\ WrongOnlyIf
           /\ \A t \in Threads : Sound(t)

LEMMA InvOfStep == Inv => (HooksInv <=> StepInv)
  BY SoundAll, BoundIsOwn DEF HooksInv, StepInv, LiftInv

LEMMA TaskKeepsHooks ==
    ASSUME Inv, StepInv, ill = None, NEW t \in Threads, TaskStep(t)
    PROVE  StepInv'
  <1>1. Typed
    BY DEF Inv
  <1>2. ModulesInv'
    BY <1>1, TaskFrame, ModulesStay DEF simVars, StepInv
  <1> QED  BY <1>1, <1>2, TaskKeepsLift, TaskWrongOnlyIf, TaskSound DEF StepInv

LEMMA StartKeepsHooks ==
    ASSUME Inv, StepInv, NEW t \in Threads, NEW k \in Kernels, NEW p \in Presets,
           StartTask(t, k, p)
    PROVE  StepInv'
  <1>1. /\ UNCHANGED simVars /\ UNCHANGED <<targetInfo, cacheOwner, failed, ill>>
        /\ task[t].pc = "idle"
    BY DEF StartTask, lockVars, At
  <1>2. /\ task'[t].pc = "lift" /\ task'[t].hooked = FALSE /\ task'[t].next = 1
        /\ \A u \in Threads \ {t} : task'[u] = task[u]
    BY DEF StartTask, Inv, Typed
  <1>3. ModulesInv'
    BY <1>1, ModulesStay DEF simVars, StepInv
  <1>4. LiftInv' /\ TargetsTyped' /\ WrongOnlyIf'
    BY <1>1, <1>2, OutsideLift
    DEF StepInv, Inv, TargetsTyped, WrongOnlyIf, At, Lifting
  <1>5. ASSUME NEW u \in Threads
        PROVE  Sound(u)'
    <2>1. CASE u = t
      BY <1>2, <2>1 DEF Sound, Later
    <2>2. CASE u # t
      BY <1>1, <1>2, <2>2, SoundStays DEF StepInv
    <2> QED  BY <2>1, <2>2
  <1> QED  BY <1>3, <1>4, <1>5 DEF StepInv

LEMMA ModuleStepKeepsHooks ==
    ASSUME Inv, StepInv, ~fatal,
           \/ \E t \in Threads : RegisterVariable(t)
           \/ \E t \in Threads, a \in Agents, m \in Modules : LoadModule(t, a, m)
           \/ \E a \in Agents : UnloadModule(a)
           \/ \E hook \in Hooks : RegisterFunction(hook)
    PROVE  StepInv'
  <1>1. ModulesInv'
    BY RegisterVariableModules, LoadModuleModules, UnloadModuleModules,
       RegisterFunctionModules DEF StepInv
  <1>2. UNCHANGED taskVars
    BY DEF RegisterVariable, LoadModule, UnloadModule, RegisterFunction
  <1>3. LiftInv' /\ TargetsTyped' /\ WrongOnlyIf'
    BY <1>2 DEF taskVars, lockVars, StepInv, LiftInv, CacheHeld, Filling, At,
                IsaOfTask, AgentOfTask, TargetsTyped, WrongOnlyIf
  <1>4. ASSUME NEW u \in Threads
        PROVE  Sound(u)'
    <2>1. task[u].pc \in Later /\ BoundTo(u) => BoundTo(u)'
      BY ModulesLeave DEF StepInv, Inv, Later
    <2> QED  BY <1>2, <2>1 DEF StepInv, Sound, taskVars
  <1> QED  BY <1>1, <1>3, <1>4 DEF StepInv

LEMMA NextHooksInv == HooksInv /\ [Next]_vars => HooksInv'
  <1> SUFFICES ASSUME HooksInv, [Next]_vars
               PROVE  HooksInv'
    OBVIOUS
  <1>1. Inv /\ Inv' /\ StepInv
    BY InvNext, InvOfStep DEF HooksInv
  <1>2. StepInv'
    <2>1. CASE UNCHANGED vars
      <3>1. ModulesInv'
        BY <1>1, <2>1, ModulesStay DEF vars, simVars, StepInv
      <3>2. LiftInv' /\ TargetsTyped' /\ WrongOnlyIf'
        BY <1>1, <2>1 DEF vars, lockVars, StepInv, LiftInv, CacheHeld, Filling,
                          At, IsaOfTask, AgentOfTask, TargetsTyped, WrongOnlyIf
      <3>3. \A u \in Threads : Sound(u)'
        BY <1>1, <2>1, SoundStays DEF vars, StepInv
      <3> QED  BY <3>1, <3>2, <3>3 DEF StepInv
    <2>2. CASE Next /\ ~UNCHANGED vars
      <3>1. ill = None /\ ~fatal
        BY <2>2 DEF Next, Rests, Running
      <3> QED  BY <1>1, <2>2, <3>1, TaskKeepsHooks, StartKeepsHooks,
                  ModuleStepKeepsHooks DEF Next, Rests
    <2> QED  BY <2>1, <2>2
  <1> QED  BY <1>1, <1>2, InvOfStep, PTL

LEMMA HooksInvariant == Spec => []HooksInv
  BY InitHooksInv, NextHooksInv, PTL DEF Spec

(* Whatever threads and modules do: null descriptors are used only of an ISA *)
(* whose creation failed before (TargetManager.cpp:74), and a task with hooks *)
(* meets neither a missing address (luthier.cpp:150) nor names that change   *)
(* under its loop (luthier.cpp:145).                                         *)
THEOREM AlwaysWrongOnlyIf == Spec => []WrongOnlyIf
  <1>1. HooksInv => WrongOnlyIf
    BY DEF HooksInv
  <1> QED  BY <1>1, HooksInvariant, PTL

(* A kernel that is about to be recorded as instrumented has every variable  *)
(* of the module bound to the copy on its own agent.                         *)
THEOREM AlwaysVariablesOwn == Spec => []VariablesOwn
  <1>1. HooksInv => VariablesOwn
    BY DEF HooksInv
  <1> QED  BY <1>1, HooksInvariant, PTL

(* registerExecutable refuses a copy, and ends the process, only of a second *)
(* module, or where an unloading before it went unnoticed.                   *)
THEOREM AlwaysRegistrationSucceeds == Spec => []RegistrationSucceeds
  <1>1. HooksInv => RegistrationSucceeds
    BY DEF HooksInv, ModulesInv
  <1> QED  BY <1>1, HooksInvariant, PTL
=============================================================================

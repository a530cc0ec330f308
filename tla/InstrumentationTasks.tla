------------------------ MODULE InstrumentationTasks ------------------------
(***************************************************************************)
(* The host side of instrumenting kernels: threads that lift a kernel and  *)
(* then run instrumentAndLoad on it, while HIP loads the copies of the     *)
(* tool's static instrumentation module on the agents, one by one and when *)
(* it first needs them, and may unload them again.                         *)
(*                                                                         *)
(* Four locks meet here: the recursive CacheMutex of CodeLifter; the lock  *)
(* of the ThreadSafeContext of a lifted representation, shared with its    *)
(* clones; and the shared mutex of StaticInstrumentationModule, whose      *)
(* readers hold it within a single action.  TargetManager and the maps of  *)
(* ToolExecutableLoader have none, and rely on the first two.              *)
(***************************************************************************)
EXTENDS Naturals, Sequences, FiniteSets

CONSTANTS
    Threads, Kernels, Presets, Agents, Isas, Hooks,
    AgentOf,      \* the agent each kernel is loaded on
    IsaOf,        \* the ISA of each agent
    Modules,      \* instrumentation modules, told apart by their CUIDs
    VariablesOf,  \* the variables of a module, in the order of its symbols
    None,
    Revisions,    \* of the HSA callback: see unregisters
    MaxTasks,     \* bound: tasks started
    MaxCopies     \* bound: module copies loaded

Names == UNION {{VariablesOf[m][i] : i \in DOMAIN VariablesOf[m]} : m \in Modules}

ASSUME InstrumentationTasksAssumption ==
    /\ AgentOf \in [Kernels -> Agents] /\ IsaOf \in [Agents -> Isas]
    /\ VariablesOf \in [Modules -> Seq(Names)]
    /\ None \notin Threads \cup Modules \cup Kernels \cup Presets
    /\ Revisions \subseteq BOOLEAN
    /\ MaxTasks \in Nat /\ MaxCopies \in Nat

VARIABLES
    task,         \* per thread: the instrumentation it is at
    targetInfo,   \* LLVMTargetInfo of TargetManager
    lifted,       \* LiftedKernelSymbols of CodeLifter
    cacheOwner,   \* the thread that holds CacheMutex
    lrOwner,      \* the thread that holds the context of a lifted kernel
    loads,        \* OriginalToInstrumentedKernelsMap: versions loaded
    copies,       \* the copy of a module that HIP has loaded on an agent
    executables,  \* PerAgentModuleExecutables
    bitcode,      \* PerAgentBitcodeBufferMap
    variables,    \* PerAgentGlobalVariables
    names,        \* GlobalVariables
    hookHandles,  \* the keys of HookHandleMap
    registering,  \* registerExecutable at work: it holds the module's Mutex
    unregisters,  \* TRUE: unregisterExecutable is called before a copy is
                  \* unloaded, as documented; FALSE: this revision
    unloaded,     \* history: agents a copy was unloaded from
    failed,       \* history: ISAs whose descriptors could not be created
    ill,          \* undefined behaviour: what, and of which task
    fatal,        \* LUTHIER_REPORT_FATAL_ON_ERROR ended the process
    started,      \* tasks started so far
    numCopies     \* copies loaded so far

simVars == <<copies, executables, bitcode, variables, names, hookHandles,
             registering, unregisters, unloaded, fatal, numCopies>>
lockVars == <<cacheOwner, lrOwner>>
vars == <<task, targetInfo, lifted, lockVars, loads, simVars, failed, ill,
          started>>

(* A copy of a module on an agent: its addresses are those of no other.      *)
Copy == [agent : Agents, module : Modules, number : 1..MaxCopies]

Idle == [pc |-> "idle"]
Steps == {"lift", "init", "target", "fill", "disassemble", "lock", "mutate",
          "look", "hook", "apply", "print", "link", "names", "load", "insert"}
Task == {Idle} \cup [pc : Steps, kernel : Kernels, preset : Presets,
                     hooked : BOOLEAN, code : Copy \cup {None},
                     next : Nat, last : Nat,
                     extern : [Names -> Copy \cup {None}]]

Registration == [thread : Threads, copy : Copy, left : Seq(Names),
                 first : BOOLEAN]
Ill == [what : {"descriptors", "names", "address"}, isa : Isas,
        hooked : BOOLEAN]

(* None stands for the absence of a copy or of a registration.               *)
ASSUME NoneAssumption == None \notin Copy \cup Registration

TypeOK ==
    /\ task \in [Threads -> Task]
    /\ targetInfo \in [Isas -> {"absent", "empty", "complete"}]
    /\ lifted \subseteq Kernels
    /\ cacheOwner \in Threads \cup {None}
    /\ lrOwner \in [Kernels -> Threads \cup {None}]
    /\ loads \in [Kernels \X Presets -> Nat]
    /\ {copies, executables, bitcode} \subseteq [Agents -> Copy \cup {None}]
    /\ variables \in [Agents -> [Names -> Copy \cup {None}]]
    /\ names \in Seq(Names)
    /\ \A i, j \in DOMAIN names : names[i] = names[j] => i = j
    /\ registering \in Registration \cup {None} /\ ill \in Ill \cup {None}
    /\ hookHandles \subseteq Hooks
    /\ unloaded \subseteq Agents /\ failed \subseteq Isas
    /\ unregisters \in Revisions /\ fatal \in BOOLEAN
    /\ started \in 0..MaxTasks /\ numCopies \in 0..MaxCopies

NoVariables == [v \in Names |-> None]

Init ==
    /\ task = [t \in Threads |-> Idle]
    /\ targetInfo = [i \in Isas |-> "absent"]
    /\ lifted = {} /\ cacheOwner = None
    /\ lrOwner = [k \in Kernels |-> None]
    /\ loads = [v \in Kernels \X Presets |-> 0]
    /\ copies = [a \in Agents |-> None]
    /\ executables = copies /\ bitcode = copies
    /\ variables = [a \in Agents |-> NoVariables]
    /\ names = <<>> /\ hookHandles = {} /\ registering = None
    /\ unregisters \in Revisions /\ unloaded = {} /\ failed = {}
    /\ ill = None /\ fatal = FALSE /\ started = 0 /\ numCopies = 0

-----------------------------------------------------------------------------
AgentOfTask(t) == AgentOf[task[t].kernel]
IsaOfTask(t) == IsaOf[AgentOfTask(t)]
VersionOf(t) == <<task[t].kernel, task[t].preset>>
At(t, pc) == task[t].pc = pc
WorksOn(t, a) == ~At(t, "idle") /\ AgentOfTask(t) = a
Registers(t) == registering # None /\ registering.thread = t
Goto(t, pc) == task' = [task EXCEPT ![t].pc = pc]

(* The C++ behaviour of thread t is undefined from here on.                  *)
GoesWrong(t, what) ==
    /\ ill' = [what |-> what, isa |-> IsaOfTask(t), hooked |-> task[t].hooked]
    /\ UNCHANGED <<task, targetInfo, lifted, lockVars, loads, simVars, failed,
                   started>>

(* An operator named Slip... is the definition after it with one plausible   *)
(* mistake in it; no specification uses one.                                 *)
SlipLeaves(t) ==
    /\ task' = [task EXCEPT ![t] = Idle]
    /\ cacheOwner' = IF cacheOwner = t THEN None ELSE cacheOwner
    /\ lrOwner' = lrOwner

(* The call returns, with an error or without: the guards of its scopes      *)
(* release what it holds.                                                    *)
Leaves(t) ==
    /\ task' = [task EXCEPT ![t] = Idle]
    /\ cacheOwner' = IF cacheOwner = t THEN None ELSE cacheOwner
    /\ lrOwner' = [k \in Kernels |-> IF lrOwner[k] = t THEN None ELSE lrOwner[k]]

Fails(t) ==
    /\ Leaves(t)
    /\ UNCHANGED <<targetInfo, lifted, loads, simVars, failed, ill, started>>

-----------------------------------------------------------------------------
StartTask(t, k, p) ==
    /\ At(t, "idle") /\ ~Registers(t) /\ started < MaxTasks
    /\ task' = [task EXCEPT ![t] =
           [pc |-> "lift", kernel |-> k, preset |-> p, hooked |-> FALSE,
            code |-> None, next |-> 1, last |-> 0, extern |-> NoVariables]]
    /\ started' = started + 1
    /\ UNCHANGED <<targetInfo, lifted, lockVars, loads, simVars, failed, ill>>

SlipBeginLift(t) ==
    /\ At(t, "lift")
    /\ cacheOwner' = cacheOwner
    /\ Goto(t, IF task[t].kernel \in lifted THEN "lock" ELSE "init")
    /\ UNCHANGED <<targetInfo, lifted, lrOwner, loads, simVars, failed, ill,
                   started>>

(* lift, under CacheMutex.  A kernel that is lifted already is returned at   *)
(* once, and the mutex with it.                                              *)
BeginLift(t) ==
    /\ At(t, "lift") /\ cacheOwner = None
    /\ cacheOwner' = IF task[t].kernel \in lifted THEN None ELSE t
    /\ Goto(t, IF task[t].kernel \in lifted THEN "lock" ELSE "init")
    /\ UNCHANGED <<targetInfo, lifted, lrOwner, loads, simVars, failed, ill,
                   started>>

(* A target machine is made anew for each representation, and nothing of it  *)
(* is kept when that fails.                                                  *)
CreateTargetMachine(t) ==
    /\ Goto(t, "target")
    /\ UNCHANGED <<targetInfo, lifted, lockVars, loads, simVars, failed, ill,
                   started>>

InitLR(t) == At(t, "init") /\ (CreateTargetMachine(t) \/ Fails(t))

(* getDisassemblyInfo and disassemble ask for the descriptors of the ISA.    *)
(* getTargetInfo inserts an empty entry before it creates any of them.       *)
GetTargetInfo(t) ==
    /\ At(t, "target")
    /\ \/ /\ targetInfo[IsaOfTask(t)] = "absent"
          /\ targetInfo' = [targetInfo EXCEPT ![IsaOfTask(t)] = "empty"]
          /\ Goto(t, "fill")
          /\ UNCHANGED <<lifted, lockVars, loads, simVars, failed, ill, started>>
       \/ /\ targetInfo[IsaOfTask(t)] # "absent"
          /\ Goto(t, "disassemble")
          /\ UNCHANGED <<targetInfo, lifted, lockVars, loads, simVars, failed,
                         ill, started>>

(* The descriptors are stored in the entry when all of them exist.           *)
FillTargetInfo(t) ==
    /\ At(t, "fill")
    /\ \/ /\ targetInfo' = [targetInfo EXCEPT ![IsaOfTask(t)] = "complete"]
          /\ Goto(t, "disassemble")
          /\ UNCHANGED <<lifted, lockVars, loads, simVars, failed, ill, started>>
       \/ /\ failed' = failed \cup {IsaOfTask(t)}
          /\ Leaves(t)
          /\ UNCHANGED <<targetInfo, lifted, loads, simVars, ill, started>>

(* The disassembler is created through the descriptors, and the functions of *)
(* the kernel are lifted with it.                                            *)
Disassemble(t) ==
    /\ At(t, "disassemble")
    /\ \/ targetInfo[IsaOfTask(t)] = "empty" /\ GoesWrong(t, "descriptors")
       \/ /\ targetInfo[IsaOfTask(t)] = "complete"
          /\ lifted' = lifted \cup {task[t].kernel}
          /\ cacheOwner' = IF cacheOwner = t THEN None ELSE cacheOwner
          /\ Goto(t, "lock")
          /\ UNCHANGED <<targetInfo, lrOwner, loads, simVars, failed, ill, started>>
       \/ targetInfo[IsaOfTask(t)] = "complete" /\ Fails(t)

-----------------------------------------------------------------------------
SlipLockLR(t) ==
    /\ At(t, "lock") /\ Goto(t, "mutate")
    /\ UNCHANGED <<targetInfo, lifted, lockVars, loads, simVars, failed, ill,
                   started>>

(* instrumentAndLoad takes the lock of the lifted representation and keeps   *)
(* it.  It is recursive: instrument, the clone and printLiftedRepresentation *)
(* take it again.                                                            *)
LockLR(t) ==
    /\ At(t, "lock") /\ lrOwner[task[t].kernel] = None
    /\ lrOwner' = [lrOwner EXCEPT ![task[t].kernel] = t]
    /\ Goto(t, "mutate")
    /\ UNCHANGED <<targetInfo, lifted, cacheOwner, loads, simVars, failed, ill,
                   started>>

(* The representation is cloned, and the tool's mutator runs; it may         *)
(* disassemble a function, which takes CacheMutex under this lock.           *)
Mutate(t) ==
    /\ At(t, "mutate")
    /\ \/ /\ \E pc \in {"look", "hook"} : Goto(t, pc)
          /\ UNCHANGED <<targetInfo, lifted, lockVars, loads, simVars, failed,
                         ill, started>>
       \/ Fails(t)

Look(t) ==
    /\ At(t, "look") /\ cacheOwner = None
    /\ Goto(t, "hook")
    /\ UNCHANGED <<targetInfo, lifted, lockVars, loads, simVars, failed, ill,
                   started>>

(* The module's Mutex, for as long as one reader needs it.                   *)
Shared == registering = None

(* convertHookHandleToHookName finds a name.                                 *)
HasName(hook) == hook \in hookHandles

(* insertHookBefore: the hook must be in HookHandleMap.  A mutator may also  *)
(* insert none, and the module's code is then not read.                      *)
InsertHooks(t) ==
    /\ At(t, "hook")
    /\ \/ /\ Goto(t, "print")
          /\ UNCHANGED <<targetInfo, lifted, lockVars, loads, simVars, failed,
                         ill, started>>
       \/ /\ Shared
          /\ \E hook \in Hooks :
                \/ /\ HasName(hook)
                   /\ task' = [task EXCEPT ![t].pc = "apply", ![t].hooked = TRUE]
                   /\ UNCHANGED <<targetInfo, lifted, lockVars, loads, simVars,
                                  failed, ill, started>>
                \/ ~HasName(hook) /\ Fails(t)

(* What readBitcodeIntoContext reads for the kernel's agent.                 *)
BitcodeFor(t) == bitcode[AgentOfTask(t)]

(* applyInstrumentationTask: the module's code is read, and the passes run.  *)
ApplyInstrumentationTask(t) ==
    /\ At(t, "apply") /\ Shared
    /\ \/ BitcodeFor(t) = None /\ Fails(t)
       \/ /\ BitcodeFor(t) # None
          /\ task' = [task EXCEPT ![t].pc = "print", ![t].code = BitcodeFor(t)]
          /\ UNCHANGED <<targetInfo, lifted, lockVars, loads, simVars, failed,
                         ill, started>>

(* printAssembly, which takes the clone's MMI away with it: what fails here  *)
(* or later starts again from a new clone.                                   *)
PrintAssembly(t) ==
    /\ At(t, "print")
    /\ \/ /\ Goto(t, "link")
          /\ UNCHANGED <<targetInfo, lifted, lockVars, loads, simVars, failed,
                         ill, started>>
       \/ Fails(t)

(* linkRelocatableToExecutable.  The iteration over gv_names then begins     *)
(* with the names there are.                                                 *)
LinkRelocatable(t) ==
    /\ At(t, "link")
    /\ \/ /\ task' = [task EXCEPT ![t].pc = "names", ![t].last = Len(names)]
          /\ UNCHANGED <<targetInfo, lifted, lockVars, loads, simVars, failed,
                         ill, started>>
       \/ Fails(t)

(* The vector of names is read without the lock: when a registration or an   *)
(* unregistration changes it, the iterators are void.                        *)
NamesChange(t) ==
    \/ Len(names) # task[t].last
    \/ registering # None /\ registering.first

NameAt(t) == names[task[t].next]

(* What getLCOGlobalVariableOnAgentNoLock finds: nothing on an agent without *)
(* a copy, and an error for a name its copy does not have.                   *)
NoCopy(t) == variables[AgentOfTask(t)] = NoVariables
VariableOn(t) == variables[AgentOfTask(t)][NameAt(t)]

(* getGlobalVariablesLoadedOnAgent for the next name.  An agent without a    *)
(* copy gives no address, and the caller takes the one that is not there.    *)
BindVariable(t) ==
    /\ At(t, "names")
    /\ \/ NamesChange(t) /\ GoesWrong(t, "names")
       \/ /\ ~NamesChange(t) /\ task[t].next > task[t].last
          /\ Goto(t, "load")
          /\ UNCHANGED <<targetInfo, lifted, lockVars, loads, simVars, failed,
                         ill, started>>
       \/ /\ ~NamesChange(t) /\ task[t].next <= task[t].last /\ Shared
          /\ \/ NoCopy(t) /\ GoesWrong(t, "address")
             \/ ~NoCopy(t) /\ VariableOn(t) = None /\ Fails(t)
             \/ /\ VariableOn(t) # None
                /\ task' = [task EXCEPT ![t].next = @ + 1,
                                       ![t].extern[NameAt(t)] = VariableOn(t)]
                /\ UNCHANGED <<targetInfo, lifted, lockVars, loads, simVars,
                               failed, ill, started>>

(* loadInstrumentedKernel: is it instrumented; create, load and freeze the   *)
(* executable; and record the version.  The maps have no lock.               *)
LoadInstrumentedKernel(t) ==
    /\ At(t, "load")
    /\ \/ /\ loads[VersionOf(t)] = 0
          /\ Goto(t, "insert")
          /\ UNCHANGED <<targetInfo, lifted, lockVars, loads, simVars, failed,
                         ill, started>>
       \/ Fails(t)

InsertVersion(t) ==
    /\ At(t, "insert")
    /\ loads' = [loads EXCEPT ![VersionOf(t)] = @ + 1]
    /\ Leaves(t)
    /\ UNCHANGED <<targetInfo, lifted, simVars, failed, ill, started>>

-----------------------------------------------------------------------------
taskVars == <<task, targetInfo, lifted, lockVars, loads, failed, ill, started>>

(* __hipRegisterFunction of a hook's handle.  HIP registers the functions of *)
(* the tool's binary as it is loaded, before it can load a code object of it. *)
RegisterFunction(hook) ==
    /\ started = 0 /\ numCopies = 0 /\ hook \notin hookHandles
    /\ hookHandles' = hookHandles \cup {hook}
    /\ UNCHANGED <<taskVars, copies, executables, bitcode, variables, names,
                   registering, unregisters, unloaded, fatal, numCopies>>

(* The CUID of the module a copy is of.                                      *)
Cuid(copy) == copy.module

(* What registerExecutable asks of a new copy: it is of the same module as   *)
(* the first, and its agent has none.                                        *)
MayRegister(copy) ==
    /\ executables[copy.agent] = None
    /\ \A a \in Agents : executables[a] # None => Cuid(executables[a]) = Cuid(copy)

FirstTimeInit == \A a \in Agents : executables[a] = None

(* registerExecutable, up to the loop over the variables.                    *)
RegisterExecutable(t, copy) ==
    /\ executables' = [executables EXCEPT ![copy.agent] = copy]
    /\ bitcode' = [bitcode EXCEPT ![copy.agent] = copy]
    /\ registering' = [thread |-> t, copy |-> copy, first |-> FirstTimeInit,
                       left |-> VariablesOf[Cuid(copy)]]

(* HIP has loaded a copy on an agent, and after its freeze                   *)
(* registerIfLuthierToolExecutable knows it by its reserved variable.  An    *)
(* error is fatal.                                                           *)
LoadModule(t, a, m) ==
    /\ At(t, "idle") /\ copies[a] = None /\ numCopies < MaxCopies
    /\ registering = None
    /\ LET copy == [agent |-> a, module |-> m, number |-> numCopies + 1]
       IN /\ copies' = [copies EXCEPT ![a] = copy]
          /\ IF MayRegister(copy)
             THEN RegisterExecutable(t, copy) /\ fatal' = fatal
             ELSE fatal' = TRUE /\ UNCHANGED <<executables, bitcode, registering>>
    /\ numCopies' = numCopies + 1
    /\ UNCHANGED <<taskVars, variables, names, hookHandles, unregisters, unloaded>>

SlipRecordOf(copy) ==
    [a \in Agents |-> [variables[a] EXCEPT ![Head(registering.left)] = copy]]

(* The symbol map of the copy's agent, with the next variable.               *)
RecordOf(copy) ==
    [variables EXCEPT ![copy.agent][Head(registering.left)] = copy]

(* registerExecutable, the loop over the copy's variables, and its end.      *)
RegisterVariable(t) ==
    /\ Registers(t)
    /\ \/ /\ registering.left # <<>>
          /\ variables' = RecordOf(registering.copy)
          /\ names' = IF registering.first
                      THEN Append(names, Head(registering.left)) ELSE names
          /\ registering' = [registering EXCEPT !.left = Tail(@)]
       \/ /\ registering.left = <<>>
          /\ registering' = None
          /\ UNCHANGED <<variables, names>>
    /\ UNCHANGED <<taskVars, copies, executables, bitcode, hookHandles,
                   unregisters, unloaded, fatal, numCopies>>

SlipErase(a) ==
    /\ variables' = [variables EXCEPT ![a] = NoVariables]
    /\ bitcode' = [bitcode EXCEPT ![a] = None]
    /\ executables' = executables /\ UNCHANGED <<hookHandles, names>>

(* unregisterExecutable: the entries of the agent, and with the last one the *)
(* hooks and the names.                                                      *)
Erase(a) ==
    /\ variables' = [variables EXCEPT ![a] = NoVariables]
    /\ bitcode' = [bitcode EXCEPT ![a] = None]
    /\ executables' = [executables EXCEPT ![a] = None]
    /\ IF \A b \in Agents \ {a} : executables[b] = None
       THEN hookHandles' = {} /\ names' = <<>>
       ELSE UNCHANGED <<hookHandles, names>>

(* HIP unloads a copy: the device is reset, and no kernel of it is at work.  *)
(* The callback that would unregister it is commented out in this revision.  *)
UnloadModule(a) ==
    /\ copies[a] # None /\ registering = None
    /\ \A t \in Threads : ~WorksOn(t, a)
    /\ copies' = [copies EXCEPT ![a] = None]
    /\ unloaded' = unloaded \cup {a}
    /\ IF unregisters THEN Erase(a)
       ELSE UNCHANGED <<variables, bitcode, executables, hookHandles, names>>
    /\ UNCHANGED <<taskVars, registering, unregisters, fatal, numCopies>>

-----------------------------------------------------------------------------
TaskStep(t) ==
    \/ BeginLift(t) \/ InitLR(t) \/ GetTargetInfo(t) \/ FillTargetInfo(t)
    \/ Disassemble(t) \/ LockLR(t) \/ Mutate(t) \/ Look(t) \/ InsertHooks(t)
    \/ ApplyInstrumentationTask(t) \/ PrintAssembly(t) \/ LinkRelocatable(t)
    \/ BindVariable(t) \/ LoadInstrumentedKernel(t) \/ InsertVersion(t)

Running == ill = None /\ ~fatal

(* Nothing is under way, or the process has ended.                           *)
Rests ==
    /\ Running => registering = None /\ \A t \in Threads : At(t, "idle")
    /\ UNCHANGED vars

Next ==
    \/ /\ Running
       /\ \/ \E t \in Threads, k \in Kernels, p \in Presets : StartTask(t, k, p)
          \/ \E t \in Threads : TaskStep(t) \/ RegisterVariable(t)
          \/ \E t \in Threads, a \in Agents, m \in Modules : LoadModule(t, a, m)
          \/ \E a \in Agents : UnloadModule(a)
          \/ \E hook \in Hooks : RegisterFunction(hook)
    \/ Rests

Spec == Init /\ [][Next]_vars

(* The threads run on.  Every lock is given back after finitely many steps,  *)
(* and there are MaxTasks tasks to compete for it.                           *)
Fairness == \A t \in Threads :
    WF_vars(Running /\ TaskStep(t)) /\ WF_vars(Running /\ RegisterVariable(t))

FairSpec == Spec /\ Fairness

-----------------------------------------------------------------------------
(* What goes wrong, and when.  Null descriptors are used only after their    *)
(* creation has failed before (TargetManager.cpp:74): CacheMutex keeps every *)
(* caller from an entry that is being filled.  A missing address             *)
(* (luthier.cpp:150) or void iterators of gv_names (luthier.cpp:145) meet    *)
(* only tasks without hooks: one with hooks has read the module's code on    *)
(* the agent, behind the registration of the names.                          *)
WrongOnlyIf ==
    ill # None =>
      \/ ill.what = "descriptors" /\ ill.isa \in failed
      \/ ill.what \in {"names", "address"} /\ ~ill.hooked

(* Whatever threads run instrumentAndLoad at once, a kernel is loaded at     *)
(* most once under a preset: the check and the insertion of                  *)
(* loadInstrumentedKernel, steps apart and without a lock of their own, are  *)
(* both under the lock of the lifted representation.                         *)
OncePerPreset == \A v \in Kernels \X Presets : loads[v] <= 1

(* An instrumented kernel with hooks is bound, for every variable of the     *)
(* module whose code it holds, to the copy of that module that is loaded on  *)
(* its own agent; in this revision, as long as no copy is ever unloaded.     *)
VariablesOwn ==
    \A t \in Threads :
       (At(t, "insert") /\ task[t].hooked /\ (unregisters \/ unloaded = {})) =>
           LET copy == copies[AgentOfTask(t)]
           IN /\ task[t].code = copy
              /\ \A i \in DOMAIN VariablesOf[copy.module] :
                    task[t].extern[VariablesOf[copy.module][i]] = copy

(* Registration of a copy is refused, and the process ended, only for a      *)
(* second module, or in this revision for a module that comes back to an     *)
(* agent it was unloaded from.                                               *)
RegistrationSucceeds ==
    fatal =>
       \/ \E a, b \in Agents : /\ copies[a] # None /\ executables[b] # None
                                /\ copies[a].module # executables[b].module
       \/ ~unregisters /\ unloaded # {}

(* Every instrumentation and every registration comes to its end: no two     *)
(* threads wait for each other over the locks, and none is kept by a call    *)
(* that has failed.                                                          *)
TasksEnd ==
    /\ \A t \in Threads : ~At(t, "idle") ~> (At(t, "idle") \/ ~Running)
    /\ registering # None ~> (registering = None \/ ~Running)

(* A hook that was registered stays known.  Not so when copies are           *)
(* unregistered: with the last one HookHandleMap is cleared, and HIP does    *)
(* not register the functions again (InstrumentationModule.cpp:196).         *)
HooksStay == [][hookHandles \subseteq hookHandles']_vars
=============================================================================

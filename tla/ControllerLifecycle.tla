-------------------------- MODULE ControllerLifecycle --------------------------
(***************************************************************************)
(* The life of Luthier's singletons in a process (Controller.cpp):         *)
(* created once when rocprofiler configures the tool, given the API tables *)
(* of the runtimes as those are loaded, and destroyed once by              *)
(* toolingLibraryFini, which atexit, rocprofiler and LLVM's signal handler *)
(* all may call.  Application threads go on calling through the tables and *)
(* dispatching packets, whatever the finalizer is doing; an error that     *)
(* LUTHIER_REPORT_FATAL_ON_ERROR reports runs the signal handler.          *)
(***************************************************************************)
EXTENDS Naturals, Sequences

CONSTANTS
    Threads,          \* host threads
    Nobody,
    TimeTrace,        \* --luthier-time-trace is given
    Tables            \* subset of {"hsa", "hipCompiler", "hipRuntime"}

ASSUME LifecycleAssumption ==
    /\ Nobody \notin Threads /\ {"fresh", "done"} \cap Threads = {}
    /\ TimeTrace \in BOOLEAN
    /\ Tables \subseteq {"hsa", "hipCompiler", "hipRuntime"}

Singletons == {"TM", "HipCompiler", "Hsa", "Cache", "HipRuntime", "TEL",
               "CL", "CG", "Controller"}
Interceptor == [table \in {"hsa", "hipCompiler", "hipRuntime"} |->
    CASE table = "hsa" -> "Hsa" [] table = "hipCompiler" -> "HipCompiler"
      [] table = "hipRuntime" -> "HipRuntime"]

VARIABLES
    live,      \* singletons whose Instance is set
    init,      \* the once_flag of toolingLibraryInit
    fini,      \* the once_flag of toolingLibraryFini, and who runs it
    step,      \* the finalizer's next step
    table,     \* per table: unknown to Luthier, wrapped, or put back
    slot,      \* capture callbacks: whose callback is in each field
    wanted,    \* tables the tool has set a capture callback for
    notified,  \* history: table captured, callback that was called
    globals,   \* the tool's global variables exist
    queues,    \* the application has a queue with the packet interceptor
    pc,        \* per thread
    ill,       \* history: what went wrong so far
    overlap    \* history: the application used the runtimes while or after
               \* Luthier was finalized

vars == <<live, init, fini, step, table, slot, wanted, notified, globals,
          queues, pc, ill, overlap>>

(* at: outside; inside a wrapper before instance(), in the internal          *)
(* callback, in the runtime's function; in the packet interceptor before its *)
(* two instance() calls and in the tool's callback; in toolingLibraryFini;   *)
(* in the abort that follows a fatal error.  dying: this thread is handling  *)
(* a fatal error.                                                            *)
At == {"out", "wrapper", "internal", "real", "submit", "freeze", "user",
       "fini", "abort", "dead"}
Ill == {"noSingleton", "noQueueMutex", "freedInterceptor", "freedGlobals",
        "traceWrite", "badArguments"}

LastStep == 12

TypeOK ==
    /\ live \subseteq Singletons
    /\ init \in {"fresh", "running", "done"}
    /\ fini \in {"fresh", "done"} \cup Threads
    /\ step \in 0..LastStep
    /\ table \in [Tables -> {"unknown", "wrapped", "restored"}]
    /\ slot \in [{"hsa", "hipCompiler"} -> Tables \cup {Nobody}]
    /\ wanted \subseteq Tables
    /\ notified \subseteq Tables \X (Tables \cup {Nobody})
    /\ {globals, queues} \subseteq BOOLEAN
    /\ pc \in [Threads -> [at : At, table : Tables \cup {Nobody},
                           dying : BOOLEAN]]
    /\ ill \subseteq Ill
    /\ overlap \in BOOLEAN

Init ==
    /\ live = {} /\ init = "fresh" /\ fini = "fresh" /\ step = 0
    /\ table = [a \in Tables |-> "unknown"]
    /\ slot = [s \in {"hsa", "hipCompiler"} |-> Nobody]
    /\ wanted = {} /\ notified = {}
    /\ globals = FALSE /\ queues = FALSE
    /\ pc = [t \in Threads |-> [at |-> "out", table |-> Nobody, dying |-> FALSE]]
    /\ ill = {} /\ overlap = FALSE

-----------------------------------------------------------------------------
Exited == \E t \in Threads : pc[t].at = "dead"
At_(t, at) == pc[t].at = at /\ ~Exited
Goes(t, at) == pc' = [pc EXCEPT ![t].at = at]

(* report_fatal_error: abort raises the signal whose handler finalizes.      *)
Fatal(t, why) ==
    /\ ill' = ill \cup {why}
    /\ pc' = [pc EXCEPT ![t].at = "fini", ![t].dying = TRUE]

-----------------------------------------------------------------------------
(* toolingLibraryInit, run by rocprofiler_configure: the tool's globals, the *)
(* singletons, the handlers; bad LUTHIER_ARGS are fatal.                     *)
BeginInit(t) ==
    /\ At_(t, "out") /\ init = "fresh"
    /\ init' = "running" /\ live' = Singletons /\ globals' = TRUE
    /\ UNCHANGED <<fini, step, table, slot, wanted, notified, queues, pc, ill,
                   overlap>>

BadArguments(t) ==
    /\ At_(t, "out") /\ init = "running" /\ wanted = {}
    /\ init' = "done"
    /\ Fatal(t, "badArguments")
    /\ UNCHANGED <<live, fini, step, table, slot, wanted, notified, globals,
                   queues, overlap>>

(* The field of Controller a capture callback for table a is set in, and     *)
(* read from: the HIP runtime's accessors use the HIP compiler's.            *)
SlotOf(a) == IF a = "hsa" THEN "hsa" ELSE "hipCompiler"

(* In its atToolInit the tool sets capture callbacks, one for each table it  *)
(* wants to hear of.                                                         *)
SetCaptureCallback(t, a) ==
    /\ At_(t, "out") /\ init = "running" /\ a \notin wanted
    /\ slot' = [slot EXCEPT ![SlotOf(a)] = a]
    /\ wanted' = wanted \cup {a}
    /\ UNCHANGED <<live, init, fini, step, table, notified, globals, queues,
                   pc, ill, overlap>>

EndInit(t) ==
    /\ At_(t, "out") /\ init = "running"
    /\ init' = "done"
    /\ UNCHANGED <<live, fini, step, table, slot, wanted, notified, globals,
                   queues, pc, ill, overlap>>

-----------------------------------------------------------------------------
(* apiRegistrationCallback, when a runtime registers its table.  The packet  *)
(* interceptor triggers the HIP runtime's itself.                            *)
Captured(a) ==
    /\ table' = [table EXCEPT ![a] = "wrapped"]
    /\ notified' = notified \cup {<<a, slot[SlotOf(a)]>>}

Capture(t, a) ==
    /\ At_(t, "out") /\ init = "done" /\ table[a] = "unknown"
    /\ overlap' = (overlap \/ fini # "fresh")
    /\ IF {Interceptor[a], "Controller"} \subseteq live
       THEN Captured(a) /\ UNCHANGED <<ill, pc>>
       ELSE Fatal(t, "noSingleton") /\ UNCHANGED <<table, notified>>
    /\ UNCHANGED <<live, init, fini, step, slot, wanted, globals, queues>>

-----------------------------------------------------------------------------
(* An application thread calls through a table; what the table holds at that *)
(* moment is what it runs.                                                   *)
CallWrapper(t, a) ==
    /\ At_(t, "out") /\ table[a] = "wrapped"
    /\ overlap' = (overlap \/ fini \in Threads)
    /\ pc' = [pc EXCEPT ![t].at = "wrapper", ![t].table = a]
    /\ UNCHANGED <<live, init, fini, step, table, slot, wanted, notified,
                   globals, queues, ill>>

Instance(t) ==
    /\ At_(t, "wrapper")
    /\ IF Interceptor[pc[t].table] \in live
       THEN Goes(t, "internal") /\ UNCHANGED ill
       ELSE Fatal(t, "noSingleton")
    /\ UNCHANGED <<live, init, fini, step, table, slot, wanted, notified,
                   globals, queues, overlap>>

(* The singletons the internal callback of a table asks for.                 *)
Uses(a) == CASE a = "hsa" -> {"Cache", "TEL"} [] a = "hipCompiler" -> {"TEL"}
             [] a = "hipRuntime" -> {}

InternalCallback(t) ==
    /\ At_(t, "internal")
    /\ IF Uses(pc[t].table) \subseteq live
       THEN Goes(t, "real") /\ UNCHANGED ill
       ELSE Fatal(t, "noSingleton")
    /\ UNCHANGED <<live, init, fini, step, table, slot, wanted, notified,
                   globals, queues, overlap>>

(* The wrapper reads the saved table through the reference it got.           *)
CallReal(t) ==
    /\ At_(t, "real")
    /\ pc' = [pc EXCEPT ![t].at = "out", ![t].table = Nobody]
    /\ ill' = IF Interceptor[pc[t].table] \in live
              THEN ill ELSE ill \cup {"freedInterceptor"}
    /\ queues' = (queues \/ pc[t].table = "hsa")
    /\ UNCHANGED <<live, init, fini, step, table, slot, wanted, notified,
                   globals, overlap>>

-----------------------------------------------------------------------------
(* queueSubmitWriteInterceptor.  Its mutex is an EagerManagedStatic that     *)
(* llvm_shutdown, in ~TargetManager, destroys.                               *)
BeginSubmit(t) ==
    /\ At_(t, "out") /\ queues
    /\ overlap' = (overlap \/ fini # "fresh")
    /\ IF "TM" \in live THEN Goes(t, "submit") /\ UNCHANGED ill
       ELSE Fatal(t, "noQueueMutex")
    /\ UNCHANGED <<live, init, fini, step, table, slot, wanted, notified,
                   globals, queues>>

(* Under the mutex: hipApiName makes the HIP runtime register its table.     *)
EnsureHipRuntime(t) ==
    /\ At_(t, "submit")
    /\ IF "HipRuntime" \in live
       THEN /\ Goes(t, "freeze") /\ UNCHANGED ill
            /\ IF "hipRuntime" \in Tables /\ table["hipRuntime"] = "unknown"
               THEN Captured("hipRuntime") ELSE UNCHANGED <<table, notified>>
       ELSE Fatal(t, "noSingleton") /\ UNCHANGED <<table, notified>>
    /\ UNCHANGED <<live, init, fini, step, slot, wanted, globals, queues,
                   overlap>>

FreezeOnSubmit(t) ==
    /\ At_(t, "freeze")
    /\ IF "Hsa" \in live THEN Goes(t, "user") /\ UNCHANGED ill
       ELSE Fatal(t, "noSingleton")
    /\ UNCHANGED <<live, init, fini, step, table, slot, wanted, notified,
                   globals, queues, overlap>>

(* The tool's callback works with its globals and, through the API, with     *)
(* most singletons.                                                          *)
UserCallback(t) ==
    /\ At_(t, "user")
    /\ IF {"CL", "CG", "TEL", "Cache", "TM"} \subseteq live
       THEN /\ Goes(t, "out")
            /\ ill' = ill \cup (IF globals THEN {} ELSE {"freedGlobals"})
       ELSE Fatal(t, "noSingleton")
    /\ UNCHANGED <<live, init, fini, step, table, slot, wanted, notified,
                   globals, queues, overlap>>

-----------------------------------------------------------------------------
(* The process exits, or rocprofiler unloads the tool.                       *)
Exit(t) ==
    /\ At_(t, "out") /\ init = "done"
    /\ Goes(t, "fini")
    /\ UNCHANGED <<live, init, fini, step, table, slot, wanted, notified,
                   globals, queues, ill, overlap>>

(* call_once in toolingLibraryFini: the first caller runs it, callers that   *)
(* come while it runs wait for it, and later ones pass.                      *)
EnterFini(t) ==
    /\ At_(t, "fini") /\ fini = "fresh"
    /\ fini' = t /\ step' = 1
    /\ overlap' = (overlap \/ \E u \in Threads : pc[u].at \notin {"out", "fini"})
    /\ UNCHANGED <<live, init, table, slot, wanted, notified, globals, queues,
                   pc, ill>>

(* An operator named Slip... is the definition after it with one plausible   *)
(* mistake in it; no specification uses one.                                 *)
SlipDestroyed == <<"TM", "CG", "CL", "TEL", "Cache", "HipRuntime", "Hsa",
                   "HipCompiler", "Controller">>   \* the target manager first
Destroyed == <<"CG", "CL", "TEL", "Cache", "HipRuntime", "Hsa", "HipCompiler",
               "TM", "Controller">>

SlipPutBack(s) == table         \* the wrappers stay
(* The interceptors' destructors put the saved tables back.                  *)
PutBack(s) == [a \in Tables |->
    IF Interceptor[a] = s /\ table[a] = "wrapped" THEN "restored" ELSE table[a]]

(* atToolFini before, the time trace, delete C one singleton after the       *)
(* other, atToolFini after.                                                  *)
AtToolFini(t) ==
    /\ At_(t, "fini") /\ fini = t /\ step = 1
    /\ globals' = FALSE /\ step' = 2
    /\ UNCHANGED <<live, init, fini, table, slot, wanted, notified, queues, pc,
                   ill, overlap>>

WriteTimeTrace(t) ==
    /\ At_(t, "fini") /\ fini = t /\ step = 2
    /\ step' = 3
    /\ UNCHANGED <<live, init, fini, table, slot, wanted, notified, globals,
                   queues, pc, ill, overlap>>

(* The file cannot be written.  The handler calls the finalizer again, from  *)
(* inside call_once: nothing can let it through.                             *)
WriteTimeTraceFails(t) ==
    /\ At_(t, "fini") /\ fini = t /\ step = 2 /\ TimeTrace
    /\ step' = 0
    /\ Fatal(t, "traceWrite")
    /\ UNCHANGED <<live, init, fini, table, slot, wanted, notified, globals,
                   queues, overlap>>

Destroy(t) ==
    /\ At_(t, "fini") /\ fini = t /\ step \in 3..11
    /\ live' = live \ {Destroyed[step - 2]}
    /\ table' = PutBack(Destroyed[step - 2])
    /\ step' = step + 1
    /\ UNCHANGED <<init, fini, slot, wanted, notified, globals, queues, pc,
                   ill, overlap>>

SlipEndFini(t) ==               \* the flag is not set
    /\ At_(t, "fini") /\ fini = t /\ step = LastStep
    /\ step' = step + 1
    /\ UNCHANGED <<live, init, fini, table, slot, wanted, notified, globals,
                   queues, pc, ill, overlap>>
EndFini(t) ==
    /\ At_(t, "fini") /\ fini = t /\ step = LastStep
    /\ fini' = "done" /\ step' = 0
    /\ UNCHANGED <<live, init, table, slot, wanted, notified, globals, queues,
                   pc, ill, overlap>>

(* A thread leaves the finalizer to abort, or to go on exiting.              *)
LeaveFini(t) ==
    /\ At_(t, "fini") /\ fini = "done"
    /\ pc' = [pc EXCEPT ![t].at = IF pc[t].dying THEN "abort" ELSE "out"]
    /\ UNCHANGED <<live, init, fini, step, table, slot, wanted, notified,
                   globals, queues, ill, overlap>>

Abort(t) ==
    /\ At_(t, "abort")
    /\ Goes(t, "dead")
    /\ UNCHANGED <<live, init, fini, step, table, slot, wanted, notified,
                   globals, queues, ill, overlap>>

-----------------------------------------------------------------------------
FiniStep(t) ==
    \/ EnterFini(t) \/ AtToolFini(t) \/ WriteTimeTrace(t)
    \/ WriteTimeTraceFails(t) \/ Destroy(t) \/ EndFini(t) \/ LeaveFini(t)
    \/ Abort(t)

Next ==
    \E t \in Threads :
       \/ BeginInit(t) \/ BadArguments(t) \/ EndInit(t)
       \/ \E a \in Tables :
            SetCaptureCallback(t, a) \/ Capture(t, a) \/ CallWrapper(t, a)
       \/ Instance(t) \/ InternalCallback(t) \/ CallReal(t)
       \/ BeginSubmit(t) \/ EnsureHipRuntime(t) \/ FreezeOnSubmit(t)
       \/ UserCallback(t)
       \/ Exit(t) \/ FiniStep(t)

Spec == Init /\ [][Next]_vars
FairSpec == Spec /\ \A t \in Threads : WF_vars(FiniStep(t))

-----------------------------------------------------------------------------
(* A table that holds wrappers has its interceptor, which the wrappers ask   *)
(* for first thing; a call that begins when Luthier is gone does not reach   *)
(* them.  And the singletons other singletons call in their own work, and    *)
(* from their destructors, are there as long as those are.                   *)
Needs == [s \in Singletons |->
    CASE s = "CG" -> {"TM", "CL", "TEL"} [] s = "CL" -> {"TM", "Cache"}
      [] s = "TEL" -> {"Cache", "Hsa"} [] s = "Cache" -> {"Hsa"}
      [] OTHER -> {}]
NeededAlive ==
    /\ \A a \in Tables : table[a] = "wrapped" => Interceptor[a] \in live
    /\ init = "done" => \A s \in live : Needs[s] \subseteq live

(* When the application is done with the runtimes before Luthier is          *)
(* finalized, nothing goes wrong but what the user or the disk got wrong;    *)
(* calls through the tables that come later find no trace of Luthier.        *)
NothingIll == ~overlap => ill \subseteq {"badArguments", "traceWrite"}

(* The capture of a table is announced to the callback the tool set for it,  *)
(* and to no other.                                                          *)
Announced(n) == n[2] = (IF n[1] \in wanted THEN n[1] ELSE Nobody)
CaptureAnnounced == \A n \in notified : Announced(n)

(* A finalizer that has begun ends, whoever runs or waits for it, or the     *)
(* process ends.                                                             *)
FinalizationEnds ==
    \A t \in Threads : pc[t].at = "fini" ~> pc[t].at # "fini" \/ Exited

(* It does so unless the time trace could not be written.                    *)
FinalizationEndsWithTrace ==
    \A t \in Threads : pc[t].at = "fini" ~>
        pc[t].at # "fini" \/ Exited \/ "traceWrite" \in ill
=============================================================================

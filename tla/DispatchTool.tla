----------------------------- MODULE DispatchTool -----------------------------
(***************************************************************************)
(* The packet-submission callback of the profiling tools (atHsaEvt of      *)
(* InstrCount, OpcodeHistogram, LDSBankConflict and                        *)
(* KernelArgumentIntrinsic) under Luthier's queue write interceptor.       *)
(*                                                                         *)
(* A host thread submits a batch of dispatch packets.  The BEFORE phase    *)
(* runs over the whole batch, then the packets go to the hardware queue,   *)
(* then the AFTER phase runs over the batch.  The tool keeps what it knows *)
(* of "the" kernel in global variables that its mutex is meant to protect. *)
(* The GPU runs what was written and decrements completion signals.        *)
(***************************************************************************)
EXTENDS Naturals, Integers, Sequences, FiniteSets

CONSTANTS
    Threads,         \* host threads of the application
    NoThread,        \* the mutex is free
    Tools,           \* the tools Luthier may have been loaded with
    BeginInterval,   \* kernel-begin-interval
    EndInterval,     \* kernel-end-interval
    SignalValues,    \* values the application sets its completion signals to
    MaxBatch,        \* bound: dispatch packets in one submission
    MaxLaunches      \* bound: dispatch packets in one behaviour

(* How the four tools differ: recursive, their Mutex is a                    *)
(* std::recursive_mutex and not a std::mutex; counts, the report itself      *)
(* contains NumKernelLaunched++; frees, AFTER deletes                        *)
(* KernelBeingInstrumented and nulls it.                                     *)
Tool(recursive, counts, frees) ==
    [recursive |-> recursive, counts |-> counts, frees |-> frees]
InstrCount == Tool(TRUE, FALSE, TRUE)
OpcodeHistogram == Tool(TRUE, TRUE, TRUE)
LDSBankConflict == Tool(TRUE, TRUE, FALSE)
KernelArgumentIntrinsic == Tool(FALSE, FALSE, FALSE)
AllTools ==
    {InstrCount, OpcodeHistogram, LDSBankConflict, KernelArgumentIntrinsic}

ASSUME DispatchAssumption ==
    /\ NoThread \notin Threads
    /\ Tools \subseteq AllTools
    /\ {BeginInterval, EndInterval} \subseteq Nat
    /\ SignalValues \subseteq Nat
    /\ {MaxBatch, MaxLaunches} \subseteq Nat \ {0}

Launches == 1..MaxLaunches
NoLaunch == 0

VARIABLES
    pc,        \* per thread: where the submission it is in stands
    batch,     \* per thread: the launches it is submitting, in order
    next,      \* per thread: the packet of the batch the loop has reached
    used,      \* launches handed out so far
    mutex,     \* owner and lock count of Mutex
    tool,      \* the tool's global variables
    counter,   \* launches whose execution is in the device counters
    launch,    \* per launch: what became of it
    seen,      \* history: the launches in the order BEFORE took them
    aborted,   \* report_fatal_error or a null dereference ended the process
    kind,      \* the tool that is loaded
    batched    \* history: some submission held more than one dispatch

vars == <<pc, batch, next, used, mutex, tool, counter, launch, seen,
          aborted, kind, batched>>

(* A launch: where the GPU has it, the value, origin and life of its         *)
(* completion signal, whether the instrumented kernel runs, and the counter  *)
(* contents reported for it, <<>> until there is a report.                   *)
GpuState == {"host", "running", "counted", "done"}
Launch == [gpu : GpuState, value : Int, creator : {"app", "none", "tool"},
           alive : BOOLEAN, instrumented : BOOLEAN,
           report : {<<>>} \cup {<<s>> : s \in SUBSET Launches}]

TypeOK ==
    /\ pc \in [Threads -> {"idle", "before", "write", "after"}]
    /\ \A t \in Threads : batch[t] \in Seq(Launches)
    /\ next \in [Threads -> 1..(MaxBatch + 1)]
    /\ used \in 0..MaxLaunches
    /\ mutex \in [owner : Threads \cup {NoThread}, count : 0..MaxBatch]
    /\ tool \in [kernel : {NoLaunch} \cup Launches, signalValue : Int,
                 active : BOOLEAN, mustDestroy : BOOLEAN, launched : Nat]
    /\ counter \subseteq Launches
    /\ launch \in [Launches -> Launch]
    /\ seen \in Seq(Launches)
    /\ aborted \in BOOLEAN
    /\ kind \in Tools
    /\ batched \in BOOLEAN

Init ==
    /\ pc = [t \in Threads |-> "idle"]
    /\ batch = [t \in Threads |-> <<>>]
    /\ next = [t \in Threads |-> 1]
    /\ used = 0
    /\ mutex = [owner |-> NoThread, count |-> 0]
    /\ tool = [kernel |-> NoLaunch, signalValue |-> 0, active |-> TRUE,
               mustDestroy |-> FALSE, launched |-> 0]
    /\ counter = {}
    /\ launch = [l \in Launches |->
                   [gpu |-> "host", value |-> 0, creator |-> "none",
                    alive |-> FALSE, instrumented |-> FALSE, report |-> <<>>]]
    /\ seen = <<>>
    /\ aborted = FALSE
    /\ kind \in Tools
    /\ batched = FALSE

-----------------------------------------------------------------------------
(* The application submits dispatches; signals holds the value of the        *)
(* completion signal of each, NoSignal where it asks for none.               *)
NoSignal == -1
Completing(r, value) ==
    [r EXCEPT !.value = value, !.alive = TRUE, !.creator = "app"]

Submit(t, signals) ==
    LET n == Len(signals) IN
    /\ pc[t] = "idle" /\ ~aborted
    /\ used + n <= MaxLaunches
    /\ used' = used + n
    /\ batch' = [batch EXCEPT ![t] = [i \in 1..n |-> used + i]]
    /\ next' = [next EXCEPT ![t] = 1]
    /\ pc' = [pc EXCEPT ![t] = "before"]
    /\ launch' = [l \in Launches |->
                    IF l - used \in 1..n /\ signals[l - used] # NoSignal
                    THEN Completing(launch[l], signals[l - used])
                    ELSE launch[l]]
    /\ batched' = (batched \/ n > 1)
    /\ UNCHANGED <<mutex, tool, counter, seen, aborted, kind>>

Current(t) == batch[t][next[t]]

(* The loop over AppPackets moves to the next packet, or the phase ends.     *)
Advance(t, ended) ==
    IF next[t] < Len(batch[t])
    THEN next' = [next EXCEPT ![t] = @ + 1] /\ UNCHANGED pc
    ELSE next' = [next EXCEPT ![t] = 1] /\ pc' = [pc EXCEPT ![t] = ended]

(* An operator named Slip... is the definition after it with one plausible   *)
(* mistake in it; no specification uses one.                                 *)
SlipCanLock(t) == TRUE          \* the lock is forgotten
SlipUnlock == UNCHANGED mutex   \* the unlock is forgotten

(* A std::mutex its owner locks again never becomes free.                    *)
CanLock(t) == mutex.owner = NoThread \/ (kind.recursive /\ mutex.owner = t)
Lock(t) == mutex' = [owner |-> t, count |-> mutex.count + 1]
Unlock == mutex' = IF mutex.count = 1 THEN [owner |-> NoThread, count |-> 0]
                                      ELSE [mutex EXCEPT !.count = @ - 1]

SlipInInterval(n) == n >= BeginInterval /\ n <= EndInterval   \* inclusive
InInterval(n) == n >= BeginInterval /\ n < EndInterval

-----------------------------------------------------------------------------
(* What BEFORE settles about a launch: its signal, and whether the packet is *)
(* overridden with the instrumented kernel.                                  *)
Prepared(r, value, active) ==
    [r EXCEPT !.value = value, !.alive = TRUE, !.instrumented = active,
              !.creator = IF @ = "app" THEN "app" ELSE "tool"]

(* BEFORE for one packet, from Mutex.lock() to the end of the iteration.  A  *)
(* packet without a completion signal gets one that starts at the current    *)
(* SignalValue.  Inside the interval the packet is overridden with the       *)
(* instrumented kernel and the device counters are zeroed.                   *)
Before(t) ==
    LET l == Current(t)
        own == launch[l].creator = "app"
        value == IF own THEN launch[l].value ELSE tool.signalValue
        active == InInterval(tool.launched)
    IN
    /\ pc[t] = "before" /\ ~aborted /\ CanLock(t)
    /\ Lock(t)
    /\ launch' = [launch EXCEPT ![l] = Prepared(@, value, active)]
    /\ seen' = Append(seen, l)
    /\ tool' = [tool EXCEPT !.kernel = l, !.signalValue = value,
                            !.mustDestroy = ~own, !.active = active]
    /\ counter' = IF active THEN {} ELSE counter
    /\ Advance(t, "write")
    /\ UNCHANGED <<batch, used, aborted, kind, batched>>

(* Writer: the (modified) packets reach the hardware queue together.         *)
Write(t) ==
    /\ pc[t] = "write" /\ ~aborted
    /\ launch' = [l \in Launches |->
                    IF \E i \in DOMAIN batch[t] : batch[t][i] = l
                    THEN [launch[l] EXCEPT !.gpu = "running"] ELSE launch[l]]
    /\ pc' = [pc EXCEPT ![t] = "after"]
    /\ UNCHANGED <<batch, next, used, mutex, tool, counter, seen, aborted,
                   kind, batched>>

(* AFTER for one packet: the wait on its signal is over, a signal the tool   *)
(* made is destroyed, and inside the interval the counters are read and      *)
(* printed with the kernel's name.                                           *)
SlipSignalled(t) == launch[Current(t)].value <= tool.signalValue
Signalled(t) == launch[Current(t)].value < tool.signalValue
NamesNull == tool.active /\ kind.frees /\ tool.kernel = NoLaunch

Finished(r) ==
    [r EXCEPT !.alive = @ /\ ~tool.mustDestroy,
              !.report = IF tool.active THEN <<counter>> ELSE @]
Launched == tool.launched + (IF tool.active /\ kind.counts THEN 2 ELSE 1)

After(t) ==
    LET l == Current(t) IN
    /\ pc[t] = "after" /\ ~aborted /\ Signalled(t) /\ ~NamesNull
    /\ launch' = [launch EXCEPT ![l] = Finished(@)]
    /\ tool' = [tool EXCEPT !.kernel = IF kind.frees THEN NoLaunch ELSE @,
                            !.launched = Launched]
    /\ Unlock
    /\ Advance(t, "idle")
    /\ UNCHANGED <<batch, used, counter, seen, aborted, kind, batched>>

(* The name of a kernel that is no longer there is asked for.                *)
AfterNull(t) ==
    /\ pc[t] = "after" /\ ~aborted /\ Signalled(t) /\ NamesNull
    /\ aborted' = TRUE
    /\ UNCHANGED <<pc, batch, next, used, mutex, tool, counter, launch, seen,
                   kind, batched>>

(* The 300 second timeout.  Kernels finish sooner than that, so it strikes   *)
(* only when nothing is left on the GPU that could lower the signal.         *)
GpuIdle == \A l \in Launches : launch[l].gpu \notin {"running", "counted"}
AfterTimeout(t) ==
    /\ pc[t] = "after" /\ ~aborted /\ ~Signalled(t) /\ GpuIdle
    /\ aborted' = TRUE
    /\ UNCHANGED <<pc, batch, next, used, mutex, tool, counter, launch, seen,
                   kind, batched>>

-----------------------------------------------------------------------------
(* The GPU executes a kernel, in any order between queues; an instrumented   *)
(* one adds to the device counters.  Then it decrements the signal.          *)
Execute(l) ==
    /\ launch[l].gpu = "running" /\ ~aborted
    /\ launch' = [launch EXCEPT ![l].gpu = "counted"]
    /\ counter' = IF launch[l].instrumented THEN counter \cup {l} ELSE counter
    /\ UNCHANGED <<pc, batch, next, used, mutex, tool, seen, aborted,
                   kind, batched>>

Completed(r) == [r EXCEPT !.gpu = "done", !.value = @ - 1]
Complete(l) ==
    /\ launch[l].gpu = "counted" /\ ~aborted
    /\ launch' = [launch EXCEPT ![l] = Completed(@)]
    /\ UNCHANGED <<pc, batch, next, used, mutex, tool, counter, seen,
                   aborted, kind, batched>>

-----------------------------------------------------------------------------
ThreadStep(t) ==
    Before(t) \/ Write(t) \/ After(t) \/ AfterNull(t) \/ AfterTimeout(t)
GpuStep(l) == Execute(l) \/ Complete(l)

Next ==
    \/ \E t \in Threads :
         \/ \E n \in 1..MaxBatch :
              \E signals \in [1..n -> {NoSignal} \cup SignalValues] :
                 Submit(t, signals)
         \/ ThreadStep(t)
    \/ \E l \in Launches : GpuStep(l)

Spec == Init /\ [][Next]_vars

(* The GPU makes progress, and a host thread that can go on does; a thread   *)
(* waiting for the mutex gets it if it is free again and again.              *)
FairSpec ==
    /\ Spec
    /\ \A t \in Threads :
          /\ SF_vars(Before(t)) /\ WF_vars(Write(t))
          /\ WF_vars(After(t) \/ AfterNull(t) \/ AfterTimeout(t))
    /\ \A l \in Launches : WF_vars(GpuStep(l))

-----------------------------------------------------------------------------
OnGpu(l) == launch[l].gpu \in {"running", "counted"}

(* Lock the mutex to prevent multiple kernels to run concurrently: the       *)
(* reason the tools hold their mutex from BEFORE to AFTER, taken literally.  *)
OneKernelAtATime ==
    \A l, m \in Launches : OnGpu(l) /\ OnGpu(m) => l = m

(* As long as every submission is of one dispatch, the mutex does make       *)
(* kernels run one at a time, whatever the threads do and the tool is.       *)
SinglesRunAlone == ~batched => OneKernelAtATime

(* What is printed for a single dispatch is what that dispatch counted, all  *)
(* of it and nothing else.                                                   *)
ReportsExact ==
    ~batched => \A l \in Launches :
        launch[l].report # <<>> => launch[l].report = <<{l}>>

(* Single dispatches are instrumented only in the interval, begin inclusive  *)
(* and end exclusive, in the order the tool sees them.  A tool that counts a *)
(* launch once instruments all of the interval; one that counts an active    *)
(* launch twice may stop in the middle of it.                                *)
IntervalRespected ==
    ~batched => \A i \in DOMAIN seen :
        LET within == i > BeginInterval /\ i <= EndInterval IN
        /\ launch[seen[i]].instrumented => within
        /\ within => launch[seen[i]].instrumented \/ kind.counts

(* With single dispatches the tool never brings the application down: no     *)
(* wait runs into the timeout and no freed kernel is asked for its name.     *)
NeverAborts == ~batched => ~aborted

(* As long as every submission is of one dispatch, every submission returns  *)
(* to the application.                                                       *)
SubmissionsReturn ==
    \A t \in Threads : pc[t] # "idle" ~> pc[t] = "idle" \/ batched
=============================================================================

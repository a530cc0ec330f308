---------------------- MODULE ControllerLifecycleProofs ----------------------
(***************************************************************************)
(* The life of Luthier's singletons, for any number of threads and any     *)
(* tables: a singleton is alive as long as another one or a table needs    *)
(* it, and nothing goes wrong when no call overlaps the finalization.      *)
(***************************************************************************)
EXTENDS ControllerLifecycle, TLAPS

(* The singletons ~Controller has not destroyed at a step of the finalizer.  *)
Left(k) == {Destroyed[i] : i \in (k - 2)..9}

(* What is alive, and what the flags say of it: nothing before the           *)
(* initialization, all until the destructors begin, nothing after them.      *)
Phases ==
    /\ init = "fresh" => live = {} /\ fini = "fresh"
    /\ init # "fresh" /\ fini = "fresh" => live = Singletons /\ globals
    /\ fini \in Threads =>
          IF step \in 0..3 THEN live = Singletons ELSE live = Left(step)
    /\ fini = "done" => live = {}

(* Threads are outside Luthier until it is initialized, and have no way in.  *)
OutsideAtFirst ==
    init # "done" =>
        /\ fini = "fresh" /\ ~queues
        /\ \A a \in Tables : table[a] = "unknown"
        /\ \A t \in Threads : pc[t].at = "out"

(* A thread in a wrapper knows the table it came through.                    *)
TablesKnown ==
    \A t \in Threads : pc[t].at \in {"wrapper", "internal", "real"} =>
        pc[t].table \in Tables

(* A wrapped table has its interceptor.                                      *)
WrappersServed == \A a \in Tables : table[a] = "wrapped" => Interceptor[a] \in live

(* If no call overlapped the finalization so far, none is under way.         *)
Quiet ==
    ~overlap /\ fini # "fresh" =>
        \A t \in Threads : pc[t].at \in {"out", "fini", "abort", "dead"}

LifeInv == /\ TypeOK /\ Phases /\ OutsideAtFirst /\ TablesKnown
           /\ WrappersServed /\ Quiet /\ NothingIll

-----------------------------------------------------------------------------
(* The steps of Next, sorted by what they change.                            *)
InitStep(t) ==
    \/ BeginInit(t) \/ BadArguments(t) \/ EndInit(t)
    \/ \E a \in Tables : SetCaptureCallback(t, a)

(* Steps of a thread that calls into Luthier, or begins to exit.             *)
CallStep(t) ==
    \/ \E a \in Tables : Capture(t, a) \/ CallWrapper(t, a)
    \/ Instance(t) \/ InternalCallback(t) \/ CallReal(t)
    \/ BeginSubmit(t) \/ EnsureHipRuntime(t) \/ FreezeOnSubmit(t)
    \/ UserCallback(t) \/ Exit(t)

LEMMA NextSteps == Next => \E t \in Threads : InitStep(t) \/ CallStep(t) \/ FiniStep(t)
  BY DEF Next, InitStep, CallStep

(* A thread's record stays one when it moves.                                *)
LEMMA PcTyped ==
    ASSUME TypeOK, NEW t \in Threads, NEW at \in At, NEW d \in BOOLEAN,
           NEW a \in Tables \cup {Nobody}
    PROVE  LET Typed(f) == f \in [Threads -> [at : At, table : Tables \cup {Nobody},
                                             dying : BOOLEAN]]
           IN /\ Typed([pc EXCEPT ![t].at = at])
              /\ Typed([pc EXCEPT ![t].at = at, ![t].dying = d])
              /\ Typed([pc EXCEPT ![t].at = at, ![t].table = a])
  BY ZenonT(30) DEF TypeOK

LEMMA FatalTyped ==
    ASSUME TypeOK, NEW t \in Threads, NEW why \in Ill, Fatal(t, why)
    PROVE  /\ pc' \in [Threads -> [at : At, table : Tables \cup {Nobody}, dying : BOOLEAN]]
           /\ ill' \subseteq Ill
  BY PcTyped DEF TypeOK, Fatal, At, Ill

LEMMA GoesTyped ==
    ASSUME TypeOK, NEW t \in Threads, NEW at \in At, Goes(t, at)
    PROVE  pc' \in [Threads -> [at : At, table : Tables \cup {Nobody}, dying : BOOLEAN]]
  BY PcTyped DEF Goes

(* Capturing a table keeps the types of what it changes.                     *)
LEMMA CapturedTyped ==
    ASSUME TypeOK, NEW a \in Tables, Captured(a)
    PROVE  /\ table' \in [Tables -> {"unknown", "wrapped", "restored"}]
           /\ notified' \subseteq Tables \X (Tables \cup {Nobody})
<1>1. SlotOf(a) \in {"hsa", "hipCompiler"}
  BY DEF SlotOf
<1> QED
  BY <1>1 DEF TypeOK, Captured

LEMMA InitStepTyped == ASSUME TypeOK, NEW t \in Threads, InitStep(t) PROVE TypeOK'
<1>1. CASE BeginInit(t)
  BY <1>1 DEF BeginInit, TypeOK
<1>2. CASE BadArguments(t)
  BY <1>2, FatalTyped DEF BadArguments, TypeOK, Ill
<1>3. CASE EndInit(t)
  BY <1>3 DEF EndInit, TypeOK
<1>4. ASSUME NEW a \in Tables, SetCaptureCallback(t, a) PROVE TypeOK'
  <2>1. SlotOf(a) \in {"hsa", "hipCompiler"}
    BY DEF SlotOf
  <2> QED
    BY <1>4, <2>1 DEF SetCaptureCallback, TypeOK
<1> QED
  BY <1>1, <1>2, <1>3, <1>4 DEF InitStep

LEMMA CallStepTyped == ASSUME TypeOK, NEW t \in Threads, CallStep(t) PROVE TypeOK'
<1>1. ASSUME NEW a \in Tables, Capture(t, a) PROVE TypeOK'
  BY <1>1, FatalTyped, CapturedTyped DEF Capture, TypeOK, Ill
<1>2. ASSUME NEW a \in Tables, CallWrapper(t, a) PROVE TypeOK'
  BY <1>2, PcTyped DEF CallWrapper, TypeOK, At
<1>3. CASE Instance(t)
  BY <1>3, FatalTyped, GoesTyped DEF Instance, TypeOK, At, Ill
<1>4. CASE InternalCallback(t)
  BY <1>4, FatalTyped, GoesTyped DEF InternalCallback, TypeOK, At, Ill
<1>5. CASE CallReal(t)
  BY <1>5, PcTyped DEF CallReal, TypeOK, At, Ill
<1>6. CASE BeginSubmit(t)
  BY <1>6, FatalTyped, GoesTyped DEF BeginSubmit, TypeOK, At, Ill
<1>7. CASE EnsureHipRuntime(t)
  BY <1>7, FatalTyped, GoesTyped, CapturedTyped DEF EnsureHipRuntime, TypeOK, At, Ill
<1>8. CASE FreezeOnSubmit(t)
  BY <1>8, FatalTyped, GoesTyped DEF FreezeOnSubmit, TypeOK, At, Ill
<1>9. CASE UserCallback(t)
  BY <1>9, FatalTyped, GoesTyped DEF UserCallback, TypeOK, At, Ill
<1>10. CASE Exit(t)
  BY <1>10, GoesTyped DEF Exit, TypeOK, At
<1> QED
  BY <1>1, <1>2, <1>3, <1>4, <1>5, <1>6, <1>7, <1>8, <1>9, <1>10 DEF CallStep

LEMMA FiniStepTyped == ASSUME TypeOK, NEW t \in Threads, FiniStep(t) PROVE TypeOK'
<1>1. CASE EnterFini(t)
  BY <1>1 DEF EnterFini, TypeOK, LastStep
<1>2. CASE AtToolFini(t)
  <2>1. step' \in 0..LastStep
    BY <1>2 DEF AtToolFini, LastStep
  <2>2. {globals', queues'} \subseteq BOOLEAN
    BY <1>2, Zenon DEF AtToolFini, TypeOK
  <2> QED
    BY <1>2, <2>1, <2>2 DEF AtToolFini, TypeOK
<1>7. CASE WriteTimeTrace(t)
  BY <1>7 DEF WriteTimeTrace, TypeOK, LastStep
<1>8. CASE EndFini(t)
  BY <1>8 DEF EndFini, TypeOK, LastStep
<1>3. CASE WriteTimeTraceFails(t)
  BY <1>3, FatalTyped DEF WriteTimeTraceFails, TypeOK, LastStep, Ill
<1>4. CASE Destroy(t)
  <2>1. step + 1 \in 0..LastStep
    BY <1>4 DEF Destroy, LastStep
  <2>2. live' \subseteq Singletons
    BY <1>4 DEF Destroy, TypeOK
  <2>3. table' \in [Tables -> {"unknown", "wrapped", "restored"}]
    BY <1>4 DEF Destroy, PutBack, TypeOK
  <2> QED
    BY <1>4, <2>1, <2>2, <2>3 DEF Destroy, TypeOK
<1>5. CASE LeaveFini(t)
  BY <1>5, PcTyped, ZenonT(30) DEF LeaveFini, TypeOK, At
<1>6. CASE Abort(t)
  BY <1>6, GoesTyped DEF Abort, TypeOK, At
<1> QED
  BY <1>1, <1>2, <1>3, <1>4, <1>5, <1>6, <1>7, <1>8 DEF FiniStep

LEMMA TypeNext == TypeOK /\ [Next]_vars => TypeOK'
<1>1. CASE UNCHANGED vars
  BY <1>1 DEF TypeOK, vars
<1> QED
  BY <1>1, NextSteps, InitStepTyped, CallStepTyped, FiniStepTyped

-----------------------------------------------------------------------------
(* One destructor after the other leaves the singletons in their order.      *)
LEMMA LeftNow ==
    /\ Left(3) = Singletons /\ Left(12) = {}
    /\ \A k \in 3..11 : Left(k + 1) = Left(k) \ {Destroyed[k - 2]}
<1>1. Left(12) = {}
  BY DEF Left
<1>2. Left(3) = Singletons
  <2>1. 3 - 2 = 1 /\ 1..9 = {1, 2, 3, 4, 5, 6, 7, 8, 9}
    OBVIOUS
  <2>2. Left(3) = {Destroyed[1], Destroyed[2], Destroyed[3], Destroyed[4], Destroyed[5],
                   Destroyed[6], Destroyed[7], Destroyed[8], Destroyed[9]}
    BY <2>1 DEF Left
  <2> QED
    BY <2>2 DEF Singletons, Destroyed
<1>3. \A i, j \in 1..9 : Destroyed[i] = Destroyed[j] => i = j
  BY DEF Destroyed
<1>4. ASSUME NEW k \in 3..11
      PROVE  Left(k + 1) = Left(k) \ {Destroyed[k - 2]}
  BY <1>3 DEF Left
<1> QED
  BY <1>1, <1>2, <1>4

(* Whoever is left still has all it needs.                                   *)
LEMMA LeftClosed ==
    /\ \A s \in Singletons : Needs[s] \subseteq Singletons
    /\ \A k \in 3..12 : \A s \in Left(k) : Needs[s] \subseteq Left(k)
<1>1. \A s \in Singletons : Needs[s] \subseteq Singletons
  BY DEF Singletons, Needs
<1>2. ASSUME NEW k \in 3..12, NEW s \in Left(k)
      PROVE  Needs[s] \subseteq Left(k)
  <2>1. PICK i \in (k - 2)..9 : s = Destroyed[i]
    BY DEF Left
  <2>2. \A n \in Needs[Destroyed[i]] : \E j \in i..9 : n = Destroyed[j]
    <3>1. /\ Needs["CG"] = {"TM", "CL", "TEL"} /\ Needs["CL"] = {"TM", "Cache"}
          /\ Needs["TEL"] = {"Cache", "Hsa"} /\ Needs["Cache"] = {"Hsa"}
          /\ \A n \in {"HipRuntime", "Hsa", "HipCompiler", "TM", "Controller"} : Needs[n] = {}
      BY DEF Needs, Singletons
    <3>2. /\ Destroyed[1] = "CG" /\ Destroyed[2] = "CL" /\ Destroyed[3] = "TEL"
          /\ Destroyed[4] = "Cache" /\ Destroyed[6] = "Hsa" /\ Destroyed[8] = "TM"
          /\ \A n \in {5, 6, 7, 8, 9} :
                Destroyed[n] \in {"HipRuntime", "Hsa", "HipCompiler", "TM", "Controller"}
      BY DEF Destroyed
    <3>3. i \in {1, 2, 3, 4} \/ i \in {5, 6, 7, 8, 9}
      OBVIOUS
    <3>4. CASE i \in {5, 6, 7, 8, 9}
      BY <3>1, <3>2, <3>4
    <3>5. CASE i \in {1, 2, 3, 4}
      BY <3>1, <3>2, <3>5
    <3> QED
      BY <3>3, <3>4, <3>5
  <2> QED
    BY <2>1, <2>2 DEF Left
<1> QED
  BY <1>1, <1>2

LEMMA PhasesInit == Init => LifeInv
<1> SUFFICES ASSUME Init PROVE LifeInv
  OBVIOUS
<1>1. TypeOK
  <2>1. {globals, queues} \subseteq BOOLEAN /\ overlap \in BOOLEAN
    BY Zenon DEF Init
  <2> QED
    BY <2>1 DEF Init, TypeOK, At, LastStep
<1>2. Phases /\ OutsideAtFirst /\ TablesKnown /\ WrappersServed /\ Quiet /\ NothingIll
  BY LifecycleAssumption
  DEF Init, Phases, OutsideAtFirst, TablesKnown, WrappersServed, Quiet,
      NothingIll
<1> QED
  BY <1>1, <1>2 DEF LifeInv

(* A thread that finds the singleton it asks for missing came late.          *)
LEMMA InWorking ==
    ASSUME LifeInv, NEW t \in Threads, init = "done", fini = "fresh"
    PROVE  live = Singletons /\ globals
  BY DEF LifeInv, Phases

LEMMA InitStepKeeps == ASSUME LifeInv, NEW t \in Threads, InitStep(t) PROVE LifeInv'
<1>1. TypeOK'
  BY InitStepTyped DEF LifeInv
<1>2. CASE BeginInit(t)
  <2>1. Phases'
    BY <1>2, LifecycleAssumption DEF BeginInit, LifeInv, Phases
  <2>2. OutsideAtFirst' /\ TablesKnown' /\ WrappersServed' /\ Quiet' /\ NothingIll'
    BY <1>2 DEF BeginInit, LifeInv, Phases, OutsideAtFirst, TablesKnown, WrappersServed,
       Quiet, NothingIll
  <2> QED
    BY <1>1, <2>1, <2>2 DEF LifeInv
<1>3. CASE BadArguments(t)
  <2>1. pc' = [pc EXCEPT ![t].at = "fini", ![t].dying = TRUE] /\ ill' = ill \cup {"badArguments"}
    BY <1>3 DEF BadArguments, Fatal
  <2>2. TablesKnown' /\ Quiet'
    BY <1>3, <2>1 DEF BadArguments, LifeInv, TablesKnown, Quiet, TypeOK, OutsideAtFirst
  <2> QED
    BY <1>1, <1>3, <2>1, <2>2
    DEF BadArguments, LifeInv, Phases, OutsideAtFirst, WrappersServed,
        NothingIll
<1>4. CASE EndInit(t)
  BY <1>1, <1>4
  DEF EndInit, LifeInv, Phases, OutsideAtFirst, TablesKnown, WrappersServed,
      Quiet, NothingIll
<1>5. ASSUME NEW a \in Tables, SetCaptureCallback(t, a) PROVE LifeInv'
  BY <1>1, <1>5
  DEF SetCaptureCallback, LifeInv, Phases, OutsideAtFirst, TablesKnown, WrappersServed,
      Quiet, NothingIll
<1> QED
  BY <1>2, <1>3, <1>4, <1>5 DEF InitStep

(* Steps that leave Luthier's state alone, but may capture a table.          *)
Kept == UNCHANGED <<live, init, fini, step, globals>>

LEMMA KeptPhases == ASSUME LifeInv, Kept PROVE Phases'
  BY DEF LifeInv, Phases, Kept

(* A thread moves; what it did is recorded.                                  *)
LEMMA MoveKeeps ==
    ASSUME LifeInv, NEW t \in Threads, Kept, TypeOK', init = "done",
           \A u \in Threads \ {t} : pc'[u] = pc[u],
           pc'[t].at \in {"wrapper", "internal", "real"} => pc'[t].table \in Tables,
           \A b \in Tables : table'[b] = "wrapped" =>
               table[b] = "wrapped" \/ Interceptor[b] \in live,
           ~overlap' => ~overlap,
           ~overlap' /\ fini # "fresh" => pc'[t].at \in {"out", "fini", "abort", "dead"},
           ~overlap' => ill' \subseteq ill \cup {"badArguments", "traceWrite"}
    PROVE  LifeInv'
<1>1. Phases'
  BY KeptPhases
<1>2. OutsideAtFirst'
  BY DEF Kept, OutsideAtFirst
<1>3. TablesKnown'
  BY DEF LifeInv, TablesKnown
<1>4. WrappersServed'
  BY DEF LifeInv, WrappersServed, Kept
<1>5. Quiet'
  BY DEF LifeInv, Quiet, Kept
<1>6. NothingIll'
  BY DEF LifeInv, NothingIll
<1> QED
  BY <1>1, <1>2, <1>3, <1>4, <1>5, <1>6 DEF LifeInv

(* Where a thread is after each kind of move.                                *)
LEMMA GoesTo ==
    ASSUME TypeOK, NEW t \in Threads, NEW at \in At, Goes(t, at)
    PROVE  /\ \A u \in Threads \ {t} : pc'[u] = pc[u]
           /\ pc'[t].at = at /\ pc'[t].table = pc[t].table
  BY DEF TypeOK, Goes

LEMMA FatalTo ==
    ASSUME TypeOK, NEW t \in Threads, NEW why \in Ill, Fatal(t, why)
    PROVE  /\ \A u \in Threads \ {t} : pc'[u] = pc[u]
           /\ pc'[t].at = "fini" /\ ill' = ill \cup {why}
  BY DEF TypeOK, Fatal

LEMMA TableTo ==
    ASSUME TypeOK, NEW t \in Threads, NEW at \in At, NEW a \in Tables \cup {Nobody},
           pc' = [pc EXCEPT ![t].at = at, ![t].table = a]
    PROVE  /\ \A u \in Threads \ {t} : pc'[u] = pc[u]
           /\ pc'[t].at = at /\ pc'[t].table = a
  BY DEF TypeOK

(* A thread that is not outside, in the finalizer or past it is there while  *)
(* all singletons are alive, unless calls overlapped the finalization.       *)
LEMMA InsideAlive ==
    ASSUME LifeInv, NEW t \in Threads, ~overlap,
           pc[t].at \notin {"out", "fini", "abort", "dead"}
    PROVE  init = "done" /\ fini = "fresh" /\ live = Singletons /\ globals
  BY DEF LifeInv, OutsideAtFirst, Quiet, Phases

LEMMA InterceptorSingleton == \A a \in Tables : Interceptor[a] \in Singletons
<1>1. /\ Interceptor["hsa"] = "Hsa" /\ Interceptor["hipCompiler"] = "HipCompiler"
      /\ Interceptor["hipRuntime"] = "HipRuntime"
  BY DEF Interceptor
<1> QED
  BY <1>1, LifecycleAssumption DEF Singletons

LEMMA CallStepKeeps == ASSUME LifeInv, NEW t \in Threads, CallStep(t) PROVE LifeInv'
<1>0. TypeOK /\ TypeOK' /\ \A a \in Tables : Interceptor[a] \in Singletons
  BY CallStepTyped, InterceptorSingleton DEF LifeInv
<1>1. ASSUME NEW a \in Tables, Capture(t, a) PROVE LifeInv'
  <2>1. Kept /\ init = "done" /\ (~overlap' => ~overlap /\ fini = "fresh")
    BY <1>1 DEF Capture, Kept
  <2>2. CASE {Interceptor[a], "Controller"} \subseteq live
    <3>1. Captured(a) /\ UNCHANGED <<ill, pc>>
      BY <1>1, <2>2 DEF Capture
    <3>2. \A b \in Tables : table'[b] = "wrapped" => table[b] = "wrapped" \/ Interceptor[b] \in live
      BY <1>0, <2>2, <3>1 DEF Captured, TypeOK
    <3>3. pc[t].at = "out"
      BY <1>1 DEF Capture, At_
    <3> QED
      BY <1>0, <2>1, <3>1, <3>2, <3>3, MoveKeeps
  <2>3. CASE ~({Interceptor[a], "Controller"} \subseteq live)
    <3>1. Fatal(t, "noSingleton") /\ table' = table
      BY <1>1, <2>3 DEF Capture
    <3>2. overlap'
      BY <1>0, <1>1, <2>1, <2>3 DEF Capture, LifeInv, Phases, Singletons
    <3> QED
      BY <1>0, <2>1, <3>1, <3>2, FatalTo, MoveKeeps DEF Ill
  <2> QED
    BY <2>2, <2>3
<1>2. ASSUME NEW a \in Tables, CallWrapper(t, a) PROVE LifeInv'
  <2>1. /\ Kept /\ table' = table /\ ill' = ill /\ table[a] = "wrapped"
        /\ pc' = [pc EXCEPT ![t].at = "wrapper", ![t].table = a]
        /\ overlap' = (overlap \/ fini \in Threads)
    BY <1>2 DEF CallWrapper, Kept
  <2>2. Interceptor[a] \in live
    BY <2>1 DEF LifeInv, WrappersServed
  <2>3. fini # "done"
    BY <2>2 DEF LifeInv, Phases
  <2>4. ~overlap' => ~overlap /\ fini = "fresh"
    BY <1>0, <2>1, <2>3 DEF TypeOK
  <2>5. init = "done"
    BY <2>1 DEF LifeInv, OutsideAtFirst
  <2>6. /\ \A u \in Threads \ {t} : pc'[u] = pc[u]
        /\ pc'[t].at = "wrapper" /\ pc'[t].table = a
    BY <1>0, <2>1, TableTo DEF At
  <2> QED
    BY <1>0, <2>1, <2>4, <2>5, <2>6, MoveKeeps
<1>3. CASE Instance(t)
  <2>1. /\ Kept /\ table' = table /\ overlap' = overlap /\ pc[t].at = "wrapper"
        /\ pc[t].table \in Tables
    BY <1>3 DEF Instance, Kept, At_, LifeInv, TablesKnown
  <2>2. init = "done"
    BY <2>1 DEF LifeInv, OutsideAtFirst
  <2>3. ~overlap => fini = "fresh" /\ Interceptor[pc[t].table] \in live
    BY <1>0, <2>1, InsideAlive
  <2>4. CASE Goes(t, "internal") /\ UNCHANGED ill
    BY <1>0, <2>1, <2>2, <2>3, <2>4, GoesTo, MoveKeeps DEF At
  <2>5. CASE Fatal(t, "noSingleton") /\ Interceptor[pc[t].table] \notin live
    BY <1>0, <2>1, <2>2, <2>3, <2>5, FatalTo, MoveKeeps DEF Ill
  <2> QED
    BY <1>3, <2>4, <2>5 DEF Instance
<1>4. CASE InternalCallback(t)
  <2>1. /\ Kept /\ table' = table /\ overlap' = overlap /\ pc[t].at = "internal"
        /\ pc[t].table \in Tables
    BY <1>4 DEF InternalCallback, Kept, At_, LifeInv, TablesKnown
  <2>2. init = "done"
    BY <2>1 DEF LifeInv, OutsideAtFirst
  <2>3. ~overlap => fini = "fresh" /\ live = Singletons
    BY <2>1, InsideAlive
  <2>4. CASE Goes(t, "real") /\ UNCHANGED ill
    BY <1>0, <2>1, <2>2, <2>3, <2>4, GoesTo, MoveKeeps DEF At
  <2>5. CASE Fatal(t, "noSingleton") /\ ~(Uses(pc[t].table) \subseteq live)
    <3>1. Uses(pc[t].table) \subseteq Singletons
      BY <2>1, LifecycleAssumption DEF Uses, Singletons
    <3> QED
      BY <1>0, <2>1, <2>2, <2>3, <2>5, <3>1, FatalTo, MoveKeeps DEF Ill
  <2> QED
    BY <1>4, <2>4, <2>5 DEF InternalCallback
<1>5. CASE CallReal(t)
  <2>1. /\ Kept /\ table' = table /\ overlap' = overlap /\ pc[t].at = "real"
        /\ pc[t].table \in Tables
        /\ pc' = [pc EXCEPT ![t].at = "out", ![t].table = Nobody]
        /\ ill' = IF Interceptor[pc[t].table] \in live
                  THEN ill ELSE ill \cup {"freedInterceptor"}
    BY <1>5 DEF CallReal, Kept, At_, LifeInv, TablesKnown
  <2>2. init = "done"
    BY <2>1 DEF LifeInv, OutsideAtFirst
  <2>3. ~overlap => Interceptor[pc[t].table] \in live
    BY <1>0, <2>1, InsideAlive
  <2> QED
    BY <1>0, <2>1, <2>2, <2>3, TableTo, MoveKeeps DEF At
<1>6. CASE BeginSubmit(t)
  <2>1. /\ Kept /\ table' = table /\ queues
        /\ overlap' = (overlap \/ fini # "fresh")
    BY <1>6 DEF BeginSubmit, Kept, At_
  <2>2. init = "done"
    BY <2>1 DEF LifeInv, OutsideAtFirst
  <2>3. ~overlap' => ~overlap /\ fini = "fresh" /\ live = Singletons
    BY <2>1, <2>2 DEF LifeInv, Phases
  <2>4. CASE Goes(t, "submit") /\ UNCHANGED ill
    BY <1>0, <2>1, <2>2, <2>3, <2>4, GoesTo, MoveKeeps DEF At
  <2>5. CASE Fatal(t, "noQueueMutex") /\ "TM" \notin live
    BY <1>0, <2>1, <2>2, <2>3, <2>5, FatalTo, MoveKeeps DEF Ill, Singletons
  <2> QED
    BY <1>6, <2>4, <2>5 DEF BeginSubmit
<1>7. CASE EnsureHipRuntime(t)
  <2>1. Kept /\ overlap' = overlap /\ pc[t].at = "submit"
    BY <1>7 DEF EnsureHipRuntime, Kept, At_
  <2>2. init = "done"
    BY <2>1 DEF LifeInv, OutsideAtFirst
  <2>3. ~overlap => fini = "fresh" /\ live = Singletons
    BY <2>1, InsideAlive
  <2>4. CASE Goes(t, "freeze") /\ UNCHANGED ill /\ "HipRuntime" \in live
    <3>1. \/ "hipRuntime" \in Tables /\ Captured("hipRuntime")
          \/ table' = table
      BY <1>7, <2>4 DEF EnsureHipRuntime
    <3>2. \A b \in Tables : table'[b] = "wrapped" => table[b] = "wrapped" \/ Interceptor[b] \in live
      BY <1>0, <2>4, <3>1 DEF Captured, TypeOK, Interceptor
    <3> QED
      BY <1>0, <2>1, <2>2, <2>3, <2>4, <3>2, GoesTo, MoveKeeps DEF At
  <2>5. CASE Fatal(t, "noSingleton") /\ "HipRuntime" \notin live /\ table' = table
    BY <1>0, <2>1, <2>2, <2>3, <2>5, FatalTo, MoveKeeps DEF Ill, Singletons
  <2> QED
    BY <1>7, <2>4, <2>5 DEF EnsureHipRuntime
<1>8. CASE FreezeOnSubmit(t)
  <2>1. Kept /\ table' = table /\ overlap' = overlap /\ pc[t].at = "freeze"
    BY <1>8 DEF FreezeOnSubmit, Kept, At_
  <2>2. init = "done"
    BY <2>1 DEF LifeInv, OutsideAtFirst
  <2>3. ~overlap => fini = "fresh" /\ live = Singletons
    BY <2>1, InsideAlive
  <2>4. CASE Goes(t, "user") /\ UNCHANGED ill
    BY <1>0, <2>1, <2>2, <2>3, <2>4, GoesTo, MoveKeeps DEF At
  <2>5. CASE Fatal(t, "noSingleton") /\ "Hsa" \notin live
    BY <1>0, <2>1, <2>2, <2>3, <2>5, FatalTo, MoveKeeps DEF Ill, Singletons
  <2> QED
    BY <1>8, <2>4, <2>5 DEF FreezeOnSubmit
<1>9. CASE UserCallback(t)
  <2>1. Kept /\ table' = table /\ overlap' = overlap /\ pc[t].at = "user"
    BY <1>9 DEF UserCallback, Kept, At_
  <2>2. init = "done"
    BY <2>1 DEF LifeInv, OutsideAtFirst
  <2>3. ~overlap => fini = "fresh" /\ live = Singletons /\ globals
    BY <2>1, InsideAlive
  <2>4. CASE Goes(t, "out") /\ ill' = ill \cup (IF globals THEN {} ELSE {"freedGlobals"})
    BY <1>0, <2>1, <2>2, <2>3, <2>4, GoesTo, MoveKeeps DEF At
  <2>5. CASE Fatal(t, "noSingleton") /\ ~({"CL", "CG", "TEL", "Cache", "TM"} \subseteq live)
    BY <1>0, <2>1, <2>2, <2>3, <2>5, FatalTo, MoveKeeps DEF Ill, Singletons
  <2> QED
    BY <1>9, <2>4, <2>5 DEF UserCallback
<1>10. CASE Exit(t)
  <2>1. /\ Kept /\ table' = table /\ overlap' = overlap /\ ill' = ill /\ init = "done"
        /\ Goes(t, "fini")
    BY <1>10 DEF Exit, Kept
  <2> QED
    BY <1>0, <2>1, GoesTo, MoveKeeps DEF At
<1> QED
  BY <1>1, <1>2, <1>3, <1>4, <1>5, <1>6, <1>7, <1>8, <1>9, <1>10 DEF CallStep

-----------------------------------------------------------------------------
LEMMA FiniStepKeeps == ASSUME LifeInv, NEW t \in Threads, FiniStep(t) PROVE LifeInv'
<1>0. TypeOK /\ TypeOK'
  BY FiniStepTyped DEF LifeInv
<1>1. CASE EnterFini(t)
  <2>1. init = "done" /\ fini = "fresh"
    BY <1>1 DEF EnterFini, At_, LifeInv, OutsideAtFirst
  <2>2. Phases'
    BY <1>1, <2>1, LifecycleAssumption DEF EnterFini, LifeInv, Phases
  <2>3. OutsideAtFirst' /\ TablesKnown' /\ WrappersServed' /\ NothingIll'
    BY <1>1, <2>1 DEF EnterFini, LifeInv, OutsideAtFirst, TablesKnown, WrappersServed, NothingIll
  <2>4. Quiet'
    BY <1>1 DEF EnterFini, Quiet
  <2> QED
    BY <1>0, <2>2, <2>3, <2>4 DEF LifeInv
<1>2. ASSUME AtToolFini(t) \/ WriteTimeTrace(t) \/ EndFini(t) PROVE LifeInv'
  <2>1. /\ init = "done" /\ fini = t /\ fini' \in {t, "done"} /\ live' = live
        /\ UNCHANGED <<init, table, pc, ill, overlap>>
    BY <1>2 DEF AtToolFini, WriteTimeTrace, EndFini, At_, LifeInv, OutsideAtFirst
  <2>2. Phases'
    <3>1. CASE AtToolFini(t)
      BY <2>1, <3>1, LifecycleAssumption DEF AtToolFini, LifeInv, Phases
    <3>2. CASE WriteTimeTrace(t)
      BY <2>1, <3>2, LifecycleAssumption DEF WriteTimeTrace, LifeInv, Phases
    <3>3. CASE EndFini(t)
      <4>1. live = Left(12)
        BY <2>1, <3>3, LifecycleAssumption DEF EndFini, LastStep, LifeInv, Phases
      <4> QED
        BY <2>1, <3>3, <4>1, LeftNow, LifecycleAssumption DEF EndFini, Phases
    <3> QED
      BY <1>2, <3>1, <3>2, <3>3
  <2>3. OutsideAtFirst' /\ TablesKnown' /\ WrappersServed' /\ NothingIll'
    BY <2>1 DEF LifeInv, OutsideAtFirst, TablesKnown, WrappersServed, NothingIll
  <2>4. Quiet'
    BY <2>1, LifecycleAssumption DEF LifeInv, Quiet
  <2> QED
    BY <1>0, <2>2, <2>3, <2>4 DEF LifeInv
<1>3. CASE WriteTimeTraceFails(t)
  <2>1. /\ init = "done" /\ fini = t /\ step = 2 /\ step' = 0
        /\ UNCHANGED <<live, init, fini, table, globals, overlap>>
        /\ Fatal(t, "traceWrite")
    BY <1>3 DEF WriteTimeTraceFails, At_, LifeInv, OutsideAtFirst
  <2>2. /\ \A u \in Threads \ {t} : pc'[u] = pc[u]
        /\ pc'[t].at = "fini" /\ ill' = ill \cup {"traceWrite"}
    BY <1>0, <2>1, FatalTo DEF Ill
  <2>3. Phases'
    BY <2>1, LifecycleAssumption DEF LifeInv, Phases
  <2>4. OutsideAtFirst' /\ TablesKnown' /\ WrappersServed' /\ Quiet' /\ NothingIll'
    BY <2>1, <2>2 DEF LifeInv, OutsideAtFirst, TablesKnown, WrappersServed, Quiet, NothingIll
  <2> QED
    BY <1>0, <2>3, <2>4 DEF LifeInv
<1>4. CASE Destroy(t)
  <2> DEFINE s == Destroyed[step - 2]
  <2>1. /\ init = "done" /\ fini = t /\ step \in 3..11 /\ step' = step + 1
        /\ live' = live \ {s} /\ table' = PutBack(s)
        /\ UNCHANGED <<init, fini, pc, ill, overlap>>
    BY <1>4 DEF Destroy, At_, LifeInv, OutsideAtFirst
  <2>2. live = Left(step)
    BY <2>1, LeftNow, LifecycleAssumption DEF LifeInv, Phases
  <2>3. live' = Left(step')
    BY <2>1, <2>2, LeftNow
  <2>4. step' \in 4..12
    BY <2>1
  <2>5. Phases'
    BY <2>1, <2>3, <2>4, LifecycleAssumption DEF Phases
  <2>6. WrappersServed'
    BY <2>1 DEF LifeInv, WrappersServed, PutBack
  <2>7. OutsideAtFirst' /\ TablesKnown' /\ Quiet' /\ NothingIll'
    BY <2>1 DEF LifeInv, OutsideAtFirst, TablesKnown, Quiet, NothingIll
  <2> QED
    BY <1>0, <2>5, <2>6, <2>7 DEF LifeInv
<1>5. ASSUME LeaveFini(t) \/ Abort(t) PROVE LifeInv'
  <2>1. /\ Kept /\ init = "done" /\ UNCHANGED <<table, ill, overlap>>
    BY <1>5 DEF LeaveFini, Abort, Kept, At_, LifeInv, OutsideAtFirst
  <2>2. /\ \A u \in Threads \ {t} : pc'[u] = pc[u]
        /\ pc'[t].at \in {"out", "abort", "dead"}
    BY <1>0, <1>5 DEF TypeOK, LeaveFini, Abort, Goes
  <2> QED
    BY <1>0, <2>1, <2>2, MoveKeeps
<1> QED
  BY <1>1, <1>2, <1>3, <1>4, <1>5 DEF FiniStep

LEMMA LifeNext == LifeInv /\ [Next]_vars => LifeInv'
<1>1. ASSUME LifeInv, UNCHANGED vars PROVE LifeInv'
  <2>1. TypeOK'
    BY <1>1, TypeNext DEF LifeInv
  <2> QED
    BY <1>1, <2>1 DEF vars, LifeInv, Phases, OutsideAtFirst, TablesKnown, WrappersServed,
       Quiet, NothingIll
<1> QED
  BY <1>1, NextSteps, InitStepKeeps, CallStepKeeps, FiniStepKeeps

LEMMA LifeAlways == Spec => []LifeInv
  BY PhasesInit, LifeNext, PTL DEF Spec

(* Every variable of the controller's model keeps its type.                  *)
THEOREM LifecycleTypeCorrect == Spec => []TypeOK
<1>1. LifeInv => TypeOK
  BY DEF LifeInv
<1> QED
  BY <1>1, LifeAlways, PTL

(* However many threads call, dispatch and exit: a table that holds wrappers *)
(* has its interceptor, and no singleton outlives one it needs in its own    *)
(* work or its destructor (~Controller, Controller.cpp:103).                 *)
THEOREM AlwaysNeededAlive == Spec => []NeededAlive
<1>1. ASSUME LifeInv, init = "done", NEW s \in live PROVE Needs[s] \subseteq live
  <2>1. live = Singletons \/ live = {} \/ \E k \in 3..12 : live = Left(k)
    <3>1. CASE fini = "fresh" \/ fini = "done"
      BY <1>1, <3>1 DEF LifeInv, Phases
    <3>2. CASE fini \in Threads
      <4>1. step \in 0..3 \/ step \in 3..12
        BY <1>1 DEF LifeInv, TypeOK, LastStep
      <4> QED
        BY <1>1, <3>2, <4>1, LeftNow DEF LifeInv, Phases
    <3> QED
      BY <1>1, <3>1, <3>2 DEF LifeInv, TypeOK
  <2> QED
    BY <1>1, <2>1, LeftClosed
<1>2. LifeInv => NeededAlive
  BY <1>1 DEF NeededAlive, LifeInv, WrappersServed
<1> QED
  BY <1>2, LifeAlways, PTL

(* When no call overlaps the finalization, no thread asks for a singleton    *)
(* that is gone, works with freed globals or calls through a freed           *)
(* interceptor (toolingLibraryFini, Controller.cpp:207).                      *)
THEOREM NothingEverIll == Spec => []NothingIll
<1>1. LifeInv => NothingIll
  BY DEF LifeInv
<1> QED
  BY <1>1, LifeAlways, PTL
=============================================================================

-------------------------- MODULE DispatchToolProofs --------------------------
(***************************************************************************)
(* What the tools' mutex gives when the application submits one dispatch   *)
(* at a time, for any threads, any of the tools, any interval and any      *)
(* signal values: kernels run one by one, each report is of its own        *)
(* kernel's counters, neither the timeout nor a null kernel ends the       *)
(* process, and the interval decides which kernels are instrumented.       *)
(***************************************************************************)
EXTENDS DispatchTool, SequenceTheorems, TLAPS

Busy(t) == pc[t] # "idle"
Holds(t) == pc[t] \in {"write", "after"}
Mine(t) == batch[t][1]

(* The part of the state that has a type worth its name in the argument.     *)
Typed ==
    /\ pc \in [Threads -> {"idle", "before", "write", "after"}]
    /\ batch \in [Threads -> Seq(Launches)]
    /\ next \in [Threads -> Nat]
    /\ used \in 0..MaxLaunches
    /\ mutex \in [owner : Threads \cup {NoThread}, count : Nat]
    /\ tool \in [kernel : {NoLaunch} \cup Launches, signalValue : Int,
                 active : BOOLEAN, mustDestroy : BOOLEAN, launched : Nat]
    /\ counter \subseteq Launches
    /\ launch \in [Launches -> Launch]

(* Each busy thread submits one launch, and no other thread submits it.      *)
OneEach ==
    /\ \A t \in Threads : Busy(t) =>
          Len(batch[t]) = 1 /\ next[t] = 1 /\ Mine(t) \in 1..used
    /\ \A t, u \in Threads :
          Busy(t) /\ Busy(u) /\ Mine(t) = Mine(u) => t = u

(* A thread holds the mutex, once, exactly between BEFORE and AFTER.         *)
MutexHeld ==
    /\ mutex.owner = NoThread => mutex.count = 0
    /\ \A t \in Threads : mutex.owner = t => mutex.count = 1 /\ Holds(t)
    /\ \A t \in Threads : Holds(t) => mutex.owner = t

(* A launch that is on the GPU is that of a thread in AFTER, and one that    *)
(* was not written to the queue yet is not there.                            *)
GpuOwned ==
    /\ \A l \in Launches : OnGpu(l) =>
          \E t \in Threads : pc[t] = "after" /\ Mine(t) = l
    /\ \A t \in Threads : pc[t] \in {"before", "write"} =>
          launch[Mine(t)].gpu = "host"
    /\ \A t \in Threads : pc[t] = "after" => launch[Mine(t)].gpu # "host"
    /\ \A l \in Launches : l > used => launch[l].gpu = "host"

(* While a thread holds the mutex, the tool's globals are about its launch.  *)
About(t) ==
    /\ tool.kernel = Mine(t)
    /\ launch[Mine(t)].instrumented = tool.active
    /\ launch[Mine(t)].value = IF launch[Mine(t)].gpu = "done"
                               THEN tool.signalValue - 1 ELSE tool.signalValue
    /\ tool.active =>
          counter = IF launch[Mine(t)].gpu \in {"host", "running"}
                    THEN {} ELSE {Mine(t)}

Exact == \A l \in Launches :
    launch[l].report # <<>> => launch[l].report = <<{l}>>

Singles ==
    /\ Typed /\ OneEach /\ MutexHeld /\ GpuOwned
    /\ \A t \in Threads : Holds(t) => About(t)
    /\ Exact /\ ~aborted

(* The inductive invariant: all of it holds until a submission of more than  *)
(* one dispatch.                                                             *)
SinglesInv == batched \in BOOLEAN /\ (~batched => Singles)

-----------------------------------------------------------------------------
(* A sequence of one launch.                                                 *)
LEMMA OneLaunch ==
  ASSUME NEW k \in Nat, k + 1 \in Launches
  PROVE  /\ [i \in 1..1 |-> k + i] \in Seq(Launches)
         /\ Len([i \in 1..1 |-> k + i]) = 1
         /\ [i \in 1..1 |-> k + i][1] = k + 1
<1> DEFINE s == [i \in 1..1 |-> k + i]
<1>1. s \in [1..1 -> Launches]
  OBVIOUS
<1>2. s \in Seq(Launches)
  <2>1. [1..1 -> Launches] \in {[1..n -> Launches] : n \in Nat}
    OBVIOUS
  <2> QED
    BY <1>1, <2>1, SeqDef
<1>3. DOMAIN s = 1..1 /\ DOMAIN s = 1..Len(s) /\ Len(s) \in Nat
  BY <1>2, LenProperties
<1>4. Len(s) = 1
  BY <1>3
<1> QED
  BY <1>2, <1>4

LEMMA SignalsLength ==
  ASSUME NEW n \in Nat, NEW S, NEW s \in [1..n -> S]
  PROVE  Len(s) = n
<1>1. s \in Seq(S)
  <2>1. [1..n -> S] \in {[1..m -> S] : m \in Nat}
    OBVIOUS
  <2> QED
    BY <2>1, SeqDef
<1>2. DOMAIN s = 1..n /\ DOMAIN s = 1..Len(s) /\ Len(s) \in Nat
  BY <1>1, LenProperties
<1>3. 1 \in 1..n <=> 1 \in 1..Len(s)
  BY <1>2
<1> QED
  BY <1>2

(* Reports are sets of launches or absent.                                   *)
LEMMA ReportTyped ==
  ASSUME NEW s \in SUBSET Launches
  PROVE  <<s>> \in {<<>>} \cup {<<r>> : r \in SUBSET Launches}
OBVIOUS

(* What the steps write about a launch has the type of a launch.             *)
LEMMA CompletingType ==
  ASSUME NEW r \in Launch, NEW v \in Int
  PROVE  /\ Completing(r, v) \in Launch
         /\ Completing(r, v).gpu = r.gpu /\ Completing(r, v).report = r.report
BY DEF Completing, Launch

LEMMA PreparedType ==
  ASSUME NEW r \in Launch, NEW v \in Int, NEW b \in BOOLEAN
  PROVE  /\ Prepared(r, v, b) \in Launch
         /\ Prepared(r, v, b).gpu = r.gpu
         /\ Prepared(r, v, b).report = r.report
         /\ Prepared(r, v, b).value = v
         /\ Prepared(r, v, b).instrumented = b
BY DEF Prepared, Launch

LEMMA CompletedType ==
  ASSUME NEW r \in Launch
  PROVE  /\ Completed(r) \in Launch
         /\ Completed(r).gpu = "done" /\ Completed(r).report = r.report
         /\ Completed(r).value = r.value - 1
         /\ Completed(r).instrumented = r.instrumented
<1>1. "done" \in GpuState /\ r.value \in Int
  BY DEF GpuState, Launch
<1>2. r.value - 1 \in Int
  BY <1>1
<1>3. Completed(r) = [r EXCEPT !.gpu = "done", !.value = r.value - 1]
  BY DEF Completed, Launch
<1> QED
  BY <1>1, <1>2, <1>3 DEF Launch

LEMMA FinishedType ==
  ASSUME NEW r \in Launch, Typed
  PROVE  /\ Finished(r) \in Launch
         /\ Finished(r).gpu = r.gpu
         /\ Finished(r).report = IF tool.active THEN <<counter>> ELSE r.report
         /\ Finished(r).value = r.value
         /\ Finished(r).instrumented = r.instrumented
<1>1. <<counter>> \in {<<>>} \cup {<<s>> : s \in SUBSET Launches}
  BY ReportTyped DEF Typed
<1>2. tool.active \in BOOLEAN /\ tool.mustDestroy \in BOOLEAN
  BY DEF Typed
<1> QED
  BY <1>1, <1>2 DEF Finished, Launch

(* Initially no thread is busy and nothing is on the GPU.                    *)
LEMMA InitSingles == Init => SinglesInv
<1> SUFFICES ASSUME Init PROVE SinglesInv
  OBVIOUS
<1>1. Typed
  <2>1. <<>> \in Seq(Launches)
    BY EmptySeq
  <2> QED
    BY <2>1, DispatchAssumption
    DEF Init, Typed, Launch, Launches, GpuState, NoLaunch
<1>2. OneEach /\ MutexHeld /\ GpuOwned /\ Exact
  BY DispatchAssumption
  DEF Init, OneEach, MutexHeld, GpuOwned, Exact, Busy, Holds, OnGpu
<1> QED
  BY <1>1, <1>2 DEF Init, SinglesInv, Singles, Holds

(* The types that the guards and the other parts rest on are kept.           *)
LEMMA SubmitSingles ==
  ASSUME Singles, NEW t \in Threads, NEW n \in 1..MaxBatch,
         NEW signals \in [1..n -> {NoSignal} \cup SignalValues],
         Submit(t, signals), ~batched'
  PROVE  Singles'
<1>1. Len(signals) = n /\ n = 1
  <2>1. n \in Nat /\ n >= 1
    BY DispatchAssumption
  <2>2. Len(signals) = n
    BY <2>1, SignalsLength
  <2>3. batched' = (batched \/ Len(signals) > 1)
    BY DEF Submit
  <2>4. ~(Len(signals) > 1)
    BY <2>3
  <2> QED
    BY <2>1, <2>2, <2>4
<1> DEFINE l == used + 1
<1>2. l \in Launches /\ used \in Nat /\ l > used
  <2>1. used + Len(signals) <= MaxLaunches
    BY DEF Submit
  <2> QED
    BY <1>1, <2>1, DispatchAssumption DEF Singles, Typed, Launches
<1>3. /\ batch' = [batch EXCEPT ![t] = [i \in 1..1 |-> used + i]]
      /\ [i \in 1..1 |-> used + i] \in Seq(Launches)
      /\ Len([i \in 1..1 |-> used + i]) = 1
      /\ [i \in 1..1 |-> used + i][1] = l
  BY <1>1, <1>2, OneLaunch DEF Submit
<1>4. /\ \A k \in Launches \ {l} : launch'[k] = launch[k]
      /\ launch'[l].gpu = launch[l].gpu
      /\ launch'[l].report = launch[l].report
      /\ launch' \in [Launches -> Launch]
  <2>1. \A k \in Launches : k - used \in 1..1 <=> k = l
    BY <1>2 DEF Launches
  <2>2. signals[1] \in Int /\ l - used = 1
    <3>1. signals[1] \in {NoSignal} \cup SignalValues
      BY <1>1
    <3>2. {NoSignal} \cup SignalValues \subseteq Int
      BY DispatchAssumption DEF NoSignal
    <3> QED
      BY <1>2, <3>1, <3>2
  <2>3. launch' = [k \in Launches |->
                    IF k - used \in 1..1 /\ signals[k - used] # NoSignal
                    THEN Completing(launch[k], signals[k - used])
                    ELSE launch[k]]
    BY <1>1 DEF Submit
  <2>4. launch \in [Launches -> Launch]
    BY DEF Singles, Typed
  <2>5. /\ \A k \in Launches \ {l} : launch'[k] = launch[k]
        /\ launch'[l] = IF signals[1] # NoSignal
                        THEN Completing(launch[l], signals[1]) ELSE launch[l]
        /\ launch' = [k \in Launches |-> launch'[k]]
    BY <1>2, <2>1, <2>2, <2>3
  <2>6. /\ launch'[l] \in Launch
        /\ launch'[l].gpu = launch[l].gpu
        /\ launch'[l].report = launch[l].report
    BY <1>2, <2>2, <2>4, <2>5, CompletingType
  <2> QED
    BY <2>4, <2>5, <2>6
<1>5. Typed'
  BY <1>1, <1>2, <1>3, <1>4 DEF Singles, Typed, Submit
<1>6. /\ pc' = [pc EXCEPT ![t] = "before"] /\ used' = l
      /\ next' = [next EXCEPT ![t] = 1]
      /\ \A u \in Threads \ {t} : batch'[u] = batch[u]
      /\ batch'[t][1] = l /\ Len(batch'[t]) = 1
      /\ pc[t] = "idle"
  BY <1>1, <1>3 DEF Submit, Singles, Typed
<1>7. \A u \in Threads : Busy(u) => Mine(u) # l /\ Mine(u) \in Launches
  BY <1>2, DispatchAssumption, SMTT(30) DEF Singles, Typed, OneEach, Launches
<1>8. /\ Mine(t)' = l /\ pc'[t] = "before"
      /\ \A u \in Threads \ {t} : Mine(u)' = Mine(u) /\ pc'[u] = pc[u]
  BY <1>6 DEF Mine, Singles, Typed
<1>9. OneEach'
  <2>1. Busy(t)' => Len(batch'[t]) = 1 /\ next'[t] = 1 /\ Mine(t)' \in 1..used'
    BY <1>2, <1>6, <1>8 DEF Singles, Typed
  <2>2. \A u \in Threads \ {t} : Busy(u)' =>
          Len(batch'[u]) = 1 /\ next'[u] = 1 /\ Mine(u)' \in 1..used'
    BY <1>2, <1>6, <1>8 DEF Singles, Typed, OneEach, Busy
  <2>3. \A u, v \in Threads :
          Busy(u)' /\ Busy(v)' /\ Mine(u)' = Mine(v)' => u = v
    BY <1>7, <1>8 DEF Singles, OneEach, Busy
  <2> QED
    BY <2>1, <2>2, <2>3 DEF OneEach
<1>13. MutexHeld'
  BY <1>6 DEF Singles, Typed, MutexHeld, Holds, Submit
<1>10. GpuOwned'
  <2>1. \A k \in Launches : OnGpu(k)' <=> OnGpu(k)
    BY <1>4 DEF OnGpu
  <2>2. \A k \in Launches : launch'[k].gpu = launch[k].gpu
    BY <1>4
  <2>3. \A k \in Launches : OnGpu(k)' =>
          \E u \in Threads : pc'[u] = "after" /\ Mine(u)' = k
    BY <1>6, <1>8, <2>1 DEF Singles, GpuOwned
  <2>4. launch'[l].gpu = "host"
    BY <1>2, <2>2 DEF Singles, GpuOwned
  <2>5. \A u \in Threads : pc'[u] \in {"before", "write"} =>
          launch'[Mine(u)'].gpu = "host"
    BY <1>7, <1>8, <2>2, <2>4 DEF Singles, GpuOwned, Busy
  <2>6. \A u \in Threads : pc'[u] = "after" => launch'[Mine(u)'].gpu # "host"
    BY <1>7, <1>8, <2>2 DEF Singles, GpuOwned, Busy
  <2>7. \A k \in Launches : k > used' => launch'[k].gpu = "host"
    BY <1>2, <1>6, <2>2 DEF Singles, GpuOwned, Launches
  <2> QED
    BY <2>3, <2>5, <2>6, <2>7 DEF GpuOwned
<1>11. \A u \in Threads : Holds(u)' => About(u)'
  BY <1>4, <1>7, <1>8 DEF Singles, Holds, About, Busy, Submit
<1>12. Exact'
  BY <1>2, <1>4 DEF Singles, Exact
<1> QED
  BY <1>5, <1>9, <1>10, <1>11, <1>12, <1>13 DEF Singles, Submit

-----------------------------------------------------------------------------
(* A busy thread is at its one launch.                                       *)
LEMMA AtMine ==
  ASSUME Singles, NEW t \in Threads, Busy(t)
  PROVE  /\ next[t] = 1 /\ Len(batch[t]) = 1
         /\ Current(t) = Mine(t) /\ Mine(t) \in Launches
         /\ DOMAIN batch[t] = 1..1
<1>1. next[t] = 1 /\ Len(batch[t]) = 1 /\ Mine(t) \in 1..used
  BY DEF Singles, OneEach
<1>2. Mine(t) \in Launches
  BY <1>1, DispatchAssumption DEF Singles, Typed, Launches
<1>3. batch[t] \in Seq(Launches)
  BY DEF Singles, Typed
<1>4. DOMAIN batch[t] = 1..1
  BY <1>1, <1>3, LenProperties
<1> QED
  BY <1>1, <1>2, <1>4 DEF Current, Mine

(* What a step leaves alone while the batches stay as they are.              *)
LEMMA OneEachKept ==
  ASSUME Singles, UNCHANGED <<batch, used>>, NEW t \in Threads, Busy(t),
         NEW p \in {"idle", "before", "write", "after"},
         pc' = [pc EXCEPT ![t] = p], next' = [next EXCEPT ![t] = 1]
  PROVE  /\ OneEach'
         /\ \A u \in Threads : Mine(u)' = Mine(u)
         /\ pc'[t] = p /\ \A u \in Threads \ {t} : pc'[u] = pc[u]
         /\ \A u \in Threads \ {t} : Busy(u) => Mine(u) # Mine(t)
BY DEF Singles, Typed, OneEach, Busy, Mine

LEMMA BeforeSingles ==
  ASSUME Singles, NEW t \in Threads, Before(t)
  PROVE  Singles'
<1> DEFINE l == Mine(t)
           own == launch[l].creator = "app"
           value == IF own THEN launch[l].value ELSE tool.signalValue
           active == InInterval(tool.launched)
<1>1. /\ pc[t] = "before" /\ Busy(t) /\ l \in Launches /\ Current(t) = l
      /\ next[t] = 1 /\ Len(batch[t]) = 1
  BY AtMine DEF Before, Busy
<1>2. mutex' = [owner |-> t, count |-> 1] /\ mutex.owner = NoThread
  <2>1. mutex.owner # t
    BY <1>1 DEF Singles, MutexHeld, Holds
  <2>2. mutex.owner = NoThread
    BY <2>1 DEF Before, CanLock
  <2> QED
    BY <2>2 DEF Before, Lock, Singles, MutexHeld
<1>3. \A u \in Threads : ~Holds(u)
  BY <1>2, DispatchAssumption DEF Singles, MutexHeld
<1>4. /\ pc' = [pc EXCEPT ![t] = "write"]
      /\ next' = [next EXCEPT ![t] = 1]
      /\ UNCHANGED <<batch, used>>
  BY <1>1 DEF Before, Advance
<1>5. /\ OneEach'
      /\ \A u \in Threads : Mine(u)' = Mine(u)
      /\ pc'[t] = "write" /\ \A u \in Threads \ {t} : pc'[u] = pc[u]
      /\ \A u \in Threads \ {t} : Busy(u) => Mine(u) # l
  BY <1>1, <1>4, OneEachKept
<1>6. value \in Int /\ active \in BOOLEAN /\ launch[l] \in Launch
  BY <1>1 DEF Singles, Typed, Launch, InInterval
<1>7. /\ launch' = [launch EXCEPT ![l] = Prepared(launch[l], value, active)]
      /\ tool' = [tool EXCEPT !.kernel = l, !.signalValue = value,
                              !.mustDestroy = ~own, !.active = active]
      /\ counter' = IF active THEN {} ELSE counter
      /\ ~aborted /\ aborted' = aborted
  BY <1>1 DEF Before
<1>8. /\ launch' \in [Launches -> Launch]
      /\ \A k \in Launches : launch'[k].gpu = launch[k].gpu
      /\ \A k \in Launches : launch'[k].report = launch[k].report
      /\ launch'[l].value = value /\ launch'[l].instrumented = active
  <2> DEFINE r == Prepared(launch[l], value, active)
  <2>1. /\ r \in Launch /\ r.gpu = launch[l].gpu
        /\ r.report = launch[l].report
        /\ r.value = value /\ r.instrumented = active
    BY <1>6, PreparedType
  <2>2. launch \in [Launches -> Launch] /\ launch' = [launch EXCEPT ![l] = r]
    BY <1>7 DEF Singles, Typed
  <2> HIDE DEF r, l, value, active
  <2> QED
    BY <1>1, <2>1, <2>2
<1>9. /\ tool' \in [kernel : {NoLaunch} \cup Launches, signalValue : Int,
                 active : BOOLEAN, mustDestroy : BOOLEAN, launched : Nat]
      /\ tool'.kernel = l /\ tool'.signalValue = value /\ tool'.active = active
  <2>1. (~own) \in BOOLEAN
    OBVIOUS
  <2>2. tool \in [kernel : {NoLaunch} \cup Launches, signalValue : Int,
                 active : BOOLEAN, mustDestroy : BOOLEAN, launched : Nat]
    BY DEF Singles, Typed
  <2> HIDE DEF own, value, active, l
  <2> QED
    BY <1>1, <1>6, <1>7, <2>1, <2>2
<1> HIDE DEF l, own, value, active
<1>10. Typed'
  BY <1>2, <1>4, <1>7, <1>8, <1>9 DEF Singles, Typed
<1>11. MutexHeld'
  BY <1>2, <1>3, <1>5, DispatchAssumption DEF MutexHeld, Holds
<1>12. launch[l].gpu = "host"
  BY <1>1 DEF Singles, GpuOwned, l
<1>13. GpuOwned'
  <2>1. \A k \in Launches : ~OnGpu(k)'
    BY <1>3, <1>8 DEF Singles, GpuOwned, OnGpu, Holds
  <2>2. \A u \in Threads : Busy(u) => Mine(u) \in Launches
    BY AtMine
  <2>3. \A u \in Threads : pc'[u] \in {"before", "write"} =>
          launch'[Mine(u)'].gpu = "host"
    BY <1>1, <1>5, <1>8, <1>12, <2>2 DEF Singles, GpuOwned, Busy, l
  <2>4. \A u \in Threads : pc'[u] # "after"
    BY <1>3, <1>5 DEF Holds
  <2>5. \A k \in Launches : k > used' => launch'[k].gpu = "host"
    BY <1>4, <1>8 DEF Singles, GpuOwned
  <2> QED
    BY <2>1, <2>3, <2>4, <2>5 DEF GpuOwned
<1>14. \A u \in Threads : Holds(u)' => About(u)'
  BY <1>3, <1>5, <1>7, <1>8, <1>9, <1>12 DEF About, Holds, l
<1>15. Exact'
  BY <1>8 DEF Singles, Exact
<1> QED
  BY <1>5, <1>7, <1>10, <1>11, <1>13, <1>14, <1>15 DEF Singles

LEMMA WriteSingles ==
  ASSUME Singles, NEW t \in Threads, Write(t)
  PROVE  Singles'
<1> DEFINE l == Mine(t)
<1>1. /\ pc[t] = "write" /\ Busy(t) /\ l \in Launches
      /\ DOMAIN batch[t] = 1..1 /\ next[t] = 1 /\ Holds(t)
  BY AtMine DEF Write, Busy, Holds
<1>2. /\ pc' = [pc EXCEPT ![t] = "after"] /\ next' = [next EXCEPT ![t] = 1]
      /\ UNCHANGED <<batch, used, mutex, tool, counter, aborted>>
  BY <1>1 DEF Write, Singles, Typed
<1>3. /\ OneEach'
      /\ \A u \in Threads : Mine(u)' = Mine(u)
      /\ pc'[t] = "after" /\ \A u \in Threads \ {t} : pc'[u] = pc[u]
      /\ \A u \in Threads \ {t} : Busy(u) => Mine(u) # l
  BY <1>1, <1>2, OneEachKept
<1>4. /\ launch' \in [Launches -> Launch]
      /\ \A k \in Launches \ {l} : launch'[k] = launch[k]
      /\ launch'[l] = [launch[l] EXCEPT !.gpu = "running"]
  <2>1. \A k \in Launches :
          (\E i \in DOMAIN batch[t] : batch[t][i] = k) <=> k = l
    BY <1>1 DEF Mine
  <2>2. launch' = [k \in Launches |->
                    IF \E i \in DOMAIN batch[t] : batch[t][i] = k
                    THEN [launch[k] EXCEPT !.gpu = "running"] ELSE launch[k]]
    BY DEF Write
  <2>3. launch \in [Launches -> Launch]
    BY DEF Singles, Typed
  <2>4. /\ \A k \in Launches \ {l} : launch'[k] = launch[k]
        /\ launch'[l] = [launch[l] EXCEPT !.gpu = "running"]
        /\ launch' = [k \in Launches |-> launch'[k]]
    BY <1>1, <2>1, <2>2
  <2>5. launch'[l] \in Launch
    BY <1>1, <2>3, <2>4 DEF Launch, GpuState
  <2> QED
    BY <2>3, <2>4, <2>5
<1>5. /\ launch'[l].gpu = "running" /\ launch'[l].value = launch[l].value
      /\ launch'[l].report = launch[l].report
      /\ launch'[l].instrumented = launch[l].instrumented
  BY <1>1, <1>4 DEF Singles, Typed, Launch
<1>6. Typed'
  BY <1>2, <1>4 DEF Singles, Typed
<1>7. MutexHeld'
  BY <1>1, <1>2, <1>3 DEF Singles, MutexHeld, Holds
<1>8. \A u \in Threads : Holds(u) => u = t
  BY <1>1, DispatchAssumption DEF Singles, MutexHeld
<1>9. launch[l].gpu = "host"
  BY <1>1 DEF Singles, GpuOwned
<1>10. GpuOwned'
  <2>1. \A k \in Launches : OnGpu(k)' => k = l
    BY <1>4, <1>8, <1>1 DEF Singles, GpuOwned, OnGpu, Holds
  <2>2. \A u \in Threads : Busy(u) => Mine(u) \in Launches
    BY AtMine
  <2>3. \A u \in Threads : pc'[u] \in {"before", "write"} =>
          launch'[Mine(u)'].gpu = "host"
    BY <1>3, <1>4, <2>2 DEF Singles, GpuOwned, Busy
  <2>4. \A u \in Threads : pc'[u] = "after" => u = t
    BY <1>3, <1>8 DEF Holds
  <2>5. \A k \in Launches : k > used' => launch'[k].gpu = "host"
    <3>1. l <= used
      BY <1>1 DEF Singles, Typed, OneEach
    <3> QED
      BY <1>2, <1>4, <3>1 DEF Singles, Typed, GpuOwned, Launches
  <2> QED
    BY <1>3, <1>5, <2>1, <2>3, <2>4, <2>5 DEF GpuOwned
<1>11. \A u \in Threads : Holds(u)' => About(u)'
  <2>1. \A u \in Threads : Holds(u)' => u = t
    BY <1>3, <1>8 DEF Holds
  <2>2. About(t)
    BY <1>1 DEF Singles
  <2>3. About(t)'
    BY <1>2, <1>3, <1>5, <1>9, <2>2 DEF About
  <2> QED
    BY <2>1, <2>3
<1>12. Exact'
  BY <1>4, <1>5 DEF Singles, Exact
<1> QED
  BY <1>2, <1>3, <1>6, <1>7, <1>10, <1>11, <1>12 DEF Singles

(* In AFTER the thread holds the mutex, and its launch was written.          *)
LEMMA InAfter ==
  ASSUME Singles, NEW t \in Threads, pc[t] = "after"
  PROVE  /\ Busy(t) /\ Holds(t) /\ About(t)
         /\ Mine(t) \in Launches /\ Current(t) = Mine(t)
         /\ next[t] = 1 /\ Len(batch[t]) = 1
         /\ launch[Mine(t)].gpu \in {"running", "counted", "done"}
         /\ Signalled(t) <=> launch[Mine(t)].gpu = "done"
         /\ \A u \in Threads : Holds(u) => u = t
<1>1. Busy(t) /\ Holds(t) /\ About(t)
  BY DEF Busy, Holds, Singles
<1>2. /\ Mine(t) \in Launches /\ Current(t) = Mine(t)
      /\ next[t] = 1 /\ Len(batch[t]) = 1
  BY <1>1, AtMine
<1>3. launch[Mine(t)].gpu \in {"running", "counted", "done"}
  BY <1>2 DEF Singles, Typed, GpuOwned, Launch, GpuState
<1>4. Signalled(t) <=> launch[Mine(t)].gpu = "done"
  <2>1. tool.signalValue \in Int
    BY DEF Singles, Typed
  <2> QED
    BY <1>1, <1>2, <2>1 DEF About, Signalled
<1>5. \A u \in Threads : Holds(u) => u = t
  BY <1>1 DEF Singles, MutexHeld
<1> QED
  BY <1>1, <1>2, <1>3, <1>4, <1>5

LEMMA AfterSingles ==
  ASSUME Singles, NEW t \in Threads, After(t)
  PROVE  Singles'
<1> DEFINE l == Mine(t)
<1>1. /\ pc[t] = "after" /\ Busy(t) /\ Holds(t) /\ About(t) /\ l \in Launches
      /\ Current(t) = l /\ next[t] = 1 /\ Len(batch[t]) = 1
      /\ launch[l].gpu = "done"
      /\ \A u \in Threads : Holds(u) => u = t
  BY InAfter DEF After
<1>2. mutex.owner = t /\ mutex.count = 1
  BY <1>1 DEF Singles, MutexHeld
<1>3. mutex' = [owner |-> NoThread, count |-> 0]
  BY <1>2 DEF After, Unlock
<1>4. /\ pc' = [pc EXCEPT ![t] = "idle"] /\ next' = [next EXCEPT ![t] = 1]
      /\ UNCHANGED <<batch, used, counter, aborted>>
  BY <1>1 DEF After, Advance
<1>5. /\ OneEach'
      /\ \A u \in Threads : Mine(u)' = Mine(u)
      /\ pc'[t] = "idle" /\ \A u \in Threads \ {t} : pc'[u] = pc[u]
  BY <1>1, <1>4, OneEachKept
<1>6. \A u \in Threads : ~Holds(u)'
  BY <1>1, <1>5 DEF Holds
<1>7. /\ launch' \in [Launches -> Launch]
      /\ \A k \in Launches : launch'[k].gpu = launch[k].gpu
      /\ \A k \in Launches \ {l} : launch'[k] = launch[k]
      /\ launch'[l].report = IF tool.active THEN <<counter>>
                                            ELSE launch[l].report
  <2> DEFINE r == Finished(launch[l])
  <2>1. launch[l] \in Launch /\ Typed
    BY <1>1 DEF Singles, Typed
  <2>2. /\ r \in Launch /\ r.gpu = launch[l].gpu
        /\ r.report = IF tool.active THEN <<counter>> ELSE launch[l].report
    BY <2>1, FinishedType
  <2>3. launch \in [Launches -> Launch] /\ launch' = [launch EXCEPT ![l] = r]
    BY <1>1, <2>1 DEF After, Typed
  <2> HIDE DEF r, l
  <2> QED
    BY <1>1, <2>2, <2>3
<1>8. Typed'
  <2>1. tool' = [tool EXCEPT !.kernel = IF kind.frees THEN NoLaunch ELSE @,
                             !.launched = Launched]
    BY DEF After
  <2>2. Launched \in Nat
    BY DEF Launched, Singles, Typed
  <2>3. tool' \in [kernel : {NoLaunch} \cup Launches, signalValue : Int,
                 active : BOOLEAN, mustDestroy : BOOLEAN, launched : Nat]
    BY <2>1, <2>2 DEF Singles, Typed
  <2> QED
    BY <1>3, <1>4, <1>7, <2>3 DEF Singles, Typed
<1>9. MutexHeld'
  BY <1>3, <1>6, DispatchAssumption DEF MutexHeld
<1>10. GpuOwned'
  <2>1. \A k \in Launches : ~OnGpu(k)'
    BY <1>1, <1>7 DEF Singles, GpuOwned, OnGpu, Holds
  <2>2. \A u \in Threads : Busy(u) => Mine(u) \in Launches
    BY AtMine
  <2>3. \A u \in Threads : pc'[u] \in {"before", "write"} =>
          launch'[Mine(u)'].gpu = "host"
    BY <1>5, <1>7, <2>2 DEF Singles, GpuOwned, Busy
  <2>4. \A k \in Launches : k > used' => launch'[k].gpu = "host"
    BY <1>4, <1>7 DEF Singles, GpuOwned
  <2> QED
    BY <1>6, <2>1, <2>3, <2>4 DEF GpuOwned, Holds
<1>11. Exact'
  <2>1. tool.active => counter = {l}
    BY <1>1 DEF About
  <2>2. launch'[l].report # <<>> => launch'[l].report = <<{l}>>
    BY <1>1, <1>7, <2>1 DEF Singles, Exact
  <2> QED
    BY <1>7, <2>2 DEF Singles, Exact
<1> QED
  BY <1>4, <1>5, <1>6, <1>8, <1>9, <1>10, <1>11 DEF Singles

(* With single dispatches neither of the two ends of the process is reached. *)
LEMMA NoAbort ==
  ASSUME Singles, NEW t \in Threads
  PROVE  ~AfterNull(t) /\ ~AfterTimeout(t)
<1>1. CASE pc[t] = "after"
  <2>1. tool.kernel # NoLaunch
    BY <1>1, InAfter DEF About, NoLaunch, Launches
  <2>2. ~Signalled(t) => ~GpuIdle
    BY <1>1, InAfter DEF GpuIdle
  <2> QED
    BY <2>1, <2>2 DEF AfterNull, AfterTimeout, NamesNull
<1>2. CASE pc[t] # "after"
  BY <1>2 DEF AfterNull, AfterTimeout
<1> QED
  BY <1>1, <1>2

(* A step of the GPU on a launch, whose thread waits in AFTER.               *)
LEMMA GpuKept ==
  ASSUME Singles, NEW l \in Launches, OnGpu(l),
         launch' \in [Launches -> Launch],
         \A k \in Launches \ {l} : launch'[k] = launch[k],
         launch'[l].gpu # "host", launch'[l].report = launch[l].report,
         UNCHANGED <<pc, batch, next, used, mutex, tool, aborted>>,
         counter' \subseteq Launches,
         \A t \in Threads : Holds(t) /\ Mine(t) = l => About(t)'
  PROVE  Singles'
<1>1. PICK t \in Threads : pc[t] = "after" /\ Mine(t) = l
  BY DEF Singles, GpuOwned
<1>2. \A u \in Threads : Mine(u)' = Mine(u)
  BY DEF Mine
<1>3. Typed' /\ OneEach' /\ MutexHeld'
  BY <1>2 DEF Singles, Typed, OneEach, MutexHeld, Holds, Busy
<1>4. \A u \in Threads : Busy(u) => Mine(u) \in Launches
  BY AtMine
<1>5. \A u \in Threads \ {t} : Busy(u) => Mine(u) # l
  BY <1>1 DEF Singles, OneEach, Busy
<1>6. GpuOwned'
  <2>1. \A k \in Launches : OnGpu(k)' =>
          \E u \in Threads : pc'[u] = "after" /\ Mine(u)' = k
    BY <1>1, <1>2 DEF Singles, GpuOwned, OnGpu
  <2>2. \A u \in Threads : pc'[u] \in {"before", "write"} =>
          launch'[Mine(u)'].gpu = "host"
    BY <1>1, <1>2, <1>4, <1>5 DEF Singles, GpuOwned, Busy
  <2>3. \A u \in Threads : pc'[u] = "after" => launch'[Mine(u)'].gpu # "host"
    BY <1>1, <1>2, <1>4, <1>5 DEF Singles, GpuOwned, Busy
  <2>4. \A k \in Launches : k > used' => launch'[k].gpu = "host"
    BY DEF Singles, GpuOwned, OnGpu
  <2> QED
    BY <2>1, <2>2, <2>3, <2>4 DEF GpuOwned
<1>7. \A u \in Threads : Holds(u)' => About(u)'
  BY <1>1, InAfter DEF Holds
<1>8. Exact'
  BY DEF Singles, Exact
<1> QED
  BY <1>3, <1>6, <1>7, <1>8 DEF Singles

LEMMA ExecuteSingles ==
  ASSUME Singles, NEW l \in Launches, Execute(l)
  PROVE  Singles'
<1>1. /\ launch[l].gpu = "running" /\ OnGpu(l)
      /\ launch' = [launch EXCEPT ![l].gpu = "counted"]
      /\ counter' = IF launch[l].instrumented THEN counter \cup {l} ELSE counter
      /\ UNCHANGED <<pc, batch, next, used, mutex, tool, aborted>>
  BY DEF Execute, OnGpu
<1>2. /\ launch' \in [Launches -> Launch]
      /\ \A k \in Launches \ {l} : launch'[k] = launch[k]
      /\ launch'[l].gpu = "counted" /\ launch'[l].report = launch[l].report
      /\ launch'[l].value = launch[l].value
      /\ launch'[l].instrumented = launch[l].instrumented
  BY <1>1, ZenonT(30) DEF Singles, Typed, Launch, GpuState
<1>3. counter' \subseteq Launches
  BY <1>1 DEF Singles, Typed
<1>4. \A t \in Threads : Holds(t) /\ Mine(t) = l => About(t)'
  <2> SUFFICES ASSUME NEW t \in Threads, Holds(t), Mine(t) = l PROVE About(t)'
    OBVIOUS
  <2>1. About(t)
    BY DEF Singles
  <2> QED
    BY <1>1, <1>2, <2>1 DEF About, Mine
<1> QED
  BY <1>1, <1>2, <1>3, <1>4, GpuKept

LEMMA CompleteSingles ==
  ASSUME Singles, NEW l \in Launches, Complete(l)
  PROVE  Singles'
<1>1. /\ launch[l].gpu = "counted" /\ OnGpu(l)
      /\ launch' = [launch EXCEPT ![l] = Completed(launch[l])]
      /\ UNCHANGED <<pc, batch, next, used, mutex, tool, counter, aborted>>
  BY DEF Complete, OnGpu, Singles, Typed
<1>2. /\ launch' \in [Launches -> Launch]
      /\ \A k \in Launches \ {l} : launch'[k] = launch[k]
      /\ launch'[l].gpu = "done" /\ launch'[l].report = launch[l].report
      /\ launch'[l].value = launch[l].value - 1
      /\ launch'[l].instrumented = launch[l].instrumented
  BY <1>1, CompletedType DEF Singles, Typed
<1>3. counter' \subseteq Launches
  BY <1>1 DEF Singles, Typed
<1>4. \A t \in Threads : Holds(t) /\ Mine(t) = l => About(t)'
  <2> SUFFICES ASSUME NEW t \in Threads, Holds(t), Mine(t) = l PROVE About(t)'
    OBVIOUS
  <2>1. About(t)
    BY DEF Singles
  <2> QED
    BY <1>1, <1>2, <2>1 DEF About, Mine
<1> QED
  BY <1>1, <1>2, <1>3, <1>4, GpuKept

-----------------------------------------------------------------------------
LEMMA SinglesStep == SinglesInv /\ [Next]_vars => SinglesInv'
<1> SUFFICES ASSUME SinglesInv, [Next]_vars PROVE SinglesInv'
  OBVIOUS
<1>1. batched' \in BOOLEAN /\ (~batched' => ~batched)
  <2>1. CASE UNCHANGED vars
    BY <2>1 DEF vars, SinglesInv
  <2>2. CASE \E t \in Threads, n \in 1..MaxBatch :
               \E signals \in [1..n -> {NoSignal} \cup SignalValues] :
                  Submit(t, signals)
    BY <2>2 DEF Submit, SinglesInv
  <2>3. CASE \E t \in Threads : ThreadStep(t)
    BY <2>3 DEF ThreadStep, Before, Write, After, AfterNull, AfterTimeout,
                SinglesInv
  <2>4. CASE \E l \in Launches : GpuStep(l)
    BY <2>4 DEF GpuStep, Execute, Complete, SinglesInv
  <2> QED
    BY <2>1, <2>2, <2>3, <2>4 DEF Next
<1>2. SUFFICES ASSUME Singles, ~batched' PROVE Singles'
  BY <1>1 DEF SinglesInv
<1>3. CASE UNCHANGED vars
  <2>1. UNCHANGED <<pc, batch, next, used>> /\ UNCHANGED <<mutex, tool, counter, launch>>
        /\ aborted' = aborted
    BY <1>3 DEF vars
  <2>2. \A t \in Threads : Mine(t)' = Mine(t) /\ (Busy(t)' <=> Busy(t)) /\ (Holds(t)' <=> Holds(t))
    BY <2>1 DEF Mine, Busy, Holds
  <2>3. Typed'
    BY <1>2, <2>1 DEF Singles, Typed
  <2>4. OneEach'
    BY <1>2, <2>1, <2>2 DEF Singles, OneEach
  <2>5. MutexHeld'
    BY <1>2, <2>1, <2>2 DEF Singles, MutexHeld
  <2>6. GpuOwned'
    BY <1>2, <2>1, <2>2 DEF Singles, GpuOwned, OnGpu
  <2>7. \A t \in Threads : Holds(t)' => About(t)'
    BY <1>2, <2>1, <2>2 DEF Singles, About
  <2>8. Exact' /\ ~aborted'
    BY <1>2, <2>1 DEF Singles, Exact
  <2> QED
    BY <2>3, <2>4, <2>5, <2>6, <2>7, <2>8 DEF Singles
<1>4. ASSUME NEW t \in Threads, NEW n \in 1..MaxBatch,
             NEW signals \in [1..n -> {NoSignal} \cup SignalValues],
             Submit(t, signals)
      PROVE  Singles'
  BY <1>2, <1>4, SubmitSingles
<1>5. ASSUME NEW t \in Threads, ThreadStep(t) PROVE Singles'
  BY <1>2, <1>5, BeforeSingles, WriteSingles, AfterSingles, NoAbort
  DEF ThreadStep
<1>6. ASSUME NEW l \in Launches, GpuStep(l) PROVE Singles'
  BY <1>2, <1>6, ExecuteSingles, CompleteSingles DEF GpuStep
<1> QED
  BY <1>3, <1>4, <1>5, <1>6 DEF Next

(* The invariant holds in every reachable state.                             *)
THEOREM SinglesInvariant == Spec => []SinglesInv
<1> QED
  BY InitSingles, SinglesStep, PTL DEF Spec

(* Single dispatches of any number of threads run one at a time.             *)
THEOREM SinglesAlwaysRunAlone == Spec => []SinglesRunAlone
<1>1. SinglesInv => SinglesRunAlone
  <2> SUFFICES ASSUME Singles, NEW l \in Launches, NEW m \in Launches,
                      OnGpu(l), OnGpu(m)
               PROVE  l = m
    BY DEF SinglesInv, SinglesRunAlone, OneKernelAtATime
  <2>1. PICK t \in Threads : pc[t] = "after" /\ Mine(t) = l
    BY DEF Singles, GpuOwned
  <2>2. PICK u \in Threads : pc[u] = "after" /\ Mine(u) = m
    BY DEF Singles, GpuOwned
  <2>3. t = u
    BY <2>1, <2>2, InAfter DEF Holds
  <2> QED
    BY <2>1, <2>2, <2>3
<1> QED
  BY <1>1, SinglesInvariant, PTL

(* A single dispatch is reported with what it counted, and nothing else.     *)
THEOREM SinglesReportedExactly == Spec => []ReportsExact
<1>1. SinglesInv => ReportsExact
  BY DEF SinglesInv, Singles, Exact, ReportsExact
<1> QED
  BY <1>1, SinglesInvariant, PTL

(* The tool never ends a process that submits single dispatches.             *)
THEOREM SinglesNeverAbort == Spec => []NeverAborts
<1>1. SinglesInv => NeverAborts
  BY DEF SinglesInv, Singles, NeverAborts
<1> QED
  BY <1>1, SinglesInvariant, PTL

-----------------------------------------------------------------------------
(* The order of the launches.  The tool's own count, NumKernelLaunched, runs *)
(* level with the launches AFTER is done with; it gets ahead of them only    *)
(* once a counting tool has left the part before the interval.               *)
Handled == IF mutex.owner = NoThread THEN Len(seen) ELSE Len(seen) - 1

CountLevel ==
    /\ tool.launched >= Handled
    /\ ~kind.counts \/ Handled <= BeginInterval => tool.launched = Handled
    /\ mutex.owner # NoThread =>
          Len(seen) >= 1 /\ (tool.active => Len(seen) > BeginInterval)

(* What is on record of a launch BEFORE took is settled, and a launch still  *)
(* in front of BEFORE is not on record.                                      *)
SeenSettled ==
    \A i \in DOMAIN seen :
        LET within == i > BeginInterval /\ i <= EndInterval IN
        /\ launch[seen[i]].instrumented => within
        /\ within => launch[seen[i]].instrumented \/ kind.counts

SeenOnce ==
    \A i \in DOMAIN seen :
        /\ seen[i] \in 1..used
        /\ \A t \in Threads : pc[t] = "before" => seen[i] # Mine(t)

Ordered == seen \in Seq(Launches) /\ CountLevel /\ SeenSettled /\ SeenOnce

OrderedInv == ~batched => Ordered

LEMMA InitOrdered == Init => OrderedInv
<1> SUFFICES ASSUME Init PROVE Ordered
  BY DEF OrderedInv
<1>1. seen \in Seq(Launches) /\ Len(seen) = 0 /\ DOMAIN seen = {}
  BY EmptySeq DEF Init
<1> QED
  BY <1>1, DispatchAssumption
  DEF Init, Ordered, CountLevel, Handled, SeenSettled, SeenOnce

(* Steps other than BEFORE and AFTER: the order, the count and who is        *)
(* instrumented stay, and only a new launch comes in front of BEFORE.        *)
LEMMA OrderKept ==
  ASSUME Ordered, UNCHANGED <<seen, kind>>,
         tool'.launched = tool.launched, tool'.active = tool.active,
         mutex'.owner = mutex.owner,
         used \in Nat, used' \in Nat, used <= used',
         \A k \in Launches : launch'[k].instrumented = launch[k].instrumented,
         \A t \in Threads : pc'[t] = "before" =>
            Mine(t)' > used \/ (pc[t] = "before" /\ Mine(t)' = Mine(t))
  PROVE  Ordered'
<1>1. CountLevel'
  BY DEF Ordered, CountLevel, Handled
<1>2. \A i \in DOMAIN seen : seen[i] \in Launches
  BY DEF Ordered
<1>3. SeenSettled'
  BY <1>2 DEF Ordered, SeenSettled
<1>4. SeenOnce'
  BY DEF Ordered, SeenOnce
<1> QED
  BY <1>1, <1>3, <1>4 DEF Ordered

LEMMA SubmitOrdered ==
  ASSUME Singles, Ordered, NEW t \in Threads, NEW n \in 1..MaxBatch,
         NEW signals \in [1..n -> {NoSignal} \cup SignalValues],
         Submit(t, signals), ~batched'
  PROVE  Ordered'
<1>1. Len(signals) = n /\ n = 1
  <2>1. n \in Nat /\ n >= 1
    BY DispatchAssumption
  <2>2. Len(signals) = n
    BY <2>1, SignalsLength
  <2>3. batched' = (batched \/ Len(signals) > 1)
    BY DEF Submit
  <2>4. ~(Len(signals) > 1)
    BY <2>3
  <2> QED
    BY <2>1, <2>2, <2>4
<1>2. used \in Nat /\ used' = used + 1
  BY <1>1, DispatchAssumption DEF Submit, Singles, Typed
<1>3. \A k \in Launches : launch'[k].instrumented = launch[k].instrumented
  <2> SUFFICES ASSUME NEW k \in Launches
               PROVE  launch'[k].instrumented = launch[k].instrumented
    OBVIOUS
  <2>1. launch[k] \in Launch
    BY DEF Singles, Typed
  <2>2. \A v : Completing(launch[k], v).instrumented = launch[k].instrumented
    BY <2>1 DEF Completing, Launch
  <2>3. launch'[k] = launch[k] \/ \E v : launch'[k] = Completing(launch[k], v)
    BY Zenon DEF Submit
  <2> QED
    BY <2>2, <2>3
<1>4. \A u \in Threads : pc'[u] = "before" =>
        Mine(u)' > used \/ (pc[u] = "before" /\ Mine(u)' = Mine(u))
  <2>1. Mine(t)' = used + 1
    <3>1. batch' = [batch EXCEPT ![t] = [i \in 1..1 |-> used + i]]
      BY <1>1 DEF Submit
    <3> QED
      BY <3>1 DEF Mine, Singles, Typed
  <2>2. \A u \in Threads \ {t} : Mine(u)' = Mine(u) /\ pc'[u] = pc[u]
    BY DEF Mine, Submit, Singles, Typed
  <2> QED
    BY <1>2, <2>1, <2>2
<1> QED
  BY <1>2, <1>3, <1>4, OrderKept DEF Submit

LEMMA BeforeOrdered ==
  ASSUME Singles, Ordered, NEW t \in Threads, Before(t)
  PROVE  Ordered'
<1> DEFINE active == InInterval(tool.launched)
           n == Len(seen) + 1
<1>1. PICK l \in Launches :
        /\ l = Mine(t) /\ pc[t] = "before" /\ Current(t) = l
        /\ next[t] = 1 /\ Len(batch[t]) = 1 /\ l \in 1..used
  BY AtMine DEF Before, Busy, Singles, OneEach
<1>2. mutex' = [owner |-> t, count |-> mutex.count + 1] /\ mutex.owner = NoThread
  BY <1>1 DEF Before, CanLock, Lock, Singles, MutexHeld, Holds
<1>3. /\ seen \in Seq(Launches) /\ seen' = Append(seen, l)
      /\ seen' \in Seq(Launches) /\ Len(seen') = n /\ Len(seen) \in Nat
      /\ DOMAIN seen = 1..Len(seen) /\ DOMAIN seen' = 1..n /\ seen'[n] = l
      /\ \A i \in 1..Len(seen) : seen'[i] = seen[i]
  BY <1>1 DEF Before, Ordered
<1>4. /\ tool'.launched = tool.launched /\ tool'.active = active
      /\ tool.launched \in Nat /\ UNCHANGED <<kind, used, batch>>
  BY <1>1 DEF Before, Singles, Typed
<1>5. /\ launch'[l].instrumented = active
      /\ \A k \in Launches \ {l} : launch'[k] = launch[k]
  <2>1. launch' = [launch EXCEPT ![l] =
          Prepared(launch[l], IF launch[l].creator = "app" THEN launch[l].value
                              ELSE tool.signalValue, active)]
    BY <1>1 DEF Before, Singles, Typed
  <2>2. active \in BOOLEAN /\ launch[l] \in Launch /\ launch \in [Launches -> Launch]
    BY DispatchAssumption DEF InInterval, Singles, Typed
  <2>3. (IF launch[l].creator = "app" THEN launch[l].value
         ELSE tool.signalValue) \in Int
    BY <2>2 DEF Singles, Typed, Launch
  <2> HIDE DEF active
  <2> QED
    BY <2>1, <2>2, <2>3, PreparedType
<1>6. pc' = [pc EXCEPT ![t] = "write"]
  BY <1>1 DEF Before, Advance
<1>7. active => n > BeginInterval /\ n <= EndInterval
  BY <1>2, <1>3, <1>4, DispatchAssumption
  DEF Ordered, CountLevel, Handled, InInterval
<1>8. n > BeginInterval /\ n <= EndInterval => active \/ kind.counts
  BY <1>2, <1>3, <1>4, DispatchAssumption
  DEF Ordered, CountLevel, Handled, InInterval
<1>9. CountLevel'
  <2>1. mutex'.owner # NoThread /\ Handled = Len(seen)
    BY <1>2, DispatchAssumption DEF Handled
  <2>2. Len(seen') - 1 = Len(seen)
    BY <1>3
  <2>3. Handled' = Len(seen)
    BY <2>1, <2>2 DEF Handled
  <2> HIDE DEF active
  <2> QED
    BY <1>3, <1>4, <1>7, <2>1, <2>3 DEF Ordered, CountLevel
<1>10. \A i \in DOMAIN seen : seen[i] # l /\ seen[i] \in Launches
  BY <1>1, <1>3 DEF Ordered, SeenOnce
<1>11. SeenSettled'
  <2> HIDE DEF active
  <2>1. \A i \in 1..Len(seen) : launch'[seen'[i]] = launch[seen[i]]
    BY <1>3, <1>5, <1>10
  <2>2. ASSUME NEW i \in DOMAIN seen'
        PROVE  LET within == i > BeginInterval /\ i <= EndInterval IN
               /\ launch'[seen'[i]].instrumented => within
               /\ within => launch'[seen'[i]].instrumented \/ kind.counts
    <3>1. CASE i = n
      BY <1>3, <1>5, <1>7, <1>8, <3>1
    <3>2. CASE i \in DOMAIN seen
      BY <1>3, <2>1, <3>2 DEF Ordered, SeenSettled
    <3> QED
      BY <1>3, <2>2, <3>1, <3>2
  <2> QED
    BY <1>4, <2>2 DEF SeenSettled
<1>12. SeenOnce'
  <2>1. \A u \in Threads : pc'[u] = "before" =>
          u # t /\ pc[u] = "before" /\ Mine(u)' = Mine(u) /\ Mine(u) # l
    BY <1>1, <1>4, <1>6 DEF Singles, Typed, OneEach, Busy, Mine
  <2> QED
    BY <1>1, <1>3, <1>4, <2>1 DEF Ordered, SeenOnce
<1> QED
  BY <1>3, <1>9, <1>11, <1>12 DEF Ordered

LEMMA AfterOrdered ==
  ASSUME Singles, Ordered, NEW t \in Threads, After(t)
  PROVE  Ordered'
<1>1. PICK l \in Launches :
        l = Mine(t) /\ Holds(t) /\ Current(t) = l /\ next[t] = 1
        /\ Len(batch[t]) = 1
  BY InAfter DEF After
<1>2. mutex.owner = t /\ mutex' = [owner |-> NoThread, count |-> 0]
  BY <1>1 DEF After, Unlock, Singles, MutexHeld
<1>3. /\ tool'.launched = tool.launched + (IF tool.active /\ kind.counts THEN 2 ELSE 1)
      /\ tool.launched \in Nat /\ tool.active \in BOOLEAN
      /\ UNCHANGED <<kind, used, batch, seen>>
      /\ Len(seen) \in Nat
  BY DEF After, Launched, Singles, Typed, Ordered
<1>4. Handled = Len(seen) - 1 /\ Handled' = Len(seen)
  BY <1>2, <1>3, DispatchAssumption DEF Handled
<1>5. CountLevel'
  <2>1. mutex.owner # NoThread /\ mutex'.owner = NoThread
    BY <1>2, DispatchAssumption
  <2> QED
    BY <1>3, <1>4, <2>1, DispatchAssumption DEF Ordered, CountLevel
<1>6. \A k \in Launches : launch'[k].instrumented = launch[k].instrumented
  <2>1. launch' = [launch EXCEPT ![l] = Finished(launch[l])]
    BY <1>1 DEF After, Singles, Typed
  <2>2. Typed /\ launch[l] \in Launch /\ launch \in [Launches -> Launch]
    BY DEF Singles, Typed
  <2> QED
    BY <2>1, <2>2, FinishedType
<1>7. SeenSettled'
  BY <1>3, <1>6 DEF Ordered, SeenSettled
<1>8. pc' = [pc EXCEPT ![t] = "idle"]
  BY <1>1 DEF After, Advance
<1>9. SeenOnce'
  BY <1>3, <1>8 DEF Ordered, SeenOnce, Mine, Singles, Typed
<1> QED
  BY <1>3, <1>5, <1>7, <1>9 DEF Ordered

LEMMA OthersOrdered ==
  ASSUME Singles, Ordered, NEW t \in Threads, NEW l \in Launches,
         Write(t) \/ Execute(l) \/ Complete(l)
  PROVE  Ordered'
<1>1. UNCHANGED <<seen, kind, tool, mutex, used, batch>> /\ used \in Nat
  BY DispatchAssumption DEF Write, Execute, Complete, Singles, Typed
<1>2. \A k \in Launches : launch'[k].instrumented = launch[k].instrumented
  <2> SUFFICES ASSUME NEW k \in Launches
               PROVE  launch'[k].instrumented = launch[k].instrumented
    OBVIOUS
  <2>1. launch[k] \in Launch /\ launch \in [Launches -> Launch]
    BY DEF Singles, Typed
  <2>2. CASE Write(t)
    BY <2>1, <2>2 DEF Write, Launch
  <2>3. CASE Execute(l)
    BY <2>1, <2>3 DEF Execute, Launch
  <2>4. CASE Complete(l)
    <3>1. launch' = [launch EXCEPT ![l] = Completed(launch[l])]
      BY <2>1, <2>4 DEF Complete
    <3> QED
      BY <2>1, <3>1, CompletedType
  <2> QED
    BY <2>2, <2>3, <2>4
<1>3. \A u \in Threads : pc'[u] = "before" =>
        pc[u] = "before" /\ Mine(u)' = Mine(u)
  BY <1>1 DEF Write, Execute, Complete, Singles, Typed, Mine
<1> QED
  BY <1>1, <1>2, <1>3, OrderKept

LEMMA OrderedStep == SinglesInv /\ OrderedInv /\ [Next]_vars => OrderedInv'
<1> SUFFICES ASSUME SinglesInv, OrderedInv, [Next]_vars, ~batched'
             PROVE  Ordered'
  BY DEF OrderedInv
<1>1. Singles /\ Ordered
  <2>1. CASE UNCHANGED vars
    BY <2>1 DEF vars, SinglesInv, OrderedInv
  <2>2. CASE \E t \in Threads, n \in 1..MaxBatch :
               \E signals \in [1..n -> {NoSignal} \cup SignalValues] :
                  Submit(t, signals)
    BY <2>2 DEF Submit, SinglesInv, OrderedInv
  <2>3. CASE \E t \in Threads : ThreadStep(t)
    BY <2>3 DEF ThreadStep, Before, Write, After, AfterNull, AfterTimeout,
                SinglesInv, OrderedInv
  <2>4. CASE \E l \in Launches : GpuStep(l)
    BY <2>4 DEF GpuStep, Execute, Complete, SinglesInv, OrderedInv
  <2> QED
    BY <2>1, <2>2, <2>3, <2>4 DEF Next
<1>2. CASE UNCHANGED vars
  BY <1>1, <1>2 DEF vars, Ordered, CountLevel, Handled, SeenSettled, SeenOnce,
                    Mine
<1>3. ASSUME NEW t \in Threads, NEW n \in 1..MaxBatch,
             NEW signals \in [1..n -> {NoSignal} \cup SignalValues],
             Submit(t, signals)
      PROVE  Ordered'
  BY <1>1, <1>3, SubmitOrdered
<1>4. ASSUME NEW t \in Threads, ThreadStep(t) PROVE Ordered'
  <2>1. 1 \in Launches
    BY DispatchAssumption DEF Launches
  <2> QED
    BY <1>1, <1>4, <2>1, BeforeOrdered, OthersOrdered, AfterOrdered, NoAbort
    DEF ThreadStep
<1>5. ASSUME NEW l \in Launches, GpuStep(l) PROVE Ordered'
  <2>1. \E t \in Threads : TRUE
    BY <1>1, <1>5 DEF GpuStep, Execute, Complete, Singles, GpuOwned, OnGpu
  <2> QED
    BY <1>1, <1>5, <2>1, OthersOrdered DEF GpuStep
<1> QED
  BY <1>2, <1>3, <1>4, <1>5 DEF Next

(* A single dispatch is instrumented only if its place in the order of       *)
(* launches lies in the interval, and, unless the tool counts instrumented   *)
(* launches twice, exactly then.                                             *)
THEOREM IntervalAlwaysRespected == Spec => []IntervalRespected
<1>1. OrderedInv => IntervalRespected
  BY DEF OrderedInv, Ordered, SeenSettled, IntervalRespected
<1> QED
  BY <1>1, InitOrdered, OrderedStep, SinglesInvariant, PTL DEF Spec

=============================================================================

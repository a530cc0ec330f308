-------------------------- MODULE InterceptorProofs --------------------------
(***************************************************************************)
(* What holds of an API interceptor for any number of threads, ids and     *)
(* nested calls: type correctness, that every queue the application gets   *)
(* is an intercept queue, that a running callback is never replaced, and   *)
(* when an enabled id keeps its wrapper.                                   *)
(***************************************************************************)
EXTENDS Interceptor, TLAPS

(* Once the table is captured, hsa_queue_create never points to the real     *)
(* function again: every switch replaces it by the wrapper or by             *)
(* createInterceptQueue.                                                     *)
QueueCreateGuarded ==
    QueueCreate \in Ops /\ status # "waiting" => table[QueueCreate] # "real"

QueueInv == QueuesIntercepted /\ QueueCreateGuarded

(* An activation holds the installed callback from the moment its two locks  *)
(* are granted; the submission path then still has to read the enabled sets. *)
HasCallback(f) ==
    \/ f.pc \in {"before", "after"}
    \/ f.op = PacketSubmit /\ f.pc \in {"readUser", "readInternal"}

CallbackInv ==
    \A t \in Threads, d \in 1..MaxDepth :
        HasCallback(frames[t][d]) => frames[t][d].cb = userCb

-----------------------------------------------------------------------------
(* Records the model writes have the type of a frame or an operation.        *)
LEMMA NoFrameType == NoFrame \in Frame /\ NoToggle \in Toggle
<1>1. SomeCallback \in UserCallbacks
  BY InterceptorAssumption DEF SomeCallback
<1> QED
  BY <1>1 DEF NoFrame, NoToggle, Frame, Toggle, FramePc, TogglePc, Clients, AnyId

(* The top activation exists whenever the stack is not empty.                *)
LEMMA TopType ==
  ASSUME TypeOK, NEW t \in Threads, depth[t] > 0
  PROVE  /\ depth[t] \in 1..MaxDepth
         /\ Top(t) \in Frame
         /\ Top(t).op \in AnyId
         /\ Top(t).user \in BOOLEAN
<1>1. depth[t] \in 1..MaxDepth
  BY InterceptorAssumption DEF TypeOK
<1>2. Top(t) \in Frame
  BY <1>1 DEF TypeOK, Top
<1> QED
  BY <1>1, <1>2 DEF Frame

(* An activation keeps its type when a wrapper records what it read.         *)
LEMMA FrameFields ==
  ASSUME NEW f \in Frame, NEW b \in BOOLEAN, NEW pc \in FramePc
  PROVE  /\ [f EXCEPT !.user = b, !.pc = pc] \in Frame
         /\ [f EXCEPT !.internal = b, !.pc = pc] \in Frame
BY DEF Frame

(* Writing one activation of one thread keeps the stacks well typed.         *)
LEMMA FrameUpdate ==
  ASSUME TypeOK, NEW t \in Threads, NEW d \in 1..MaxDepth, NEW f \in Frame
  PROVE  [frames EXCEPT ![t][d] = f] \in [Threads -> [1..MaxDepth -> Frame]]
BY DEF TypeOK

LEMMA ApiIdsType == ApiIds \subseteq AnyId
BY DEF ApiIds, AnyId

-----------------------------------------------------------------------------
(* Every reachable state is well typed.                                      *)
THEOREM TypeCorrect == Spec => []TypeOK
<1>1. Init => TypeOK
  <2> SUFFICES ASSUME Init PROVE TypeOK
    OBVIOUS
  <2> QED
    BY NoFrameType, InterceptorAssumption
    DEF Init, TypeOK, Entry, Clients, AnyId
<1>2. TypeOK /\ [Next]_vars => TypeOK'
  <2> SUFFICES ASSUME TypeOK, [Next]_vars PROVE TypeOK'
    OBVIOUS
  <2> USE NoFrameType, ApiIdsType, InterceptorAssumption
  <2>1. ASSUME NEW chosen \in SUBSET ApiIds, CaptureApiTable(chosen)
        PROVE  TypeOK'
    BY <2>1 DEF TypeOK, CaptureApiTable, Unwrapped, Entry, Clients, AnyId
  <2>2. ASSUME NEW t \in Threads, NEW cb \in UserCallbacks,
               SetUserCallback(t, cb)
        PROVE  TypeOK'
    BY <2>2 DEF TypeOK, SetUserCallback
  <2>3. ASSUME NEW t \in Threads, FreezeRuntimeApiTable(t)
        PROVE  TypeOK'
    BY <2>3 DEF TypeOK, FreezeRuntimeApiTable
  <2>4. ASSUME NEW t \in Threads, NEW who \in Clients, NEW op \in ApiIds,
               BeginEnable(t, who, op)
        PROVE  TypeOK'
    BY <2>4 DEF TypeOK, BeginEnable, Races, ApiIds, Toggle, TogglePc
  <2>5. ASSUME NEW t \in Threads, NEW who \in Clients, NEW op \in ApiIds,
               BeginDisable(t, who, op)
        PROVE  TypeOK'
    BY <2>5 DEF TypeOK, BeginDisable, Races, ApiIds, Toggle, TogglePc
  <2>6. ASSUME NEW t \in Threads, ToggleStep(t)
        PROVE  TypeOK'
    <3> toggle[t] \in Toggle
      BY DEF TypeOK
    <3>1. CASE SwitchOn(t)
      BY <3>1 DEF TypeOK, SwitchOn, Toggle, TogglePc, Entry
    <3>2. CASE InsertOp(t)
      BY <3>2 DEF TypeOK, InsertOp, Toggle, TogglePc
    <3>3. CASE TestUninstall(t)
      BY <3>3 DEF TypeOK, TestUninstall, Toggle, TogglePc
    <3>4. CASE SwitchOff(t)
      BY <3>4 DEF TypeOK, SwitchOff, Unwrapped, Toggle, TogglePc, Entry
    <3> QED
      BY <2>6, <3>1, <3>2, <3>3, <3>4 DEF ToggleStep
  <2>7. ASSUME NEW t \in Threads, NEW op \in AnyId, NEW pc \in FramePc,
               Push(t, op, pc)
        PROVE  /\ depth' \in [Threads -> 0..MaxDepth]
               /\ frames' \in [Threads -> [1..MaxDepth -> Frame]]
    <3> DEFINE f == [NoFrame EXCEPT !.op = op, !.pc = pc]
    <3>1. f \in Frame
      BY DEF Frame
    <3>2. depth[t] + 1 \in 1..MaxDepth /\ depth[t] + 1 \in 0..MaxDepth
      BY <2>7 DEF Push, TypeOK
    <3>3. frames' \in [Threads -> [1..MaxDepth -> Frame]]
      BY <2>7, <3>1, <3>2 DEF Push, TypeOK
    <3> QED
      BY <2>7, <3>2, <3>3 DEF Push, TypeOK
  <2>8. ASSUME NEW t \in Threads, depth[t] > 0, Pop(t)
        PROVE  /\ depth' \in [Threads -> 0..MaxDepth]
               /\ frames' \in [Threads -> [1..MaxDepth -> Frame]]
    BY <2>8, TopType DEF Pop, TypeOK
  <2>9. ASSUME NEW t \in Threads, NEW op \in Ops, EnterWrapper(t, op)
        PROVE  TypeOK'
    BY <2>9, <2>7 DEF TypeOK, EnterWrapper, FramePc, AnyId
  <2>10. ASSUME NEW t \in Threads, EnterSubmit(t)
         PROVE  TypeOK'
    BY <2>10, <2>7 DEF TypeOK, EnterSubmit, FramePc, AnyId
  <2>11. ASSUME NEW t \in Threads, CallUnwrapped(t)
         PROVE  TypeOK'
    BY <2>11 DEF TypeOK, CallUnwrapped, Entry
  <2>12. ASSUME NEW t \in Threads, WrapperStep(t)
         PROVE  TypeOK'
    <3>0. depth[t] > 0
      BY <2>12 DEF WrapperStep, ReadUser, ReadInternal, LockUser, LockInternal
    <3>1. CASE ReadUser(t)
      <4> DEFINE f == [Top(t) EXCEPT !.user = Top(t).op \in enabled["user"],
                                     !.pc = "readInternal"]
      <4>1. f \in Frame
        <5> DEFINE b == Top(t).op \in enabled["user"]
        <5>1. b \in BOOLEAN /\ "readInternal" \in FramePc
          BY DEF FramePc
        <5> QED
          BY <3>0, <5>1, TopType, FrameFields
      <4>2. frames' = [frames EXCEPT ![t][depth[t]] = f]
        BY <3>1 DEF ReadUser, Top
      <4>3. frames' \in [Threads -> [1..MaxDepth -> Frame]]
        BY <3>0, <4>1, <4>2, TopType, FrameUpdate
      <4> QED
        BY <3>1, <4>3 DEF TypeOK, ReadUser
    <3>2. CASE ReadInternal(t)
      <4> DEFINE op == Top(t).op
                 internal == op \in enabled["internal"]
                 f == [Top(t) EXCEPT !.internal = internal,
                                     !.pc = IF op = PacketSubmit THEN "before"
                                            ELSE "lockUser"]
      <4>1. CASE Pop(t) /\ CreatesQueue(op)
        <5>1. queues' \subseteq {"real", "intercept"}
          BY <4>1 DEF CreatesQueue, TypeOK
        <5> QED
          BY <3>0, <3>2, <4>1, <2>8, <5>1 DEF TypeOK, ReadInternal
      <4>2. CASE /\ frames' = [frames EXCEPT ![t][depth[t]] = f]
                 /\ UNCHANGED <<depth, queues>>
        <5>1. f \in Frame
          <6>1. internal \in BOOLEAN /\ "before" \in FramePc
                                    /\ "lockUser" \in FramePc
            BY DEF FramePc
          <6> QED
            BY <3>0, <6>1, TopType, FrameFields
        <5>2. frames' \in [Threads -> [1..MaxDepth -> Frame]]
          BY <3>0, <4>2, <5>1, TopType, FrameUpdate
        <5> QED
          BY <3>2, <4>2, <5>2 DEF TypeOK, ReadInternal
      <4> QED
        BY <3>2, <4>1, <4>2 DEF ReadInternal, Top
    <3>3. CASE LockUser(t)
      <4> DEFINE f == [Top(t) EXCEPT !.pc = "lockInternal"]
      <4>1. f \in Frame
        BY <3>0, TopType DEF Frame, FramePc
      <4>2. frames' = [frames EXCEPT ![t][depth[t]] = f]
        BY <3>3 DEF LockUser, MoveTo, Top
      <4>3. frames' \in [Threads -> [1..MaxDepth -> Frame]]
        BY <3>0, <4>1, <4>2, TopType, FrameUpdate
      <4> QED
        BY <3>3, <4>3 DEF TypeOK, LockUser
    <3>4. CASE LockInternal(t)
      <4> DEFINE f == [Top(t) EXCEPT !.cb = userCb,
                                     !.pc = IF Top(t).op = PacketSubmit
                                            THEN "readUser" ELSE "before"]
      <4>1. f \in Frame
        BY <3>0, TopType DEF Frame, FramePc, TypeOK
      <4>2. frames' = [frames EXCEPT ![t][depth[t]] = f]
        BY <3>4 DEF LockInternal, Top
      <4>3. frames' \in [Threads -> [1..MaxDepth -> Frame]]
        BY <3>0, <4>1, <4>2, TopType, FrameUpdate
      <4> QED
        BY <3>4, <4>3 DEF TypeOK, LockInternal
    <3> QED
      BY <2>12, <3>1, <3>2, <3>3, <3>4 DEF WrapperStep
  <2>13. ASSUME NEW t \in Threads, CallReal(t)
         PROVE  TypeOK'
    <3> DEFINE f == [Top(t) EXCEPT !.pc = "after"]
    <3>1. depth[t] > 0 /\ f \in Frame
      BY <2>13, TopType DEF Frame, FramePc, CallReal
    <3>2. frames' = [frames EXCEPT ![t][depth[t]] = f]
      BY <2>13 DEF CallReal, MoveTo, Top
    <3>3. frames' \in [Threads -> [1..MaxDepth -> Frame]]
      BY <3>1, <3>2, TopType, FrameUpdate
    <3>4. queues' \subseteq {"real", "intercept"}
      BY <2>13 DEF CallReal, CreatesQueue, TypeOK
    <3> QED
      BY <2>13, <3>3, <3>4 DEF TypeOK, CallReal
  <2>14. ASSUME NEW t \in Threads, Return(t)
         PROVE  TypeOK'
    BY <2>14, <2>8 DEF TypeOK, Return
  <2>15. CASE UNCHANGED vars
    BY <2>15 DEF TypeOK, vars
  <2> QED
    BY <2>1, <2>2, <2>3, <2>4, <2>5, <2>6, <2>9, <2>10, <2>11, <2>12, <2>13,
       <2>14, <2>15 DEF Next
<1> QED
  BY <1>1, <1>2, PTL DEF Spec
-----------------------------------------------------------------------------
(* No dispatch bypasses Luthier: whatever ids are enabled or disabled, by    *)
(* however many threads at once, hsa_queue_create only ever makes intercept  *)
(* queues.                                                                   *)
THEOREM QueuesAlwaysIntercepted == Spec => []QueuesIntercepted
<1>1. Init => QueueInv
  BY DEF Init, QueueInv, QueuesIntercepted, QueueCreateGuarded
<1>2. TypeOK /\ QueueInv /\ [Next]_vars => QueueInv'
  <2> SUFFICES ASSUME TypeOK, QueueInv, [Next]_vars PROVE QueueInv'
    OBVIOUS
  <2> USE DEF QueueInv, QueuesIntercepted, QueueCreateGuarded
  <2>1. ASSUME NEW chosen \in SUBSET ApiIds, CaptureApiTable(chosen)
        PROVE  QueueInv'
    BY <2>1 DEF CaptureApiTable, Unwrapped
  <2>2. ASSUME NEW t \in Threads, ToggleStep(t)
        PROVE  QueueInv'
    BY <2>2 DEF ToggleStep, SwitchOn, InsertOp, TestUninstall, SwitchOff,
                Unwrapped, TypeOK
  <2>3. ASSUME NEW t \in Threads, CallUnwrapped(t)
        PROVE  QueueInv'
    BY <2>3 DEF CallUnwrapped, MayCall
  <2>4. ASSUME NEW t \in Threads, WrapperStep(t)
        PROVE  QueueInv'
    BY <2>4 DEF WrapperStep, ReadUser, ReadInternal, LockUser, LockInternal,
                CreatesQueue
  <2>5. ASSUME NEW t \in Threads, NEW op \in Ops, EnterWrapper(t, op)
        PROVE  QueueInv'
    BY <2>5 DEF EnterWrapper, MayCall
  <2>6. ASSUME NEW t \in Threads, EnterSubmit(t)
        PROVE  QueueInv'
    BY <2>6 DEF EnterSubmit, MayCall
  <2>7. ASSUME NEW t \in Threads, CallReal(t) \/ Return(t)
        PROVE  QueueInv'
    BY <2>7 DEF CallReal, Return, CreatesQueue
  <2>8. ASSUME NEW t \in Threads,
               \/ \E cb \in UserCallbacks : SetUserCallback(t, cb)
               \/ FreezeRuntimeApiTable(t)
               \/ \E who \in Clients, op \in ApiIds :
                     BeginEnable(t, who, op) \/ BeginDisable(t, who, op)
        PROVE  QueueInv'
    BY <2>8 DEF SetUserCallback, FreezeRuntimeApiTable, BeginEnable, BeginDisable
  <2>9. CASE UNCHANGED vars
    BY <2>9 DEF vars
  <2> QED
    BY <2>1, <2>2, <2>3, <2>4, <2>5, <2>6, <2>7, <2>8, <2>9 DEF Next
<1>3. QueueInv => QueuesIntercepted
  BY DEF QueueInv
<1> QED
  BY <1>1, <1>2, <1>3, TypeCorrect, PTL DEF Spec

-----------------------------------------------------------------------------
(* A step that leaves userCb alone and writes one activation keeps the       *)
(* invariant if that activation does.                                        *)
LEMMA CallbackUpdate ==
  ASSUME TypeOK, CallbackInv, UNCHANGED userCb,
         NEW t \in Threads, NEW d \in 1..MaxDepth, NEW f,
         frames' = [frames EXCEPT ![t][d] = f],
         HasCallback(f) => f.cb = userCb
  PROVE  CallbackInv'
<1> SUFFICES ASSUME NEW u \in Threads, NEW e \in 1..MaxDepth,
                    HasCallback(frames'[u][e])
             PROVE  frames'[u][e].cb = userCb
  BY DEF CallbackInv, HasCallback
<1>1. CASE u = t
  <2>1. frames'[t] = [frames[t] EXCEPT ![d] = f]
    BY DEF TypeOK
  <2>2. frames[t] \in [1..MaxDepth -> Frame]
    BY DEF TypeOK
  <2> QED
    BY <1>1, <2>1, <2>2 DEF CallbackInv
<1>2. CASE u # t
  BY <1>2 DEF TypeOK, CallbackInv
<1> QED
  BY <1>1, <1>2

(* setUserCallback never replaces the callback under an activation that is   *)
(* running it: BEFORE and AFTER of one call go to the same object.           *)
THEOREM CallbackAlwaysStable == Spec => []CallbackStable
<1>1. Init => CallbackInv
  BY DEF Init, CallbackInv, HasCallback, NoFrame
<1>2. TypeOK /\ CallbackInv /\ [Next]_vars => CallbackInv'
  <2> SUFFICES ASSUME TypeOK, CallbackInv, [Next]_vars PROVE CallbackInv'
    OBVIOUS
  <2>1. ASSUME NEW t \in Threads, NEW cb \in UserCallbacks,
               SetUserCallback(t, cb)
        PROVE  CallbackInv'
    <3> SUFFICES ASSUME NEW u \in Threads, NEW d \in 1..MaxDepth
                 PROVE  ~HasCallback(frames'[u][d])
      BY DEF CallbackInv, HasCallback
    <3>1. ~HoldsCallbackMutex(u, d)
      <4>1. <<u, d>> \in Activations
        BY DEF Activations
      <4> QED
        BY <2>1, <4>1 DEF SetUserCallback
    <3> QED
      BY <2>1, <3>1 DEF SetUserCallback, HoldsCallbackMutex, HasCallback
  <2>2. ASSUME NEW t \in Threads, NEW op \in AnyId, NEW pc \in FramePc,
               Push(t, op, pc), pc \in {"readUser", "lockUser"},
               pc = "readUser" => op # PacketSubmit, UNCHANGED userCb
        PROVE  CallbackInv'
    <3> DEFINE f == [NoFrame EXCEPT !.op = op, !.pc = pc]
    <3>1. ~HasCallback(f)
      BY <2>2 DEF HasCallback, NoFrame
    <3>2. depth[t] + 1 \in 1..MaxDepth
      BY <2>2, InterceptorAssumption DEF Push, TypeOK
    <3>3. frames' = [frames EXCEPT ![t][depth[t] + 1] = f]
      BY <2>2 DEF Push
    <3> HIDE DEF f
    <3> QED
      BY <2>2, <3>1, <3>2, <3>3, CallbackUpdate
  <2>3. ASSUME NEW t \in Threads, depth[t] > 0, Pop(t), UNCHANGED userCb
        PROVE  CallbackInv'
    <3>1. ~HasCallback(NoFrame)
      BY DEF HasCallback, NoFrame
    <3> QED
      BY <2>3, <3>1, TopType, CallbackUpdate DEF Pop
  <2>4. ASSUME NEW t \in Threads, NEW op \in Ops, EnterWrapper(t, op)
        PROVE  CallbackInv'
    BY <2>4, <2>2, InterceptorAssumption DEF EnterWrapper, FramePc, AnyId
  <2>5. ASSUME NEW t \in Threads, EnterSubmit(t)
        PROVE  CallbackInv'
    BY <2>5, <2>2 DEF EnterSubmit, FramePc, AnyId
  <2>6. ASSUME NEW t \in Threads, WrapperStep(t)
        PROVE  CallbackInv'
    <3>0. /\ depth[t] > 0 /\ UNCHANGED userCb
          /\ HasCallback(Top(t)) => Top(t).cb = userCb
      BY <2>6, TopType DEF WrapperStep, ReadUser, ReadInternal, LockUser,
         LockInternal, CallbackInv, Top
    <3>1. CASE ReadUser(t)
      <4> DEFINE f == [Top(t) EXCEPT !.user = Top(t).op \in enabled["user"],
                                     !.pc = "readInternal"]
      <4>1. HasCallback(f) => f.cb = userCb
        BY <3>0, <3>1, TopType DEF HasCallback, Frame, ReadUser
      <4>2. frames' = [frames EXCEPT ![t][depth[t]] = f]
        BY <3>1 DEF ReadUser, Top
      <4> HIDE DEF f
      <4> QED
        BY <3>0, <4>1, <4>2, TopType, CallbackUpdate
    <3>2. CASE ReadInternal(t)
      <4> DEFINE op == Top(t).op
                 internal == op \in enabled["internal"]
                 f == [Top(t) EXCEPT !.internal = internal,
                                     !.pc = IF op = PacketSubmit THEN "before"
                                            ELSE "lockUser"]
      <4>1. CASE Pop(t)
        BY <3>0, <4>1, <2>3
      <4>2. CASE frames' = [frames EXCEPT ![t][depth[t]] = f]
        <5>1. HasCallback(f) => f.cb = userCb
          BY <3>0, <3>2, TopType DEF HasCallback, Frame, ReadInternal
        <5> HIDE DEF f
        <5> QED
          BY <3>0, <4>2, <5>1, TopType, CallbackUpdate
      <4> QED
        BY <3>2, <4>1, <4>2 DEF ReadInternal, Top
    <3>3. CASE LockUser(t)
      <4> DEFINE f == [Top(t) EXCEPT !.pc = "lockInternal"]
      <4>1. ~HasCallback(f)
        BY <3>0, TopType DEF HasCallback, Frame
      <4>2. frames' = [frames EXCEPT ![t][depth[t]] = f]
        BY <3>3 DEF LockUser, MoveTo, Top
      <4> HIDE DEF f
      <4> QED
        BY <3>0, <4>1, <4>2, TopType, CallbackUpdate
    <3>4. CASE LockInternal(t)
      <4> DEFINE f == [Top(t) EXCEPT !.cb = userCb,
                                     !.pc = IF Top(t).op = PacketSubmit
                                            THEN "readUser" ELSE "before"]
      <4>1. f.cb = userCb
        BY <3>0, TopType DEF Frame
      <4>2. frames' = [frames EXCEPT ![t][depth[t]] = f]
        BY <3>4 DEF LockInternal, Top
      <4> HIDE DEF f
      <4> QED
        BY <3>0, <4>1, <4>2, TopType, CallbackUpdate
    <3> QED
      BY <2>6, <3>1, <3>2, <3>3, <3>4 DEF WrapperStep
  <2>7. ASSUME NEW t \in Threads, CallReal(t)
        PROVE  CallbackInv'
    <3> DEFINE f == [Top(t) EXCEPT !.pc = "after"]
    <3>1. HasCallback(Top(t)) => Top(t).cb = userCb
      BY <2>7, TopType DEF CallReal, CallbackInv, Top
    <3>2. f.cb = userCb
      BY <2>7, <3>1, TopType DEF CallReal, HasCallback, Frame
    <3>3. frames' = [frames EXCEPT ![t][depth[t]] = f]
      BY <2>7 DEF CallReal, MoveTo, Top
    <3> HIDE DEF f
    <3> QED
      BY <2>7, <3>2, <3>3, TopType, CallbackUpdate DEF CallReal
  <2>8. ASSUME NEW t \in Threads, Return(t)
        PROVE  CallbackInv'
    BY <2>8, <2>3 DEF Return
  <2>9. CASE UNCHANGED <<userCb, frames>>
    BY <2>9 DEF CallbackInv, HasCallback
  <2>10. ASSUME NEW chosen \in SUBSET ApiIds, CaptureApiTable(chosen)
         PROVE  UNCHANGED <<userCb, frames>>
    BY <2>10 DEF CaptureApiTable
  <2>11. ASSUME NEW t \in Threads,
                \/ FreezeRuntimeApiTable(t) \/ ToggleStep(t) \/ CallUnwrapped(t)
                \/ \E who \in Clients, op \in ApiIds :
                      BeginEnable(t, who, op) \/ BeginDisable(t, who, op)
         PROVE  UNCHANGED <<userCb, frames>>
    BY <2>11 DEF FreezeRuntimeApiTable, ToggleStep, SwitchOn, InsertOp,
       TestUninstall, SwitchOff, CallUnwrapped, BeginEnable, BeginDisable
  <2>12. CASE UNCHANGED vars
    BY <2>12, <2>9 DEF vars
  <2> QED
    BY <2>1, <2>4, <2>5, <2>6, <2>7, <2>8, <2>9, <2>10, <2>11, <2>12 DEF Next
<1>3. CallbackInv => CallbackStable
  BY DEF CallbackInv, CallbackStable, HasCallback, Activations
<1> QED
  BY <1>1, <1>2, <1>3, TypeCorrect, PTL DEF Spec
-----------------------------------------------------------------------------
(* The client whose set the generated disable operations look at before they *)
(* take a wrapper out: the tool in the HSA operations, Luthier itself in the *)
(* HIP operations.                                                           *)
Watched == IF Library = "hsa" THEN "user" ELSE "internal"

Toggling(t, op) == toggle[t].pc # "idle" /\ toggle[t].op = op

(* Two threads in operations on one id are a race that is on record.         *)
RacesKnown ==
    \A t, u \in Threads : \A op \in AnyId :
        Toggling(t, op) /\ Toggling(u, op) => t = u \/ op \in raced

(* Until the table is captured no operation runs.                            *)
QuietBefore ==
    status = "waiting" => \A t \in Threads : toggle[t].pc = "idle"

(* An id no two threads operated on at once: it is dispatched through its    *)
(* wrapper if it is enabled for the watched client or about to be enabled,   *)
(* and an operation about to take the wrapper out has found it disabled.     *)
WrapperKept(op) ==
    /\ op \in enabled[Watched] => table[op] = "wrapper"
    /\ \A t \in Threads : Toggling(t, op) =>
          /\ toggle[t].pc = "insert" => table[op] = "wrapper"
          /\ toggle[t].pc = "switchOff" => op \notin enabled[Watched]

WrapperInv ==
    RacesKnown /\ QuietBefore /\ \A op \in Ops \ raced : WrapperKept(op)

(* A wrapper is taken out only of an id the watched client has not enabled.  *)
LEMMA WatchedClient ==
  /\ Watched \in Clients
  /\ \A op \in Ops : Uninstalls(op) => op \notin enabled[Watched]
BY InterceptorAssumption
DEF Watched, Clients, Uninstalls, HsaUninstalls, HipUninstalls

(* The steps that leave the table, the sets and the operations alone keep    *)
(* the invariant, and so do those that end an operation.                     *)
LEMMA WrapperUntouched ==
  ASSUME WrapperInv, UNCHANGED <<table, enabled, toggle, raced>>,
         status' = "waiting" => status = "waiting"
  PROVE  WrapperInv'
BY DEF WrapperInv, RacesKnown, QuietBefore, WrapperKept, Toggling

(* An operation that starts on an id puts the overlap, if any, on record.    *)
LEMMA WrapperBegin ==
  ASSUME TypeOK, WrapperInv, NEW t \in Threads, NEW who \in Clients,
         NEW op \in AnyId, BeginEnable(t, who, op) \/ BeginDisable(t, who, op)
  PROVE  WrapperInv'
<1>1. /\ status' = status /\ status # "waiting" /\ table' = table
      /\ toggle[t].pc = "idle" /\ Races(t, op)
      /\ \A u \in Threads \ {t} : toggle'[u] = toggle[u]
      /\ toggle'[t].op = op
      /\ toggle'[t].pc \in {"switchOn", "insert", "test"}
      /\ toggle'[t].pc = "insert" => op \notin Ops \/ table[op] = "wrapper"
      /\ \A o \in AnyId : o \in enabled'[Watched] => o \in enabled[Watched]
  BY InterceptorAssumption
  DEF BeginEnable, BeginDisable, ToolMayRun, TypeOK, Watched, Clients
<1>2. raced \subseteq raced'
  BY <1>1 DEF Races
<1>3. \A u \in Threads \ {t} : \A o \in AnyId : Toggling(u, o)' <=> Toggling(u, o)
  BY <1>1 DEF Toggling
<1>4. \A o \in AnyId : Toggling(t, o)' => o = op
  BY <1>1 DEF Toggling
<1>5. RacesKnown'
  <2> SUFFICES ASSUME NEW u \in Threads, NEW v \in Threads, NEW o \in AnyId,
                      Toggling(u, o)', Toggling(v, o)', u # v
               PROVE  o \in raced'
    BY DEF RacesKnown
  <2>1. CASE u # t /\ v # t
    BY <1>2, <1>3, <2>1 DEF WrapperInv, RacesKnown
  <2>2. CASE u = t \/ v = t
    <3>1. o = op /\ \E w \in Threads \ {t} : Toggling(w, op)
      BY <1>3, <1>4, <2>2
    <3> QED
      BY <1>1, <3>1 DEF Races, Toggling
  <2> QED
    BY <2>1, <2>2
<1>6. QuietBefore'
  BY <1>1 DEF QuietBefore
<1>7. ASSUME NEW o \in Ops \ raced' PROVE WrapperKept(o)'
  <2>1. WrapperKept(o) /\ o \in AnyId
    BY <1>2, <1>7 DEF WrapperInv, AnyId
  <2>2. o \in enabled'[Watched] => table'[o] = "wrapper"
    BY <1>1, <2>1 DEF WrapperKept
  <2>3. ASSUME NEW u \in Threads, Toggling(u, o)'
        PROVE  /\ toggle'[u].pc = "insert" => table'[o] = "wrapper"
               /\ toggle'[u].pc = "switchOff" => o \notin enabled'[Watched]
    BY <1>1, <1>3, <1>4, <2>1, <2>3 DEF WrapperKept
  <2> QED
    BY <2>2, <2>3 DEF WrapperKept, Toggling
<1> QED
  BY <1>5, <1>6, <1>7 DEF WrapperInv

(* A step of an operation changes the entry and the set of its own id only.  *)
LEMMA WrapperToggle ==
  ASSUME TypeOK, WrapperInv, NEW t \in Threads, ToggleStep(t)
  PROVE  WrapperInv'
<1>0. PICK op \in AnyId : op = toggle[t].op
  BY DEF TypeOK, Toggle
<1>1. /\ op \in AnyId /\ toggle[t].pc # "idle" /\ Toggling(t, op)
      /\ status' = status /\ raced' = raced
      /\ \A u \in Threads \ {t} : toggle'[u] = toggle[u]
      /\ toggle'[t].pc # "idle" => toggle'[t].op = op
  BY <1>0 DEF ToggleStep, SwitchOn, InsertOp, TestUninstall, SwitchOff, TypeOK,
              Toggle, Toggling, NoToggle
<1>2. \A u \in Threads, o \in AnyId : Toggling(u, o)' => Toggling(u, o)
  BY <1>1 DEF Toggling
<1>3. RacesKnown' /\ QuietBefore'
  BY <1>1, <1>2 DEF WrapperInv, RacesKnown, QuietBefore
<1>4. /\ \A o \in Ops \ {op} : table'[o] = table[o]
      /\ \A o \in AnyId \ {op} :
            o \in enabled'[Watched] <=> o \in enabled[Watched]
  BY <1>0, WatchedClient, ZenonT(30)
  DEF ToggleStep, SwitchOn, InsertOp, TestUninstall, SwitchOff, TypeOK
<1>5. ASSUME NEW o \in Ops \ raced', o # op PROVE WrapperKept(o)'
  <2>1. WrapperKept(o) /\ o \in AnyId
    BY <1>1, <1>5 DEF WrapperInv, AnyId
  <2>2. \A u \in Threads : Toggling(u, o)' => u # t
    BY <1>1, <1>5 DEF Toggling
  <2> QED
    BY <1>1, <1>2, <1>4, <1>5, <2>1, <2>2 DEF WrapperKept
<1>6. ASSUME op \in Ops \ raced' PROVE WrapperKept(op)'
  <2>1. WrapperKept(op)
    BY <1>1, <1>6 DEF WrapperInv
  <2>2. \A u \in Threads : Toggling(u, op)' => u = t
    BY <1>1, <1>2, <1>6 DEF WrapperInv, RacesKnown
  <2>3. /\ op \in enabled'[Watched] => table'[op] = "wrapper"
        /\ toggle'[t].pc = "insert" => table'[op] = "wrapper"
        /\ toggle'[t].pc = "switchOff" => op \notin enabled'[Watched]
    <3>1. CASE SwitchOn(t)
      BY <1>6, <2>1, <3>1, <1>0 DEF SwitchOn, TypeOK
    <3>2. CASE InsertOp(t)
      BY <1>0, <1>1, <1>6, <2>1, <3>2, WatchedClient
      DEF InsertOp, TypeOK, WrapperKept, NoToggle
    <3>3. CASE TestUninstall(t)
      BY <1>0, <1>1, <1>6, <2>1, <3>3, WatchedClient
      DEF TestUninstall, TypeOK, WrapperKept, NoToggle, Toggle
    <3>4. CASE SwitchOff(t)
      BY <1>0, <1>1, <1>6, <2>1, <3>4 DEF SwitchOff, TypeOK, WrapperKept, NoToggle
    <3> QED
      BY <3>1, <3>2, <3>3, <3>4 DEF ToggleStep
  <2> QED
    BY <2>2, <2>3 DEF WrapperKept
<1> QED
  BY <1>3, <1>5, <1>6 DEF WrapperInv

(* The invariant holds in every reachable state of either interceptor.       *)
THEOREM WrappersKept == Spec => []WrapperInv
<1>1. Init => WrapperInv
  BY InterceptorAssumption
  DEF Init, WrapperInv, RacesKnown, QuietBefore, WrapperKept, Toggling,
      NoToggle, Watched, Clients
<1>2. TypeOK /\ WrapperInv /\ [Next]_vars => WrapperInv'
  <2> SUFFICES ASSUME TypeOK, WrapperInv, [Next]_vars PROVE WrapperInv'
    OBVIOUS
  <2>1. ASSUME NEW chosen \in SUBSET ApiIds, CaptureApiTable(chosen)
        PROVE  WrapperInv'
    <3>1. \A t \in Threads : toggle'[t].pc = "idle"
      BY <2>1 DEF CaptureApiTable, WrapperInv, QuietBefore
    <3>2. \A op \in Ops : op \in enabled'[Watched] => table'[op] = "wrapper"
      BY <2>1, WatchedClient DEF CaptureApiTable, Clients, Watched
    <3> QED
      BY <3>1, <3>2
      DEF WrapperInv, RacesKnown, QuietBefore, WrapperKept, Toggling
  <2>2. ASSUME NEW t \in Threads,
               \E who \in Clients, op \in ApiIds :
                  BeginEnable(t, who, op) \/ BeginDisable(t, who, op)
        PROVE  WrapperInv'
    BY <2>2, WrapperBegin, ApiIdsType
  <2>3. ASSUME NEW t \in Threads, ToggleStep(t) PROVE WrapperInv'
    BY <2>3, WrapperToggle
  <2>4. ASSUME NEW t \in Threads,
               \/ \E cb \in UserCallbacks : SetUserCallback(t, cb)
               \/ FreezeRuntimeApiTable(t) \/ EnterSubmit(t)
               \/ \E op \in Ops : EnterWrapper(t, op)
               \/ CallUnwrapped(t) \/ WrapperStep(t)
               \/ CallReal(t) \/ Return(t)
        PROVE  WrapperInv'
    <3>1. /\ UNCHANGED <<table, enabled, toggle, raced>>
          /\ status' \in {status, "frozen"}
      BY <2>4 DEF SetUserCallback, FreezeRuntimeApiTable, EnterSubmit,
         EnterWrapper, CallUnwrapped, WrapperStep, ReadUser, ReadInternal,
         LockUser, LockInternal, CallReal, Return
    <3> QED
      BY <3>1, WrapperUntouched
  <2>5. CASE UNCHANGED vars
    BY <2>5, WrapperUntouched DEF vars
  <2> QED
    BY <2>1, <2>2, <2>3, <2>4, <2>5 DEF Next
<1> QED
  BY <1>1, <1>2, TypeCorrect, PTL DEF Spec

(* The HSA interceptor never loses a callback enableUserCallback granted:    *)
(* whatever any number of threads enable and disable, an id the tool has     *)
(* enabled keeps its wrapper unless operations on that very id overlapped.   *)
THEOREM UserOpsAlwaysWrapped ==
  Library = "hsa" => (Spec => []UserOpsWrapped)
<1> SUFFICES ASSUME Library = "hsa" PROVE Spec => []UserOpsWrapped
  OBVIOUS
<1>1. WrapperInv => UserOpsWrapped
  BY DEF WrapperInv, WrapperKept, Watched, UserOpsWrapped
<1> QED
  BY <1>1, WrappersKept, PTL

-----------------------------------------------------------------------------
(* One thread operates on the interceptor: no operations overlap, and the    *)
(* table is frozen only between operations, or by a call made in a callback  *)
(* that is not in one.                                                       *)
OneThread == \A t, u \in Threads : t = u

FrozenBetween ==
    /\ raced = {}
    /\ status = "frozen" =>
          \A t \in Threads : toggle[t].pc \notin {"switchOn", "switchOff"}

(* With one thread nothing races, and once the HIP table is frozen no        *)
(* operation is on its way to change it.                                     *)
THEOREM HipFrozenBetween ==
  Library = "hip" /\ OneThread => (Spec => []FrozenBetween)
<1> SUFFICES ASSUME Library = "hip", OneThread PROVE Spec => []FrozenBetween
  OBVIOUS
<1>1. Init => FrozenBetween
  BY DEF Init, FrozenBetween
<1>2. TypeOK /\ FrozenBetween /\ [Next]_vars => FrozenBetween'
  <2> SUFFICES ASSUME TypeOK, FrozenBetween, [Next]_vars
               PROVE  FrozenBetween'
    OBVIOUS
  <2>1. ASSUME NEW t \in Threads, toggle[t].pc = "idle", UNCHANGED raced,
               UNCHANGED toggle
        PROVE  FrozenBetween'
    BY <2>1 DEF FrozenBetween, OneThread
  <2>2. ASSUME NEW t \in Threads, NEW who \in Clients, NEW op \in ApiIds,
               BeginEnable(t, who, op) \/ BeginDisable(t, who, op)
        PROVE  FrozenBetween'
    <3>1. raced' = {}
      BY <2>2 DEF BeginEnable, BeginDisable, Races, FrozenBetween, OneThread
    <3>2. /\ status' = status
          /\ toggle'[t].pc = "switchOn" => status # "frozen"
          /\ toggle'[t].pc # "switchOff"
      BY <2>2 DEF BeginEnable, BeginDisable, TypeOK
    <3> QED
      BY <3>1, <3>2 DEF FrozenBetween, OneThread
  <2>3. ASSUME NEW t \in Threads, ToggleStep(t) PROVE FrozenBetween'
    <3>1. raced' = raced /\ status' = status
      BY <2>3 DEF ToggleStep, SwitchOn, InsertOp, TestUninstall, SwitchOff
    <3>2. status = "frozen" => toggle'[t].pc \notin {"switchOn", "switchOff"}
      BY <2>3 DEF ToggleStep, SwitchOn, InsertOp, TestUninstall, SwitchOff,
         Uninstalls, HipUninstalls, NoToggle, TypeOK, FrozenBetween
    <3> QED
      BY <3>1, <3>2 DEF FrozenBetween, OneThread
  <2>4. ASSUME NEW t \in Threads,
               \/ \E cb \in UserCallbacks : SetUserCallback(t, cb)
               \/ FreezeRuntimeApiTable(t) \/ EnterSubmit(t)
               \/ \E op \in Ops : EnterWrapper(t, op)
               \/ CallUnwrapped(t)
        PROVE  FrozenBetween'
    BY <2>1, <2>4 DEF SetUserCallback, FreezeRuntimeApiTable, EnterSubmit,
       EnterWrapper, CallUnwrapped, MayCall, ToolMayRun
  <2>5. CASE UNCHANGED <<status, toggle, raced>>
    BY <2>5 DEF FrozenBetween
  <2>6. ASSUME NEW t \in Threads, WrapperStep(t) \/ CallReal(t) \/ Return(t)
        PROVE  UNCHANGED <<status, toggle, raced>>
    BY <2>6 DEF WrapperStep, ReadUser, ReadInternal, LockUser, LockInternal,
       CallReal, Return
  <2>7. ASSUME NEW chosen \in SUBSET ApiIds, CaptureApiTable(chosen)
        PROVE  FrozenBetween'
    BY <2>7 DEF CaptureApiTable, FrozenBetween
  <2>8. CASE UNCHANGED vars
    BY <2>5, <2>8 DEF vars
  <2> QED
    BY <2>2, <2>3, <2>4, <2>5, <2>6, <2>7, <2>8 DEF Next
<1> QED
  BY <1>1, <1>2, TypeCorrect, PTL DEF Spec

(* The ids Luthier depends on keep their wrappers in the HIP table, however  *)
(* one thread and its callbacks toggle them.                                 *)
THEOREM InternalOpsAlwaysWrapped ==
  Library = "hip" /\ OneThread => (Spec => []InternalOpsWrapped)
<1> SUFFICES ASSUME Library = "hip", OneThread
             PROVE  Spec => []InternalOpsWrapped
  OBVIOUS
<1>1. WrapperInv /\ FrozenBetween => InternalOpsWrapped
  BY DEF WrapperInv, WrapperKept, Watched, FrozenBetween, InternalOpsWrapped
<1> QED
  BY <1>1, WrappersKept, HipFrozenBetween, PTL

(* And after the freeze one thread's operations never change the HIP table.  *)
THEOREM FrozenTableAlwaysFixed ==
  Library = "hip" /\ OneThread => (Spec => FrozenTableFixed)
<1> SUFFICES ASSUME Library = "hip", OneThread PROVE Spec => FrozenTableFixed
  OBVIOUS
<1>1. ASSUME FrozenBetween, [Next]_vars, status = "frozen"
      PROVE  table' = table
  <2>1. ASSUME NEW t \in Threads, ToggleStep(t) PROVE table' = table
    BY <1>1, <2>1 DEF ToggleStep, SwitchOn, InsertOp, TestUninstall, SwitchOff,
       FrozenBetween
  <2>2. ASSUME NEW t \in Threads, NEW who \in Clients, NEW op \in ApiIds,
               BeginEnable(t, who, op) \/ BeginDisable(t, who, op)
        PROVE  table' = table
    BY <2>2 DEF BeginEnable, BeginDisable
  <2>3. ASSUME NEW t \in Threads,
               \/ \E cb \in UserCallbacks : SetUserCallback(t, cb)
               \/ FreezeRuntimeApiTable(t) \/ EnterSubmit(t)
               \/ \E op \in Ops : EnterWrapper(t, op)
               \/ CallUnwrapped(t) \/ WrapperStep(t)
               \/ CallReal(t) \/ Return(t)
        PROVE  table' = table
    BY <2>3 DEF SetUserCallback, FreezeRuntimeApiTable, EnterSubmit,
       EnterWrapper, CallUnwrapped, WrapperStep, ReadUser, ReadInternal,
       LockUser, LockInternal, CallReal, Return
  <2>4. ASSUME NEW chosen \in SUBSET ApiIds, CaptureApiTable(chosen)
        PROVE  table' = table
    BY <1>1, <2>4 DEF CaptureApiTable
  <2>5. CASE UNCHANGED vars
    BY <2>5 DEF vars
  <2> QED
    BY <1>1, <2>1, <2>2, <2>3, <2>4, <2>5 DEF Next
<1>2. FrozenBetween /\ [Next]_vars => [status = "frozen" => table' = table]_vars
  BY <1>1
<1> QED
  BY <1>2, HipFrozenBetween, PTL DEF Spec, FrozenTableFixed
=============================================================================

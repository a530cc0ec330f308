------------------------------ MODULE Interceptor ------------------------------
(***************************************************************************)
(* One ROCm API interceptor of Luthier: the table of function pointers the *)
(* intercepted runtime dispatches through, the sets of API ids the tool    *)
(* and Luthier itself want callbacks for, the generated wrapper functions  *)
(* and the enable/disable operations (ROCmLibraryApiInterceptor.hpp and    *)
(* the code written by hsa_intercept_gen.py and hip_intercept_gen.py).     *)
(*                                                                         *)
(* Several threads run at once.  A thread that is in no wrapper, or that   *)
(* is inside a callback, may call an enable or disable operation; those    *)
(* take no lock, so each of their reads and writes is a step.  A callback  *)
(* may call the intercepted runtime again: frames[t] is thread t's stack   *)
(* of wrapper activations and depth[t] its height.                         *)
(***************************************************************************)
EXTENDS Naturals

CONSTANTS
    Library,        \* "hsa" or "hip": which generator wrote the operations
    Threads,        \* host threads of the target application
    Ops,            \* API functions in the table
    PacketSubmit,   \* HSA_API_EVT_ID_hsa_queue_packet_submit: not in the table
    QueueCreate,    \* hsa_queue_create; not a member of Ops for HIP
    InternalOps,    \* the ids Controller.cpp enables internal callbacks for
    UserCallbacks,  \* callback objects the tool may install
    MaxDepth        \* bound: nesting of wrapper activations in one thread

(* Only the HSA enumeration has an id for packet submission.                 *)
AnyId == Ops \cup {PacketSubmit}
ApiIds == IF Library = "hsa" THEN AnyId ELSE Ops
Clients == {"user", "internal"}

ASSUME InterceptorAssumption ==
    /\ Library \in {"hsa", "hip"}
    /\ PacketSubmit \notin Ops
    /\ QueueCreate # PacketSubmit
    /\ Library = "hip" => QueueCreate \notin Ops
    /\ InternalOps \subseteq Ops
    /\ UserCallbacks # {}
    /\ MaxDepth \in Nat \ {0}

VARIABLES
    status,      \* InterceptorStatus
    table,       \* what each entry of RuntimeApiTable points to
    enabled,     \* EnabledUserOps and EnabledInternalOps
    userCb,      \* UserCallback
    toggle,      \* per thread: the enable or disable operation it is inside
    depth,       \* per thread: wrapper activations on its stack
    frames,      \* per thread: those activations
    queues,      \* kinds of queues the application has been given
    raced        \* history: ids two threads operated on at once

vars == <<status, table, enabled, userCb, toggle, depth, frames, queues,
          raced>>

-----------------------------------------------------------------------------
(* "real" is the runtime's own function, "wrapper" the generated wrapper and *)
(* "intercept" createInterceptQueue, which only hsa_queue_create may get.    *)
Entry == {"real", "wrapper", "intercept"}

(* Where a wrapper activation stands.  A generated API wrapper reads both    *)
(* enabled sets and then takes two shared locks of CallbackMutex; the queue  *)
(* write interceptor locks first.  "before" and "after" are the windows in   *)
(* which the callbacks of that phase run.                                    *)
FramePc == {"none", "readUser", "readInternal", "lockUser", "lockInternal",
            "before", "after"}

(* cb is the callback object the activation will run, the one installed when *)
(* it came out of getInternalCallback; meaningless earlier.                  *)
Frame == [op : AnyId, user : BOOLEAN, internal : BOOLEAN,
          cb : UserCallbacks, pc : FramePc]

TogglePc == {"idle", "switchOn", "insert", "test", "switchOff"}
Toggle == [who : Clients, op : AnyId, pc : TogglePc]

TypeOK ==
    /\ status \in {"waiting", "captured", "frozen"}
    /\ table \in [Ops -> Entry]
    /\ enabled \in [Clients -> SUBSET AnyId]
    /\ userCb \in UserCallbacks
    /\ toggle \in [Threads -> Toggle]
    /\ depth \in [Threads -> 0..MaxDepth]
    /\ frames \in [Threads -> [1..MaxDepth -> Frame]]
    /\ queues \subseteq {"real", "intercept"}
    /\ raced \subseteq AnyId

SomeCallback == CHOOSE c \in UserCallbacks : TRUE
NoFrame == [op |-> PacketSubmit, user |-> FALSE, internal |-> FALSE,
            cb |-> SomeCallback, pc |-> "none"]
NoToggle == [who |-> "user", op |-> PacketSubmit, pc |-> "idle"]

Init ==
    /\ status = "waiting"
    /\ table = [op \in Ops |-> "real"]
    /\ enabled = [w \in Clients |-> {}]
    /\ userCb \in UserCallbacks
    /\ toggle = [t \in Threads |-> NoToggle]
    /\ depth = [t \in Threads |-> 0]
    /\ frames = [t \in Threads |-> [d \in 1..MaxDepth |-> NoFrame]]
    /\ queues = {} /\ raced = {}

-----------------------------------------------------------------------------
(* An operator named Slip... is the definition after it with one plausible   *)
(* mistake in it; no specification uses one.                                 *)
SlipUnwrapped(op) == "real"

(* What a switch function installs when its wrapper is taken out.            *)
Unwrapped(op) == IF op = QueueCreate THEN "intercept" ELSE "real"

Top(t) == frames[t][depth[t]]
Activations == Threads \X (1..MaxDepth)

(* Locals UserCallbackLock and InternalCallbackLock of an activation: shared *)
(* locks on the one CallbackMutex, released when the activation returns.     *)
HoldsCallbackMutex(t, d) ==
    \/ frames[t][d].pc \in {"lockInternal", "before", "after"}
    \/ /\ frames[t][d].op = PacketSubmit
       /\ frames[t][d].pc \in {"readUser", "readInternal"}

InCallback(t) == depth[t] > 0 /\ Top(t).pc \in {"before", "after"}

(* Tool code runs in a thread that is outside every wrapper or in a callback.*)
ToolMayRun(t) == toggle[t].pc = "idle" /\ (depth[t] = 0 \/ InCallback(t))

-----------------------------------------------------------------------------
(* Table registration, run before the application can reach the table:       *)
(* captureApiTable, whose HSA form ends by putting the queue interceptor in  *)
(* place, the tool's own after-capture callback, which may enable any ids,   *)
(* and the ids Luthier enables for itself.                                   *)
CaptureApiTable(chosen) ==
    /\ status = "waiting"
    /\ status' = "captured"
    /\ enabled' = [user |-> chosen, internal |-> InternalOps]
    /\ table' = [op \in Ops |-> IF op \in chosen \cup InternalOps
                                THEN "wrapper" ELSE Unwrapped(op)]
    /\ UNCHANGED <<userCb, toggle, depth, frames, queues, raced>>

SlipSetUserCallback(t, cb) ==   \* no unique lock
    /\ ToolMayRun(t) /\ depth[t] = 0
    /\ userCb' = cb
    /\ UNCHANGED <<status, table, enabled, toggle, depth, frames, queues, raced>>

(* setUserCallback takes CallbackMutex exclusively; its note asks callers to *)
(* hold no read lock, so a thread inside a callback does not call it.        *)
SetUserCallback(t, cb) ==
    /\ ToolMayRun(t) /\ depth[t] = 0
    /\ \A a \in Activations : ~HoldsCallbackMutex(a[1], a[2])
    /\ userCb' = cb
    /\ UNCHANGED <<status, table, enabled, toggle, depth, frames, queues, raced>>

(* freezeRuntimeApiTable may also be called by hand.                         *)
FreezeRuntimeApiTable(t) ==
    /\ ToolMayRun(t) /\ status = "captured"
    /\ status' = "frozen"
    /\ UNCHANGED <<table, enabled, userCb, toggle, depth, frames, queues, raced>>

-----------------------------------------------------------------------------
(* History: another thread is in an operation on the same id, which takes no *)
(* lock.                                                                     *)
Races(t, op) ==
    raced' = IF \E u \in Threads \ {t} : toggle[u].pc # "idle" /\ toggle[u].op = op
             THEN raced \cup {op} ELSE raced

(* enableUserCallback and enableInternalCallback.  The packet submission id  *)
(* has no table entry.  On a frozen table the wrapper must already be there, *)
(* or the operation returns an error and changes nothing.                    *)
BeginEnable(t, who, op) ==
    /\ ToolMayRun(t) /\ status # "waiting"
    /\ \/ op \in Ops /\ status # "frozen"
       \/ op \in Ops /\ table[op] = "wrapper"
       \/ op = PacketSubmit
    /\ toggle' = [toggle EXCEPT ![t] =
                    [who |-> who, op |-> op,
                     pc |-> IF op \in Ops /\ status # "frozen"
                            THEN "switchOn" ELSE "insert"]]
    /\ Races(t, op)
    /\ UNCHANGED <<status, table, enabled, userCb, depth, frames, queues>>

SwitchOn(t) ==
    /\ toggle[t].pc = "switchOn"
    /\ table' = [table EXCEPT ![toggle[t].op] = "wrapper"]
    /\ toggle' = [toggle EXCEPT ![t].pc = "insert"]
    /\ UNCHANGED <<status, enabled, userCb, depth, frames, queues, raced>>

InsertOp(t) ==
    /\ toggle[t].pc = "insert"
    /\ enabled' = [enabled EXCEPT ![toggle[t].who] = @ \cup {toggle[t].op}]
    /\ toggle' = [toggle EXCEPT ![t] = NoToggle]
    /\ UNCHANGED <<status, table, userCb, depth, frames, queues, raced>>

(* disableUserCallback and disableInternalCallback erase the id first.       *)
BeginDisable(t, who, op) ==
    /\ ToolMayRun(t) /\ status # "waiting"
    /\ enabled' = [enabled EXCEPT ![who] = @ \ {op}]
    /\ toggle' = [toggle EXCEPT ![t] = [who |-> who, op |-> op, pc |-> "test"]]
    /\ Races(t, op)
    /\ UNCHANGED <<status, table, userCb, depth, frames, queues>>

SlipHsaUninstalls(op) ==        \* the other client's set
    op # PacketSubmit /\ op \notin enabled["internal"]
SlipHipUninstalls(op) ==        \* the other client's set
    op # PacketSubmit /\ status # "frozen" /\ op \notin enabled["user"]
SlipHipThaws(op) ==             \* no status check
    op # PacketSubmit /\ op \notin enabled["internal"]

(* The test each generator emits after the erase.  The HSA operations both   *)
(* look at EnabledUserOps and not at the status; the HIP operations both     *)
(* look at EnabledInternalOps.                                               *)
HsaUninstalls(op) == op # PacketSubmit /\ op \notin enabled["user"]
HipUninstalls(op) ==
    /\ op # PacketSubmit
    /\ status # "frozen" /\ op \notin enabled["internal"]

Uninstalls(op) == IF Library = "hsa" THEN HsaUninstalls(op)
                                     ELSE HipUninstalls(op)

TestUninstall(t) ==
    /\ toggle[t].pc = "test"
    /\ toggle' = [toggle EXCEPT ![t] =
                    IF Uninstalls(toggle[t].op)
                    THEN [@ EXCEPT !.pc = "switchOff"] ELSE NoToggle]
    /\ UNCHANGED <<status, table, enabled, userCb, depth, frames, queues, raced>>

SwitchOff(t) ==
    /\ toggle[t].pc = "switchOff"
    /\ table' = [table EXCEPT ![toggle[t].op] = Unwrapped(toggle[t].op)]
    /\ toggle' = [toggle EXCEPT ![t] = NoToggle]
    /\ UNCHANGED <<status, enabled, userCb, depth, frames, queues, raced>>

-----------------------------------------------------------------------------
(* Application and tool calls into the intercepted runtime.                  *)
MayCall(t) == status # "waiting" /\ ToolMayRun(t)

Push(t, op, pc) ==
    /\ depth[t] < MaxDepth
    /\ depth' = [depth EXCEPT ![t] = @ + 1]
    /\ frames' = [frames EXCEPT ![t][depth[t] + 1] =
                    [NoFrame EXCEPT !.op = op, !.pc = pc]]

Pop(t) ==
    /\ depth' = [depth EXCEPT ![t] = @ - 1]
    /\ frames' = [frames EXCEPT ![t][depth[t]] = NoFrame]

(* A wrapper freezes the table, then asks isUserCallbackEnabled.             *)
EnterWrapper(t, op) ==
    /\ MayCall(t) /\ table[op] = "wrapper"
    /\ status' = "frozen"
    /\ Push(t, op, "readUser")
    /\ UNCHANGED <<table, enabled, userCb, toggle, queues, raced>>

(* queueSubmitWriteInterceptor: the runtime hands packets of an intercept    *)
(* queue to it; it freezes the table and takes the callbacks' locks first.   *)
EnterSubmit(t) ==
    /\ MayCall(t) /\ "intercept" \in queues
    /\ status' = "frozen"
    /\ Push(t, PacketSubmit, "lockUser")
    /\ UNCHANGED <<table, enabled, userCb, toggle, queues, raced>>

(* A call through an entry that holds no wrapper; only queue creation leaves *)
(* a trace the model keeps.                                                  *)
CallUnwrapped(t) ==
    /\ MayCall(t) /\ QueueCreate \in Ops /\ table[QueueCreate] # "wrapper"
    /\ queues' = queues \cup {table[QueueCreate]}
    /\ UNCHANGED <<status, table, enabled, userCb, toggle, depth, frames, raced>>

MoveTo(t, pc) == frames' = [frames EXCEPT ![t][depth[t]].pc = pc]

ReadUser(t) ==
    /\ depth[t] > 0 /\ Top(t).pc = "readUser"
    /\ frames' = [frames EXCEPT ![t][depth[t]] =
                    [@ EXCEPT !.user = Top(t).op \in enabled["user"],
                              !.pc = "readInternal"]]
    /\ UNCHANGED <<status, table, enabled, userCb, toggle, depth, queues, raced>>

(* With no client to call back, the wrapper calls the saved function (for    *)
(* hsa_queue_create, createInterceptQueue) and returns at once.              *)
CreatesQueue(op) == queues' = IF op = QueueCreate
                              THEN queues \cup {"intercept"} ELSE queues

ReadInternal(t) ==
    LET op == Top(t).op
        internal == op \in enabled["internal"]
    IN
    /\ depth[t] > 0 /\ Top(t).pc = "readInternal"
    /\ \/ /\ ~(Top(t).user \/ internal)
          /\ Pop(t)
          /\ CreatesQueue(op)
       \/ /\ Top(t).user \/ internal
          /\ frames' = [frames EXCEPT ![t][depth[t]] =
                          [@ EXCEPT !.internal = internal,
                                    !.pc = IF op = PacketSubmit THEN "before"
                                           ELSE "lockUser"]]
          /\ UNCHANGED <<depth, queues>>
    /\ UNCHANGED <<status, table, enabled, userCb, toggle, raced>>

SlipLockUser(t) ==              \* an exclusive lock
    /\ depth[t] > 0 /\ Top(t).pc = "lockUser"
    /\ \A a \in Activations : ~HoldsCallbackMutex(a[1], a[2])
    /\ MoveTo(t, "lockInternal")
    /\ UNCHANGED <<status, table, enabled, userCb, toggle, depth, queues, raced>>

(* getUserCallback: a shared lock, granted whenever no writer is inside.     *)
LockUser(t) ==
    /\ depth[t] > 0 /\ Top(t).pc = "lockUser"
    /\ MoveTo(t, "lockInternal")
    /\ UNCHANGED <<status, table, enabled, userCb, toggle, depth, queues, raced>>

(* getInternalCallback: the second shared lock of the same mutex.            *)
LockInternal(t) ==
    /\ depth[t] > 0 /\ Top(t).pc = "lockInternal"
    /\ frames' = [frames EXCEPT ![t][depth[t]] =
                    [@ EXCEPT !.cb = userCb,
                              !.pc = IF Top(t).op = PacketSubmit
                                     THEN "readUser" ELSE "before"]]
    /\ UNCHANGED <<status, table, enabled, userCb, toggle, depth, queues, raced>>

(* The callbacks of the BEFORE phase return and the real function runs.      *)
CallReal(t) ==
    /\ depth[t] > 0 /\ Top(t).pc = "before" /\ toggle[t].pc = "idle"
    /\ MoveTo(t, "after")
    /\ CreatesQueue(Top(t).op)
    /\ UNCHANGED <<status, table, enabled, userCb, toggle, depth, raced>>

(* The callbacks of the AFTER phase return; both locks go out of scope.      *)
Return(t) ==
    /\ depth[t] > 0 /\ Top(t).pc = "after" /\ toggle[t].pc = "idle"
    /\ Pop(t)
    /\ UNCHANGED <<status, table, enabled, userCb, toggle, queues, raced>>

-----------------------------------------------------------------------------
ToggleStep(t) == SwitchOn(t) \/ InsertOp(t) \/ TestUninstall(t) \/ SwitchOff(t)
WrapperStep(t) == ReadUser(t) \/ ReadInternal(t) \/ LockUser(t) \/ LockInternal(t)

Next ==
    \/ \E chosen \in SUBSET ApiIds : CaptureApiTable(chosen)
    \/ \E t \in Threads :
         \/ \E cb \in UserCallbacks : SetUserCallback(t, cb)
         \/ FreezeRuntimeApiTable(t)
         \/ \E who \in Clients, op \in ApiIds :
              BeginEnable(t, who, op) \/ BeginDisable(t, who, op)
         \/ ToggleStep(t)
         \/ \E op \in Ops : EnterWrapper(t, op)
         \/ EnterSubmit(t)
         \/ CallUnwrapped(t)
         \/ WrapperStep(t)
         \/ CallReal(t)
         \/ Return(t)

Spec == Init /\ [][Next]_vars

(* A thread that is scheduled finishes what it is doing, and callbacks       *)
(* terminate: each activation whose callback could return again and again,   *)
(* between nested calls it makes, does return.                               *)
Fairness ==
    \A t \in Threads :
        /\ WF_vars(ToggleStep(t)) /\ WF_vars(WrapperStep(t))
        /\ \A d \in 1..MaxDepth :
              /\ SF_vars(depth[t] = d /\ CallReal(t))
              /\ SF_vars(depth[t] = d /\ Return(t))

FairSpec == Spec /\ Fairness
-----------------------------------------------------------------------------
(* Safety.  Every queue the application is given is an intercept queue, so   *)
(* that no dispatch can bypass Luthier, whatever the tool enabled, disabled  *)
(* or was in the middle of when hsa_queue_create was called.                 *)
QueuesIntercepted == "real" \notin queues

(* An id the tool has enabled is dispatched through its wrapper: a callback  *)
(* that enableUserCallback granted is not silently lost, unless operations of *)
(* two threads on that very id have overlapped (the operations of the HSA    *)
(* interceptor have no lock).                                                *)
UserOpsWrapped ==
    \A op \in (Ops \cap enabled["user"]) \ raced : table[op] = "wrapper"

(* The same for the ids Luthier depends on to see code objects come and go.  *)
InternalOpsWrapped ==
    \A op \in Ops \cap enabled["internal"] : table[op] = "wrapper"

(* An activation that is running callbacks runs the callback object that is  *)
(* installed: setUserCallback never replaces it under a running activation,  *)
(* so BEFORE and AFTER of one call go to the same callback.                  *)
CallbackStable ==
    \A a \in Activations :
        frames[a[1]][a[2]].pc \in {"before", "after"} =>
            frames[a[1]][a[2]].cb = userCb

(* An action property, and what the comment of freezeRuntimeApiTable         *)
(* promises: after the freeze the operations change the enabled sets and     *)
(* never the table.                                                          *)
FrozenTableFixed == [][status = "frozen" => table' = table]_vars

(* Liveness.  Every call the application makes returns, even when tool       *)
(* callbacks toggle ids and call back into the runtime.                      *)
CallsReturn == \A t \in Threads : depth[t] > 0 ~> depth[t] = 0
=============================================================================

--------------------------- MODULE MCKernelPreamble ---------------------------
(* Kernels of up to three arguments, or of two and a work group id; one      *)
(* without metadata of arguments; and two with arguments that lifting loses. *)
EXTENDS KernelPreamble

MCArguments ==
    LET few(n) == {s \in SUBSET {"PRIVATE_SEGMENT_BUFFER", "DISPATCH_PTR", "KERNARG_SEGMENT_PTR",
                                 "FLAT_SCRATCH_INIT", "PRIVATE_SEGMENT_WAVE_BYTE_OFFSET"} :
                     Cardinality(s) <= n}
    IN few(3) \cup {s \cup {"WORKGROUP_ID_X"} : s \in few(2)}
MCKernels ==
    [args : MCArguments, hasArgs : {TRUE}, queueArg : {FALSE}]
    \cup [args : {{"WORKGROUP_ID_X"}}, hasArgs : {FALSE}, queueArg : {FALSE}]
    \cup [args : {{"KERNARG_SEGMENT_PTR", "QUEUE_PTR", "WORKGROUP_ID_X"},
                  {"KERNARG_SEGMENT_PTR", "DISPATCH_ID", "WORKGROUP_ID_X"}},
          hasArgs : {TRUE}, queueArg : BOOLEAN]
MCRequests ==
    {"kernel"} \X {"stack", "KERNARG_SEGMENT_PTR", "DISPATCH_ID", "DISPATCH_PTR", "QUEUE_PTR",
                   "HIDDEN_KERNARG_OFFSET", "USER_KERNARG_OFFSET", "FLAT_SCRATCH"}
    \cup {<<"device", "DISPATCH_PTR">>}
=============================================================================

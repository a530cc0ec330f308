SPECIFICATION Spec
CONSTANTS
    Kernels <- MCKernels
    Requests <- MCRequests
INVARIANT ArgumentsKept
 

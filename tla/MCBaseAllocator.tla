--------------------------- MODULE MCBaseAllocator ---------------------------
(* BaseAllocator over a MallocBackend, in the order the allocator tests use *)
(* them: backend.shm_init, an allocator built on the backend's data area,  *)
(* allocations while the backend's first block is live, and                *)
(* backend.shm_detach / shm_destroy.  5-bit addresses, kBackendHeaderSize  *)
(* 1 and kMinBackendSize 9: malloc's block is at address 5, its data area  *)
(* is the allocator's 6-byte buffer at address 8 (null offset 31 wraps to  *)
(* address 7, not nullptr); requests of 1 to 4 bytes, 2-byte objects.      *)
EXTENDS BaseAllocator, Sequences

CONSTANTS HeaderSize, MinBackendSize, BackendSizes, MaxCalls, BlockAddr

VARIABLES alloc_ptr, total_size, header_off, data_off, data_capacity,
          heap, wild_frees, calls

Backend == INSTANCE MallocBackend

\* The constants put the allocator's buffer_ on the data area of a block of
\* kMinBackendSize bytes that malloc returns at BlockAddr.  (The allocator's
\* shm_init takes buffer_size_ from backend.data_size_, a MemoryBackend
\* field that is not under src/ and that MallocBackend::shm_init does not
\* set, so the size is a constant of the model, not data_capacity_.)
ASSUME /\ \A s \in BackendSizes : s <= MinBackendSize
       /\ Base = BlockAddr + 3 * HeaderSize
       /\ BufSize = MinBackendSize - 3 * HeaderSize

\* The allocator lives on the backend's first block until it is freed.
AllocatorOn ==
  /\ Len(heap) >= 1
  /\ alloc_ptr = 1
  /\ Backend!Live(1)

MCInit == Init /\ Backend!Init

backendVars == <<alloc_ptr, total_size, header_off, data_off, data_capacity,
                 heap, wild_frees, calls>>

BackendStep(A) == A /\ UNCHANGED vars
AllocatorStep(A) == AllocatorOn /\ A /\ UNCHANGED backendVars

MCNext ==
  \/ BackendStep(Backend!ShmInit)
  \/ BackendStep(Backend!ShmAttach)
  \/ BackendStep(Backend!ShmDetach)
  \/ BackendStep(Backend!ShmDestroy)
  \/ AllocatorStep(Allocate)
  \/ AllocatorStep(AllocateObjs)
  \/ AllocatorStep(Reallocate)
  \/ AllocatorStep(ReallocateObjs)
  \/ AllocatorStep(Free)
  \/ AllocatorStep(DelObjs)

MCSpec == MCInit /\ [][MCNext]_<<vars, backendVars>>

MCTypeOK == TypeOK /\ Backend!BackendTypeOK

\* The backend never frees a block twice, whatever order the owner calls
\* shm_detach and shm_destroy in (MallocBackend::_Detach, _Destroy).
NoDoubleFree == Backend!NoDoubleFree

=============================================================================

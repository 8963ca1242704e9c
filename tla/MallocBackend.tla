---------------------------- MODULE MallocBackend ----------------------------
(* MallocBackend (hermes_shm/memory/backend/malloc_backend.h): a memory     *)
(* backend in private heap memory.  shm_init mallocs one block and lays the *)
(* headers and the data area out in it; shm_detach and shm_destroy free it. *)
(* The C heap is part of the state: every block malloc returned, with its   *)
(* size and the number of times it was passed to free.  Addresses are       *)
(* offsets from the block start (alloc_ptr_).                               *)
EXTENDS Integers, Sequences

CONSTANTS
  Width,           \* bits of size_t
  HeaderSize,      \* kBackendHeaderSize
  MinBackendSize,  \* kMinBackendSize (1 MiB in the code)
  BackendSizes,    \* backend_size arguments passed to shm_init
  MaxCalls         \* bound on the lifecycle calls of one run

ASSUME /\ HeaderSize \in Nat \ {0}
       /\ MinBackendSize \in Nat \ {0}
       /\ BackendSizes \subseteq Nat
       /\ MaxCalls \in Nat

Wrap(x) == x % 2^Width

(* Values of alloc_ptr_ that are not a block: nullptr, and the indeterminate *)
(* value of an uninitialised pointer member.                                 *)
Null == 0
Garbage == -1

VARIABLES
  alloc_ptr,      \* alloc_ptr_: Null, Garbage or the index of a block
  total_size,     \* total_size_
  header_off,     \* header_ - alloc_ptr_
  data_off,       \* data_ - alloc_ptr_
  data_capacity,  \* data_capacity_
  heap,           \* heap[b]: [size, frees] of the b-th block malloc returned
  wild_frees,     \* free() calls on an indeterminate pointer
  calls           \* lifecycle calls made (bounded by MaxCalls)

backendVars == <<alloc_ptr, total_size, header_off, data_off, data_capacity,
                 heap, wild_frees, calls>>

Blocks == 1..Len(heap)
Live(b) == heap[b].frees = 0

(* MallocBackend() = default leaves total_size_ and alloc_ptr_ default-      *)
(* initialised: an automatic object, as the tests declare it, holds an      *)
(* indeterminate pointer; a value-initialised one holds nullptr.            *)
Init ==
  /\ alloc_ptr \in {Null, Garbage}
  /\ total_size = 0
  /\ header_off = 0
  /\ data_off = 0
  /\ data_capacity = 0
  /\ heap = <<>>
  /\ wild_frees = 0
  /\ calls = 0

ClampSize(size) == IF size < MinBackendSize THEN MinBackendSize ELSE size

(* shm_init(backend_id, backend_size).  total_size_ is stored before malloc *)
(* is called, so a failing malloc returns false with total_size_ changed    *)
(* and everything else, alloc_ptr_ included, as it was.  On success the     *)
(* previous block, if any, is not freed.                                    *)
ShmInit ==
  /\ calls < MaxCalls
  /\ \E size \in BackendSizes :
       LET backend_size == ClampSize(size) IN
       /\ total_size' = backend_size
       /\ \/ UNCHANGED <<alloc_ptr, header_off, data_off, data_capacity, heap>>
          \/ /\ heap' = Append(heap, [size |-> backend_size, frees |-> 0])
             /\ alloc_ptr' = Len(heap) + 1
             /\ header_off' = 3 * HeaderSize
             /\ data_off' = 3 * HeaderSize
             /\ data_capacity' = Wrap(backend_size - 3 * HeaderSize)
  /\ calls' = calls + 1
  /\ UNCHANGED wild_frees

(* if (alloc_ptr_) { free(alloc_ptr_); alloc_ptr_ = nullptr; } -- the body  *)
(* of both _Detach and _Destroy.  free of an indeterminate pointer is       *)
(* counted as a wild free; free of a block counts against that block.       *)
FreeAllocPtr(reset) ==
  IF alloc_ptr = Null
  THEN UNCHANGED <<alloc_ptr, heap, wild_frees>>
  ELSE /\ heap' = IF alloc_ptr = Garbage THEN heap
                  ELSE [heap EXCEPT ![alloc_ptr].frees = @ + 1]
       /\ wild_frees' = IF alloc_ptr = Garbage THEN wild_frees + 1
                        ELSE wild_frees
       /\ alloc_ptr' = IF reset THEN Null ELSE alloc_ptr

Detach == FreeAllocPtr(TRUE)

DestroyNoReset == FreeAllocPtr(FALSE)

Destroy == FreeAllocPtr(TRUE)

ShmDetach ==
  /\ calls < MaxCalls
  /\ Detach
  /\ calls' = calls + 1
  /\ UNCHANGED <<total_size, header_off, data_off, data_capacity>>

ShmDestroy ==
  /\ calls < MaxCalls
  /\ Destroy
  /\ calls' = calls + 1
  /\ UNCHANGED <<total_size, header_off, data_off, data_capacity>>

\* shm_attach(url) throws SHMEM_NOT_SUPPORTED: a private heap block cannot
\* be attached by url, and the backend is left as it was.
ShmAttach ==
  /\ calls < MaxCalls
  /\ calls' = calls + 1
  /\ UNCHANGED <<alloc_ptr, total_size, header_off, data_off, data_capacity,
                 heap, wild_frees>>

Next == ShmInit \/ ShmAttach \/ ShmDetach \/ ShmDestroy

Spec == Init /\ [][Next]_backendVars

-----------------------------------------------------------------------------
BackendTypeOK ==
  /\ alloc_ptr \in {Null, Garbage} \cup Blocks
  /\ heap \in Seq([size : Nat, frees : Nat])
  /\ {total_size, header_off, data_off, data_capacity, wild_frees, calls}
       \subseteq Nat

(* shm_detach and shm_destroy may both be called, in either order and more  *)
(* than once: the C heap never sees a block freed twice, because both      *)
(* reset alloc_ptr_ to nullptr after free.                                 *)
NoDoubleFree == \A b \in Blocks : heap[b].frees <= 1
=============================================================================

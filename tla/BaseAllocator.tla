---------------------------- MODULE BaseAllocator ----------------------------
(***************************************************************************)
(* hipc::BaseAllocator<CoreAllocT> (src/unnamed/part_003): the typed API   *)
(* that turns the core allocator's OffsetPointers into FullPtrs (a         *)
(* process-local ptr_ plus a shared Pointer of allocator id and offset).   *)
(*                                                                         *)
(* The core allocator (buddy, arena, ...) is not under src/; it is modelled *)
(* from spec 4.5 and 7: AllocateOffset returns an offset whose block fits  *)
(* in the buffer and overlaps no live block, and returns the null offset   *)
(* (size_t)-1 when no such block exists.                                   *)
(*                                                                         *)
(* held is what a caller keeps: every FullPtr an API call returned whose   *)
(* IsNull() was false, with the number of bytes the caller asked for.      *)
(***************************************************************************)
EXTENDS Naturals, FiniteSets, TLC

CONSTANTS
  Width,       \* bit width of size_t and of addresses
  Base,        \* address of the allocator's buffer_
  BufSize,     \* buffer_size_
  Id,          \* the allocator's AllocatorId
  NullId,      \* AllocatorId::GetNull(), (-1, -1)
  Sizes,       \* byte sizes callers request
  Alignments,  \* alignments callers pass to Allocate(ctx, size, alignment)
  ObjSize,     \* sizeof(T) for AllocateObjs
  Counts,      \* object counts callers pass to AllocateObjs
  MaxOps       \* bound on API calls

ASSUME /\ Base > 0 /\ Base + BufSize < 2^Width - 1
       /\ \A a \in Alignments : a \in Nat

Wrap(x) == x % (2^Width)

\* OffsetPointer::GetNull(): off_ = (size_t)-1.
NullOff == 2^Width - 1

VARIABLES
  core,   \* blocks the core allocator has handed out: [off, size]
  held,   \* FullPtrs the caller keeps: [fp, len]
  ops     \* number of API calls made

vars == <<core, held, ops>>

(* ----- the core allocator, from the spec ----- *)

\* Offsets where a block of size bytes, aligned to align, fits.
CoreFits(size, align) ==
  {o \in 0 .. BufSize - 1 :
     /\ o % align = 0
     /\ o + size <= BufSize
     /\ \A b \in core : o + size <= b.off \/ b.off + b.size <= o}

\* AllocateOffset / AlignedAllocateOffset: the offsets the core may return.
CoreResults(size, align) ==
  IF CoreFits(size, align) = {} THEN {NullOff} ELSE CoreFits(size, align)

\* The core's bookkeeping after returning off for size bytes.
CoreAfterAlloc(off, size) ==
  IF off = NullOff THEN core ELSE core \cup {[off |-> off, size |-> size]}

\* FreeOffsetNoNullCheck: the block at off goes back to the core.
CoreAfterFree(off) == {b \in core : b.off # off}

(* ----- Pointer and FullPtr ----- *)

\* PointerBase(AllocatorId id, size_t off): the shared half of a FullPtr.
MakePointer(aid, off) == [aid |-> aid, off |-> off]

\* Allocator::ContainsPtr(PointerBase): the offset lies inside the buffer.
ContainsPtr(p) == p.off < BufSize

\* A FullPtr whose shared half is built with a null allocator id.
MakeFullPtrNullId(off) == [ptr |-> Wrap(Base + off)] @@ MakePointer(NullId, off)

\* BaseAllocator::Allocate builds result.shm_ = PointerT(GetId(), off) and
\* result.ptr_ = buffer_ + off, whatever off the core returned.
MakeFullPtr(off) == [ptr |-> Wrap(Base + off)] @@ MakePointer(Id, off)

\* FullPtr::IsNull: ptr_ == nullptr.
IsNull(fp) == fp.ptr = 0

\* The caller keeps a returned FullPtr unless IsNull() says it is null.
Keep(fp, len) == IF IsNull(fp) THEN held ELSE held \cup {[fp |-> fp, len |-> len]}

Init ==
  /\ core = {}
  /\ held = {}
  /\ ops = 0

\* The core returns an offset for size bytes aligned to align, Allocate
\* wraps it in a FullPtr, and the caller keeps that for len bytes.
AllocateAndKeep(size, align, len) ==
  \E off \in CoreResults(size, align) :
    /\ core' = CoreAfterAlloc(off, size)
    /\ held' = Keep(MakeFullPtr(off), len)

\* Allocate(ctx, size) and AlignedAllocate(ctx, size, alignment); with
\* alignment 0, Allocate(ctx, size, alignment) falls back to Allocate.
Allocate ==
  /\ ops < MaxOps
  /\ \E size \in Sizes, alignment \in Alignments :
       AllocateAndKeep(size, IF alignment = 0 THEN 1 ELSE alignment, size)
  /\ ops' = ops + 1

\* AllocateObjs<T>(ctx, count), and NewObjs / NewObj which construct the
\* objects after it: Allocate(ctx, count * sizeof(T)), the product taken
\* in size_t; the caller owns count objects.
AllocateObjs ==
  /\ ops < MaxOps
  /\ \E count \in Counts :
       AllocateAndKeep(Wrap(count * ObjSize), 1, count * ObjSize)
  /\ ops' = ops + 1

\* The core's ReallocateOffsetNoNullCheck, from the spec: move the block
\* to one that fits new_size (it may stay in place), or return null and
\* keep the old block.
CoreRealloc(h, newSize, off) ==
  LET others == CoreAfterFree(h.fp.off)
  IN IF off = NullOff THEN core
     ELSE others \cup {[off |-> off, size |-> newSize]}

CoreReallocResults(h, newSize) ==
  LET fits == {o \in 0 .. BufSize - 1 :
                 /\ o + newSize <= BufSize
                 /\ \A b \in CoreAfterFree(h.fp.off) :
                      o + newSize <= b.off \/ b.off + b.size <= o}
  IN IF fits = {} THEN {NullOff} ELSE fits

\* Reallocate of a held p (p.IsNull() is false): the core moves
\* p.shm_.ToOffsetPointer() to new_off and the caller replaces p by the
\* FullPtr built from new_off, which it keeps for len bytes.
ReallocateHeld(h, newSize, len) ==
  \E off \in CoreReallocResults(h, newSize) :
    /\ core' = CoreRealloc(h, newSize, off)
    /\ held' = (held \ {h}) \cup
                 IF IsNull(MakeFullPtr(off)) THEN {}
                 ELSE {[fp |-> MakeFullPtr(off), len |-> len]}

\* Reallocate(ctx, p, new_size): a null p (FullPtr::GetNull()) is handed
\* to Allocate; otherwise the held block is reallocated.
Reallocate ==
  /\ ops < MaxOps
  /\ \E newSize \in Sizes :
       \/ AllocateAndKeep(newSize, 1, newSize)
       \/ \E h \in held : ReallocateHeld(h, newSize, newSize)
  /\ ops' = ops + 1

\* ReallocateObjs<T>(ctx, p, new_count): Reallocate(ctx, p,
\* new_count * sizeof(T)), the product taken in size_t.
ReallocateObjs ==
  /\ ops < MaxOps
  /\ \E count \in Counts :
       LET size == Wrap(count * ObjSize)
       IN \/ AllocateAndKeep(size, 1, count * ObjSize)
          \/ \E h \in held : ReallocateHeld(h, size, count * ObjSize)
  /\ ops' = ops + 1

\* Free(ctx, p) of a held p: the core frees p.shm_.off_ and the caller
\* drops p.  For a null p Free throws INVALID_FREE and changes nothing, a
\* stuttering step; a held p is never null, so the guard always passes.
Free ==
  /\ \E h \in held :
       /\ ~IsNull(h.fp)
       /\ core' = CoreAfterFree(h.fp.off)
       /\ held' = held \ {h}
  /\ UNCHANGED ops

\* DelObjs(ctx, p, count) and DelObj(ctx, p): run the destructors (object
\* contents are not modelled), then Free(ctx, p).
DelObjs == Free

Next ==
  \/ Allocate \/ AllocateObjs \/ Reallocate \/ ReallocateObjs
  \/ Free \/ DelObjs

Spec == Init /\ [][Next]_vars

-----------------------------------------------------------------------------
(* Properties *)

\* Every FullPtr the caller holds names this allocator, and the counters
\* stay in range.
TypeOK ==
  /\ \A h \in held : h.fp.aid = Id /\ h.fp.ptr \in 0 .. 2^Width - 1
  /\ \A b \in core : b.off + b.size <= BufSize
  /\ ops \in 0 .. MaxOps

\* Spec 7 and the allocator tests: a failed allocation is reported as a
\* null FullPtr, so every FullPtr whose IsNull() is false refers to a
\* block inside the allocator's buffer.
HeldPtrsInAllocator == \A h \in held : ContainsPtr(h.fp)

=============================================================================

-------------------------------- MODULE Heap --------------------------------
(***************************************************************************)
(* hshm::ipc::Heap<ATOMIC=true> (src/unnamed/part_002): a lock-free bump   *)
(* allocator over [0, max_size_).  Allocate loads heap_, aligns it, adds   *)
(* the size in size_t arithmetic, throws OUT_OF_MEMORY when the end passes *)
(* max_size_, and otherwise tries compare_exchange_weak(off, end_off),     *)
(* going round the loop again when the exchange fails (for a real change   *)
(* of heap_ or spuriously).                                                *)
(*                                                                         *)
(* Each thread's position in Allocate is pc[t]: "idle" (not in a call),    *)
(* "load" (at the top of the do-loop) and "cas" (before the exchange).     *)
(* The computation between the load and the exchange touches only locals   *)
(* and is folded into the load step.                                       *)
(***************************************************************************)
EXTENDS Naturals, FiniteSets

CONSTANTS
  Threads,        \* threads calling Allocate on one shared heap
  MaxSize,        \* max_size_
  InitialOffset,  \* initial_offset passed to Init
  Sizes,          \* sizes a caller may request
  Aligns,         \* alignments a caller may request (powers of two)
  Width,          \* bit width of size_t in the model
  MaxCalls        \* bound on Allocate calls per thread

ASSUME /\ InitialOffset <= MaxSize
       /\ MaxSize < 2^Width
       /\ \A a \in Aligns : a >= 1

VARIABLES
  heap,     \* heap_
  pc,       \* per-thread position in Allocate
  req,      \* per-thread arguments of the current call
  off,      \* per-thread local copy of heap_ loaded at the top of the loop
  calls,    \* per-thread number of calls made (bounded by MaxCalls)
  granted   \* regions returned so far (history, for the properties)

vars == <<heap, pc, req, off, calls, granted>>

Word == 0 .. (2^Width - 1)

\* size_t arithmetic: every sum and product wraps modulo 2^Width.
Wrap(x) == x % (2^Width)

\* A rounding that truncates instead of rounding up.
AlignSizeDown(size, align) == Wrap((size \div align) * align)

\* Heap::AlignSize: ((size + align - 1) / align) * align, in size_t.
AlignSize(size, align) == Wrap((Wrap(size + align - 1) \div align) * align)

\* aligned_off and end_off as Allocate computes them from the loaded off.
AlignedOff(t) == AlignSize(off[t], req[t].align)
EndOff(t)     == Wrap(AlignedOff(t) + req[t].size)

\* Heap::Init: heap_.store(initial_offset); max_size_ = max_size.
Init ==
  /\ heap = InitialOffset
  /\ pc = [t \in Threads |-> "idle"]
  /\ req = [t \in Threads |-> [size |-> 0, align |-> 1]]
  /\ off = [t \in Threads |-> 0]
  /\ calls = [t \in Threads |-> 0]
  /\ granted = {}

\* A caller enters Allocate(size, align).
Call(t) ==
  /\ pc[t] = "idle"
  /\ calls[t] < MaxCalls
  /\ \E s \in Sizes, a \in Aligns :
       req' = [req EXCEPT ![t] = [size |-> s, align |-> a]]
  /\ pc' = [pc EXCEPT ![t] = "load"]
  /\ calls' = [calls EXCEPT ![t] = @ + 1]
  /\ UNCHANGED <<heap, off, granted>>

\* A check of aligned_off instead of end_off against max_size_.
LoadFitsNoSize(t) ==
  /\ pc[t] = "load"
  /\ AlignSize(heap, req[t].align) <= MaxSize
  /\ off' = [off EXCEPT ![t] = heap]
  /\ pc' = [pc EXCEPT ![t] = "cas"]
  /\ UNCHANGED <<heap, req, calls, granted>>

\* off = heap_.load(); the end computed from it fits: go on to the exchange.
LoadFits(t) ==
  LET end == Wrap(AlignSize(heap, req[t].align) + req[t].size)
  IN /\ pc[t] = "load"
     /\ end <= MaxSize
     /\ off' = [off EXCEPT ![t] = heap]
     /\ pc' = [pc EXCEPT ![t] = "cas"]
     /\ UNCHANGED <<heap, req, calls, granted>>

\* A check that also throws when the allocation ends exactly at max_size_.
LoadOutOfMemoryAtLimit(t) ==
  LET end == Wrap(AlignSize(heap, req[t].align) + req[t].size)
  IN /\ pc[t] = "load"
     /\ end >= MaxSize
     /\ off' = [off EXCEPT ![t] = heap]
     /\ pc' = [pc EXCEPT ![t] = "idle"]
     /\ UNCHANGED <<heap, req, calls, granted>>

\* off = heap_.load(); end_off > max_size_: throw OUT_OF_MEMORY.
LoadOutOfMemory(t) ==
  LET end == Wrap(AlignSize(heap, req[t].align) + req[t].size)
  IN /\ pc[t] = "load"
     /\ end > MaxSize
     /\ off' = [off EXCEPT ![t] = heap]
     /\ pc' = [pc EXCEPT ![t] = "idle"]
     /\ UNCHANGED <<heap, req, calls, granted>>

\* An exchange that installs end_off whatever heap_ holds.
CasSucceedBlind(t) ==
  /\ pc[t] = "cas"
  /\ heap' = EndOff(t)
  /\ granted' = granted \cup {[thread |-> t, call |-> calls[t],
                               start |-> AlignedOff(t), len |-> req[t].size]}
  /\ pc' = [pc EXCEPT ![t] = "idle"]
  /\ UNCHANGED <<req, off, calls>>

\* compare_exchange_weak(off, end_off) succeeds: heap_ still equals off.
\* Allocate returns aligned_off.
CasSucceed(t) ==
  /\ pc[t] = "cas"
  /\ heap = off[t]
  /\ heap' = EndOff(t)
  /\ granted' = granted \cup {[thread |-> t, call |-> calls[t],
                               start |-> AlignedOff(t), len |-> req[t].size]}
  /\ pc' = [pc EXCEPT ![t] = "idle"]
  /\ UNCHANGED <<req, off, calls>>

\* A retry that goes straight back to the exchange with the stale off.
CasFailNoReload(t) ==
  /\ pc[t] = "cas"
  /\ UNCHANGED vars

\* compare_exchange_weak fails, because heap_ changed or spuriously: the
\* loop goes round and reloads heap_.
CasFail(t) ==
  /\ pc[t] = "cas"
  /\ pc' = [pc EXCEPT ![t] = "load"]
  /\ UNCHANGED <<heap, req, off, calls, granted>>

Next ==
  \E t \in Threads :
    \/ Call(t)
    \/ LoadFits(t)
    \/ LoadOutOfMemory(t)
    \/ CasSucceed(t)
    \/ CasFail(t)

(***************************************************************************)
(* Fairness.  A thread inside Allocate is never descheduled for ever, so   *)
(* its load and its exchange attempts are weakly fair.  The exchange       *)
(* succeeds only while heap_ still equals off, which other threads can     *)
(* falsify, and compare_exchange_weak may fail spuriously; neither happens *)
(* for ever on real hardware, so success is strongly fair.                 *)
(***************************************************************************)
Fairness ==
  \A t \in Threads :
    /\ WF_vars(LoadFits(t) \/ LoadOutOfMemory(t))
    /\ WF_vars(CasFail(t))
    /\ SF_vars(CasSucceed(t))

Spec == Init /\ [][Next]_vars /\ Fairness

-----------------------------------------------------------------------------
(* Properties *)

\* heap_ stays within [0, max_size_] and every variable has its type.
TypeOK ==
  /\ heap \in 0 .. MaxSize
  /\ pc \in [Threads -> {"idle", "load", "cas"}]
  /\ req \in [Threads -> [size : Sizes \cup {0}, align : Aligns \cup {1}]]
  /\ off \in [Threads -> Word]
  /\ calls \in [Threads -> 0 .. MaxCalls]
  /\ \A g \in granted : g.thread \in Threads /\ g.start \in Word

\* Two regions handed out by Allocate never share a byte, and each lies
\* inside [initial_offset, max_size_): what the CAS loop of
\* Heap::Allocate exists to guarantee under concurrent callers.
NoOverlap ==
  /\ \A g \in granted :
       InitialOffset <= g.start /\ g.start + g.len <= MaxSize
  /\ \A g, h \in granted :
       g # h => g.start + g.len <= h.start \/ h.start + h.len <= g.start

\* No step of any thread moves heap_ backwards: a bump heap only grows
\* (an Allocate that throws leaves heap_ alone).
HeapNeverShrinks == [][heap' >= heap]_heap

\* Every call to Allocate returns or throws: the compare_exchange_weak
\* retry loop is lock-free and, with finitely many callers, terminates.
AllCallsReturn == \A t \in Threads : pc[t] # "idle" ~> pc[t] = "idle"

\* Heap::Allocate implements the atomic bump of HeapAtomic: the
\* successful exchange is the moment the allocation takes effect, and a
\* throw happens only when the abstract allocation would not fit.
Abstract == INSTANCE HeapAtomic WITH busy <- [t \in Threads |-> pc[t] # "idle"]

HeapRefinesAtomic == Abstract!Spec

=============================================================================

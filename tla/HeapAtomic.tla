----------------------------- MODULE HeapAtomic -----------------------------
(***************************************************************************)
(* What the bump heap promises its callers (spec 4.3): each Allocate is    *)
(* one atomic step that either rounds the current top up to the alignment, *)
(* hands out [aligned, aligned + size) and moves the top to its end, or    *)
(* fails and leaves the top where it was.  Arithmetic here is on the       *)
(* mathematical integers: this is the contract, not the implementation.    *)
(***************************************************************************)
EXTENDS Naturals

CONSTANTS Threads, MaxSize, InitialOffset, Sizes, Aligns, MaxCalls

VARIABLES heap, busy, req, calls, granted

vars == <<heap, busy, req, calls, granted>>

AlignUp(x, a) == ((x + a - 1) \div a) * a

Init ==
  /\ heap = InitialOffset
  /\ busy = [t \in Threads |-> FALSE]
  /\ req = [t \in Threads |-> [size |-> 0, align |-> 1]]
  /\ calls = [t \in Threads |-> 0]
  /\ granted = {}

Call(t) ==
  /\ ~busy[t]
  /\ calls[t] < MaxCalls
  /\ \E s \in Sizes, a \in Aligns :
       req' = [req EXCEPT ![t] = [size |-> s, align |-> a]]
  /\ busy' = [busy EXCEPT ![t] = TRUE]
  /\ calls' = [calls EXCEPT ![t] = @ + 1]
  /\ UNCHANGED <<heap, granted>>

Alloc(t) ==
  LET start == AlignUp(heap, req[t].align)
  IN /\ busy[t]
     /\ start + req[t].size <= MaxSize
     /\ heap' = start + req[t].size
     /\ granted' = granted \cup
          {[thread |-> t, call |-> calls[t], start |-> start, len |-> req[t].size]}
     /\ busy' = [busy EXCEPT ![t] = FALSE]
     /\ UNCHANGED <<req, calls>>

Fail(t) ==
  /\ busy[t]
  /\ AlignUp(heap, req[t].align) + req[t].size > MaxSize
  /\ busy' = [busy EXCEPT ![t] = FALSE]
  /\ UNCHANGED <<heap, req, calls, granted>>

Next == \E t \in Threads : Call(t) \/ Alloc(t) \/ Fail(t)

Spec == Init /\ [][Next]_vars

=============================================================================

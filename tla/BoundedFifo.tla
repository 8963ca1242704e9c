---------------------------- MODULE BoundedFifo ----------------------------
(***************************************************************************)
(* What a bounded FIFO queue promises (the contract ring_queue documents   *)
(* and its tests check): push appends unless Capacity elements are held,   *)
(* pop and front return the oldest element, back the newest, clear empties *)
(* the queue; on a full or empty queue the call reports an error and       *)
(* changes nothing.  out is the result of the last call.                   *)
(***************************************************************************)
EXTENDS Naturals, Sequences

CONSTANTS Values, Capacity, Overflow, Underflow

VARIABLES q, out

Push(v) == /\ Len(q) < Capacity
           /\ q' = Append(q, v)
           /\ out' = v
PushFull == /\ Len(q) >= Capacity
            /\ out' = Overflow
            /\ UNCHANGED q
Pop == /\ q # <<>>
       /\ out' = Head(q)
       /\ q' = Tail(q)
Front == /\ q # <<>>
         /\ out' = Head(q)
         /\ UNCHANGED q
Back == /\ q # <<>>
        /\ out' = q[Len(q)]
        /\ UNCHANGED q
Empty == /\ q = <<>>
         /\ out' = Underflow
         /\ UNCHANGED q
Clear == /\ q' = <<>>
         /\ UNCHANGED out

Init == q = <<>> /\ out \in Values

Next == \/ \E v \in Values : Push(v)
        \/ PushFull \/ Pop \/ Front \/ Back \/ Empty \/ Clear

Spec == Init /\ [][Next]_<<q, out>>

=============================================================================

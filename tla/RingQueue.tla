----------------------------- MODULE RingQueue -----------------------------
(***************************************************************************)
(* hshm::ipc::pre::ring_queue<T, COUNT> (ring_queue_pre.h): COUNT slots    *)
(* and two free-running size_t counters head_ and tail_; an element's slot *)
(* is its counter modulo COUNT and the size is tail_ - head_.  The class   *)
(* needs external synchronisation, so each call is one step.  Counters     *)
(* wrap modulo 2^Width, standing for 2^64.                                 *)
(***************************************************************************)
EXTENDS Naturals, Sequences

CONSTANTS
  Values,     \* values of T pushed by callers
  COUNT,      \* the template's capacity
  Width,      \* bit width of size_t in the model
  Overflow,   \* std::overflow_error thrown by push
  Underflow   \* std::underflow_error thrown by pop, front, back

ASSUME COUNT >= 1 /\ COUNT < 2^Width

VARIABLES
  head,   \* head_
  tail,   \* tail_
  data,   \* data_[COUNT]
  out     \* value returned, or exception thrown, by the last call

vars == <<head, tail, data, out>>

Wrap(x) == x % (2^Width)

\* ring_queue::size: tail_ - head_ in size_t.
Size == Wrap(tail - head)

\* ring_queue::ring_queue: head_(0), tail_(0); data_ is left uninitialised,
\* so its slots hold arbitrary values of T.
Init ==
  /\ head = 0
  /\ tail = 0
  /\ data \in [0 .. COUNT - 1 -> Values]
  /\ out \in Values

\* A push that throws only once the size has passed COUNT.
PushOffByOne(v) ==
  IF Size > COUNT
    THEN out' = Overflow /\ UNCHANGED <<head, tail, data>>
    ELSE /\ data' = [data EXCEPT ![tail % COUNT] = v]
         /\ tail' = Wrap(tail + 1)
         /\ out' = v
         /\ UNCHANGED head

\* ring_queue::push: throw when full, else store at tail_ % COUNT and
\* advance tail_.
Push(v) ==
  IF Size >= COUNT
    THEN out' = Overflow /\ UNCHANGED <<head, tail, data>>
    ELSE /\ data' = [data EXCEPT ![tail % COUNT] = v]
         /\ tail' = Wrap(tail + 1)
         /\ out' = v
         /\ UNCHANGED head

\* ring_queue::pop: throw when tail_ - head_ == 0, else return
\* data_[head_ % COUNT] and advance head_.
Pop ==
  IF Size = 0
    THEN out' = Underflow /\ UNCHANGED <<head, tail, data>>
    ELSE /\ out' = data[head % COUNT]
         /\ head' = Wrap(head + 1)
         /\ UNCHANGED <<tail, data>>

\* ring_queue::front: throw when empty, else data_[head_ % COUNT].
Front ==
  /\ out' = IF Size = 0 THEN Underflow ELSE data[head % COUNT]
  /\ UNCHANGED <<head, tail, data>>

\* A back that reads the slot tail_ is about to fill.
BackAtTail ==
  /\ out' = IF Size = 0 THEN Underflow ELSE data[tail % COUNT]
  /\ UNCHANGED <<head, tail, data>>

\* ring_queue::back: throw when empty, else data_[(tail_ - 1) % COUNT].
Back ==
  /\ out' = IF Size = 0 THEN Underflow ELSE data[Wrap(tail - 1) % COUNT]
  /\ UNCHANGED <<head, tail, data>>

\* ring_queue::clear: head_ = tail_ = 0.
Clear ==
  /\ head' = 0
  /\ tail' = 0
  /\ UNCHANGED <<data, out>>

Next ==
  \/ \E v \in Values : Push(v)
  \/ Pop \/ Front \/ Back \/ Clear

Spec == Init /\ [][Next]_vars

-----------------------------------------------------------------------------
(* Properties *)

\* Every variable has its type, and tail_ - head_ never exceeds COUNT: no
\* sequence of push, pop and clear lets the queue hold more than it can.
TypeOK ==
  /\ head \in 0 .. 2^Width - 1
  /\ tail \in 0 .. 2^Width - 1
  /\ data \in [0 .. COUNT - 1 -> Values]
  /\ out \in Values \cup {Overflow, Underflow}
  /\ Size <= COUNT

\* The queue's contents: the Size elements from head_ onwards, each at
\* its counter modulo COUNT.
Contents == [i \in 1 .. Size |-> data[Wrap(head + i - 1) % COUNT]]

\* ring_queue behaves as a bounded FIFO of capacity COUNT for every
\* sequence of calls, across the wrap of head_ and tail_: what pop, front
\* and back return and when push, pop, front and back throw.
Fifo == INSTANCE BoundedFifo WITH q <- Contents, Capacity <- COUNT

RingQueueRefinesFifo == Fifo!Spec

=============================================================================

------------------------------- MODULE MCHeap -------------------------------
(* Instantiation of Heap for TLC.  The constants are given in MCHeap.cfg:  *)
(* two threads, two calls each, sizes 1 and 3, alignments 1 and 4, a       *)
(* 12-byte heap starting at offset 1, and 5-bit size_t arithmetic.         *)
EXTENDS Heap

=============================================================================

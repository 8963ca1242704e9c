---------------------------- MODULE MCRingQueue ----------------------------
(* Instantiation of RingQueue for TLC.  MCRingQueue.cfg: COUNT = 4 slots   *)
(* and 3-bit counters, so the counters wrap (every 8 pushes).  COUNT       *)
(* divides 2^Width: with 64-bit counters a COUNT that does not divide 2^64 *)
(* misplaces slots only after 2^64 pushes, which narrow counters would     *)
(* make look reachable.                                                    *)
EXTENDS RingQueue

=============================================================================

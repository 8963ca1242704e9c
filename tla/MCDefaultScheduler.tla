------------------------- MODULE MCDefaultScheduler -------------------------
(* DefaultScheduler with three workers, so that DivideWorkers meets all    *)
(* its cases: one thread (worker 0 has both roles), a dedicated network    *)
(* worker, and more threads than workers (no network worker).              *)
EXTENDS DefaultScheduler

CONSTANTS ta, tb, tc   \* task model values

MCThreadCounts == {1, 3, 5}
MCNetTasks     == {ta}
MCHashes       == {0, 1, 2}
\* Unset, 30 ms, and exactly the 100 ms cap.
MCPeriods      == {0, 30000000, 100000000}
====

-------------------------- MODULE DefaultScheduler --------------------------
(***************************************************************************)
(* chi::DefaultScheduler (src/unnamed/part_008, lines 13-215).             *)
(*                                                                         *)
(* DivideWorkers runs once when the runtime starts.  It makes workers      *)
(* 0 .. n-1 scheduler workers, with n = max(1, thread_count - 1) capped by *)
(* the number of workers.  It makes worker n the network worker (worker 0  *)
(* when thread_count = 1), and publishes n as the number of scheduling     *)
(* queues.  After that:                                                    *)
(*   - clients put tasks in lane ClientMapTask = hash % n;                  *)
(*   - runtime threads hand tasks to AssignToWorkerType, which takes a      *)
(*     round-robin index with fetch_add and then emplaces the task in that  *)
(*     worker's lane;                                                       *)
(*   - a worker takes a task from its lane and runs it where               *)
(*     RuntimeMapTask says: on the network worker for the admin pool's     *)
(*     periodic Send/Recv, and on the current worker otherwise;            *)
(*   - after each run of a periodic task, AdjustPolling sets its yield     *)
(*     time: the task's period after a busy run, the previous time (or the *)
(*     period, when unset) doubled and capped at kMaxPollingIntervalUs     *)
(*     after an idle run.  Times are whole microseconds: the periods are   *)
(*     multiples of 1000 ns, so the double arithmetic is exact.            *)
(*                                                                         *)
(* WorkOrchestrator, the lanes and the worker loop are not under src/ and  *)
(* the spec leaves the worker scheduler out of its scope, so the actions   *)
(* that stand for them are assumptions about the environment, marked      *)
(* below: GetWorker(i) returns null past the last worker; lane i of the    *)
(* client queues is served by worker i; a worker runs or forwards the head *)
(* of its lane; a periodic task runs again and again.                      *)
(***************************************************************************)
EXTENDS Naturals, Sequences, FiniteSets

CONSTANTS
  NumWorkers,    \* work_orch->GetTotalWorkerCount()
  ThreadCounts,  \* values config->GetNumThreads() may have
  Callers,       \* runtime threads calling AssignToWorkerType
  Tasks,         \* tasks, each submitted once
  NetTasks,      \* the admin pool's periodic Send/Recv tasks
  TaskTypes,     \* ThreadType values passed to AssignToWorkerType
  Hashes,        \* values of MapByPidTid's combined_hash
  TruePeriodsNs, \* true_period_ns_ of the periodic task
  MaxIntervalUs, \* kMaxPollingIntervalUs
  Null           \* nullptr (a null Worker* or no task)

ASSUME /\ NumWorkers > 0 /\ NetTasks \subseteq Tasks
       /\ TaskTypes \subseteq {"sched", "slow", "reaper"}
       /\ \A p \in TruePeriodsNs : p % 1000 = 0

Workers == 0 .. NumWorkers - 1

\* The ThreadTypes AssignToWorkerType routes: kSchedWorker and kSlow.
Routable == {"sched", "slow"}

VARIABLES
  phase,       \* "init" before DivideWorkers, "run" after
  sched,       \* scheduler_workers_
  slow,        \* slow_workers_
  net,         \* net_worker_
  threadType,  \* each worker's SetThreadType
  numQueues,   \* ipc->GetNumSchedQueues()
  idx,         \* scheduler_idx_ and slow_idx_
  pc,          \* each caller: "idle", or "emplace" after its fetch_add
  slot,        \* each caller's task and chosen worker between the two steps
  lanes,       \* each worker's TaskLane
  submitted,   \* tasks handed to the scheduler so far
  dropped,     \* AssignToWorkerType calls that returned without emplacing
  routed,      \* tasks the round robin of AssignToWorkerType gave each worker
  ranOn,       \* the worker each task ran on, or Null
  period,      \* a periodic task's run_ctx->true_period_ns_
  yieldTime,   \* its run_ctx->yield_time_us_
  idle         \* its last run saw did_work_ false

\* What DivideWorkers sets; a caller's AssignToWorkerType state; the
\* routing part and the polling part.
divided    == <<phase, sched, slow, net, threadType, numQueues>>
assignVars == <<idx, pc, slot>>
routeVars  == <<divided, assignVars, lanes, submitted, dropped, routed, ranOn>>
pollVars   == <<period, yieldTime, idle>>
vars       == <<routeVars, pollVars>>

\* Environment: WorkOrchestrator::GetWorker, null past the last worker.
GetWorker(i) == IF i < NumWorkers THEN i ELSE Null

Init ==
  /\ phase = "init"
  /\ sched = <<>> /\ slow = <<>> /\ net = Null
  /\ threadType = [w \in Workers |-> "none"]
  /\ numQueues = 0
  /\ idx = [k \in Routable |-> 0]
  /\ pc = [c \in Callers |-> "idle"]
  /\ slot = [c \in Callers |-> [task |-> Null, worker |-> Null]]
  /\ lanes = [w \in Workers |-> <<>>]
  /\ submitted = {}
  /\ dropped = {}
  /\ routed = [w \in Workers |-> 0]
  /\ ranOn = [t \in Tasks |-> Null]
  /\ period \in TruePeriodsNs
  /\ yieldTime = 0
  /\ idle = FALSE

\* A DivideWorkers whose loop runs num_sched_workers times without
\* stopping at the last worker.
DivideWorkersNoCap ==
  /\ phase = "init"
  /\ \E tc \in ThreadCounts :
       LET n == IF tc > 1 THEN tc - 1 ELSE 1
       IN /\ sched' = [i \in 1 .. n |-> i - 1]
          /\ slow' = <<>>
          /\ net' = IF tc = 1 THEN GetWorker(0) ELSE GetWorker(n)
          /\ threadType' = [w \in Workers |-> IF w < n THEN "sched" ELSE threadType[w]]
          /\ numQueues' = n
  /\ phase' = "run"
  /\ UNCHANGED <<assignVars, lanes, submitted, dropped, routed, ranOn>>

\* DivideWorkers: clear the groups, take workers 0 .. n-1 as scheduler
\* workers (the loop stops at the last worker), pick the network worker,
\* and publish the number of scheduler workers to the IpcManager, unless
\* CHI_IPC is null.
DivideWorkers ==
  /\ phase = "init"
  /\ \E tc \in ThreadCounts, ipcSet \in BOOLEAN :
       LET want == IF tc > 1 THEN tc - 1 ELSE 1
           n    == IF want < NumWorkers THEN want ELSE NumWorkers
       IN /\ sched' = [i \in 1 .. n |-> i - 1]
          /\ slow' = <<>>
          /\ net' = IF tc = 1 THEN GetWorker(0) ELSE GetWorker(n)
          /\ threadType' =
               [w \in Workers |-> IF w < n THEN "sched"
                                  ELSE IF tc # 1 /\ w = n THEN "net"
                                  ELSE threadType[w]]
          /\ numQueues' = IF ipcSet THEN n ELSE numQueues
  /\ phase' = "run"
  /\ UNCHANGED <<assignVars, lanes, submitted, dropped, routed, ranOn>>

\* DivideWorkers returns at once when work_orch or CHI_CONFIG_MANAGER is
\* null: no worker group is formed and SetNumSchedQueues is never called,
\* and the runtime goes on.
DivideWorkersAbort ==
  /\ phase = "init"
  /\ phase' = "run"
  /\ UNCHANGED <<sched, slow, net, threadType, numQueues, assignVars, lanes,
                 submitted, dropped, routed, ranOn>>

\* MapByPidTid: the combined PID/TID hash modulo the number of lanes.
MapByPidTid(h, numLanes) == h % numLanes

\* ClientMapTask: lane 0 when there are no scheduling queues.
ClientMapTask(h) == IF numQueues = 0 THEN 0 ELSE MapByPidTid(h, numQueues)

\* Environment: a client submits task t to the lane ClientMapTask picks;
\* lane i is served by worker i.
ClientSubmit(t) ==
  /\ phase = "run"
  /\ t \notin submitted
  /\ \E h \in Hashes :
       LET w == ClientMapTask(h)
       IN lanes' = [lanes EXCEPT ![w] = Append(@, t)]
  /\ submitted' = submitted \cup {t}
  /\ UNCHANGED <<divided, assignVars, dropped, routed, ranOn>>

\* The worker vector AssignToWorkerType selects for a ThreadType.
Target(type) == IF type = "sched" THEN sched ELSE slow

\* AssignToWorkerType returns early: the type is neither kSchedWorker nor
\* kSlow, or its worker vector is empty.  The task is not emplaced.
AssignReturn(c, t, type) ==
  /\ phase = "run"
  /\ pc[c] = "idle"
  /\ t \notin submitted
  /\ type \notin Routable \/ Target(type) = <<>>
  /\ submitted' = submitted \cup {t}
  /\ dropped' = dropped \cup {[task |-> t, type |-> type]}
  /\ UNCHANGED <<divided, assignVars, lanes, routed, ranOn>>

\* A round-robin step that loads the index without incrementing it.
AssignFetchNoAdd(c, t, type) ==
  /\ phase = "run"
  /\ pc[c] = "idle"
  /\ t \notin submitted
  /\ type \in Routable /\ Target(type) # <<>>
  /\ LET ws == Target(type)
     IN slot' = [slot EXCEPT ![c] =
                   [task |-> t, worker |-> ws[(idx[type] % Len(ws)) + 1]]]
  /\ pc' = [pc EXCEPT ![c] = "emplace"]
  /\ submitted' = submitted \cup {t}
  /\ UNCHANGED <<divided, idx, lanes, dropped, routed, ranOn>>

\* AssignToWorkerType: worker_idx = idx->fetch_add(1) % size, and the
\* worker at that index is read from the vector.
AssignFetchAdd(c, t, type) ==
  /\ phase = "run"
  /\ pc[c] = "idle"
  /\ t \notin submitted
  /\ type \in Routable /\ Target(type) # <<>>
  /\ LET ws == Target(type)
     IN slot' = [slot EXCEPT ![c] =
                   [task |-> t, worker |-> ws[(idx[type] % Len(ws)) + 1]]]
  /\ idx' = [idx EXCEPT ![type] = @ + 1]
  /\ pc' = [pc EXCEPT ![c] = "emplace"]
  /\ submitted' = submitted \cup {t}
  /\ UNCHANGED <<divided, lanes, dropped, routed, ranOn>>

\* AssignToWorkerType, second half: worker->GetLane() and, when the lane is
\* not null, lane->Emplace(future).  Whether the WorkOrchestrator has given
\* the worker a lane is not under src/; either answer is possible.
Emplace(c) ==
  /\ pc[c] = "emplace"
  /\ LET w == slot[c].worker
     IN /\ lanes' = [lanes EXCEPT ![w] = Append(@, slot[c].task)]
        /\ routed' = [routed EXCEPT ![w] = @ + 1]
  /\ pc' = [pc EXCEPT ![c] = "idle"]
  /\ UNCHANGED <<divided, idx, slot, submitted, dropped, ranOn>>

\* The lane is null: AssignToWorkerType returns without emplacing, and
\* without a word.
EmplaceNoLane(c) ==
  /\ pc[c] = "emplace"
  /\ LET w == slot[c].worker
     IN /\ routed' = [routed EXCEPT ![w] = @ + 1]
        /\ dropped' = dropped \cup {[task |-> slot[c].task, type |-> "lane"]}
  /\ pc' = [pc EXCEPT ![c] = "idle"]
  /\ UNCHANGED <<divided, idx, slot, lanes, submitted, ranOn>>

\* RuntimeMapTask(worker, task): the admin pool's periodic Send/Recv goes
\* to the network worker when there is one; every other task stays on the
\* current worker, or goes to worker 0 when there is no current worker.
RuntimeMapTask(w, t) ==
  CASE t \in NetTasks /\ net # Null -> net
    [] w # Null                     -> w
    [] OTHER                        -> 0

\* Environment: worker w takes the head of its lane and runs it when
\* RuntimeMapTask keeps it there, or moves it to the lane of the worker it
\* names.
Dispatch(w) ==
  /\ lanes[w] # <<>>
  /\ LET t    == Head(lanes[w])
         dest == RuntimeMapTask(w, t)
     IN IF dest = w
          THEN /\ lanes' = [lanes EXCEPT ![w] = Tail(@)]
               /\ ranOn' = [ranOn EXCEPT ![t] = w]
          ELSE /\ lanes' = [lanes EXCEPT ![w] = Tail(@),
                                         ![dest] = Append(@, t)]
               /\ UNCHANGED ranOn
  /\ UNCHANGED <<divided, assignVars, submitted, dropped, routed>>

\* A RunContext update that doubles the interval without the cap.
AdjustPollingUncapped(didWork) ==
  IF didWork
    THEN yieldTime' = period \div 1000
    ELSE LET current == IF yieldTime <= 0 THEN period \div 1000 ELSE yieldTime
         IN yieldTime' = current * 2

\* A RunContext update that doubles an unset interval instead of starting
\* from the task's period.
AdjustPollingNoInit(didWork) ==
  IF didWork
    THEN yieldTime' = period \div 1000
    ELSE LET doubled == yieldTime * 2
         IN yieldTime' = IF doubled > MaxIntervalUs THEN MaxIntervalUs ELSE doubled

\* AdjustPolling(run_ctx) with run_ctx->did_work_ = didWork.
AdjustPolling(didWork) ==
  IF didWork
    THEN yieldTime' = period \div 1000
    ELSE LET current == IF yieldTime <= 0 THEN period \div 1000 ELSE yieldTime
             doubled == current * 2
         IN yieldTime' = IF doubled > MaxIntervalUs THEN MaxIntervalUs ELSE doubled

\* Environment: the periodic task runs again, with or without doing work,
\* and its worker calls AdjustPolling on its RunContext.
PeriodicRun ==
  \E didWork \in BOOLEAN :
    /\ AdjustPolling(didWork)
    /\ idle' = ~didWork
    /\ UNCHANGED period

\* Routing and polling touch disjoint state.
RouteNext ==
  \/ DivideWorkers \/ DivideWorkersAbort
  \/ \E t \in Tasks : ClientSubmit(t)
  \/ \E c \in Callers, t \in Tasks, type \in TaskTypes :
       AssignReturn(c, t, type) \/ AssignFetchAdd(c, t, type)
  \/ \E c \in Callers : Emplace(c) \/ EmplaceNoLane(c)
  \/ \E w \in Workers : Dispatch(w)

Next ==
  \/ RouteNext /\ UNCHANGED pollVars
  \/ PeriodicRun /\ UNCHANGED routeVars

Spec == Init /\ [][Next]_vars

-----------------------------------------------------------------------------
(* Properties *)

TypeOK ==
  /\ phase \in {"init", "run"}
  /\ net \in Workers \cup {Null}
  /\ \A i \in 1 .. Len(sched) : sched[i] \in Workers
  /\ pc \in [Callers -> {"idle", "emplace"}]
  /\ lanes \in [Workers -> Seq(Tasks)]
  /\ ranOn \in [Tasks -> Workers \cup {Null}]
  /\ period \in TruePeriodsNs
  /\ yieldTime \in (0 .. MaxIntervalUs) \cup {period \div 1000}
  /\ idle \in BOOLEAN

\* The fetch_add round robin of AssignToWorkerType spreads work evenly:
\* whenever no caller is between its fetch_add and its Emplace, any two
\* scheduler workers have been given numbers of tasks differing by at
\* most one, however the callers interleave.
RoundRobinBalanced ==
  (\A c \in Callers : pc[c] = "idle") =>
    \A i, j \in 1 .. Len(sched) : routed[sched[i]] <= routed[sched[j]] + 1

\* AdjustPolling: after any sequence of runs, a task whose last run did
\* no work is polled no more often than its own period and no less often
\* than the cap, for periods up to the cap.
IdleIntervalBounded ==
  (idle /\ period \div 1000 <= MaxIntervalUs)
    => yieldTime \in (period \div 1000) .. MaxIntervalUs

\* AssignToWorkerType has a kSlow branch: a task handed to it as kSchedWorker
\* or kSlow is emplaced on some worker's lane, never silently dropped
\* (dropped also records the tasks a null lane swallowed).
NoRoutableTaskDropped == \A d \in dropped : d.type \notin Routable

=============================================================================

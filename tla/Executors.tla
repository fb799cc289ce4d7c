----------------------------- MODULE Executors -----------------------------
(***************************************************************************)
(* The executors as their clients see them (engine/core/jobs/executor.cc,  *)
(* simple_foreground_executor.cc): the thread-local slots that name them,  *)
(* the immediate executor that runs a task inside the call, the foreground *)
(* executor pumped by one thread, and the pool, of which only the queue    *)
(* and the refusal after Shutdown are kept (ThreadPoolExecutor has the     *)
(* rest).  Which queued task is popped is left open: TaskScheduler decides *)
(* by priority and age.                                                    *)
(***************************************************************************)
EXTENDS Naturals, FiniteSets

CONSTANTS
  Threads,
  Workers,      \* the threads of the pool
  Pumper,       \* the thread that pumps the foreground executor
  Registered    \* the threads whose slots hold the foreground executor and the pool

ASSUME ExecutorAssumption ==
  /\ Workers \subseteq Threads /\ Registered \subseteq Threads
  /\ Pumper \in Threads \ Workers

VARIABLES
  queue,        \* queue[e]: the tasks scheduled on e and not taken yet
  stopped       \* the executors whose Shutdown has been called

executorVars == <<queue, stopped>>

Queued == {"foreground", "background"}
Types == Queued \cup {"immediate"}

ExecutorInit ==
  /\ queue = [e \in Queued |-> {}]
  /\ stopped = {}

\* Executor::Get, and the fall back on the immediate executor of ScheduleOnExecutor:
\* a thread without slots runs everything inline.
Get(t, type) == IF t \in Registered THEN type ELSE "immediate"

\* ScheduleWithReservedTaskId: refused after Shutdown.
Push(e, task) ==
  /\ e \notin stopped
  /\ queue' = [queue EXCEPT ![e] = @ \cup {task}]
  /\ UNCHANGED stopped

PushRefused(e) == e \in stopped /\ UNCHANGED executorVars

\* PopTask, by Pump on the foreground thread or by a worker of the pool.
Pop(t, task) ==
  LET e == IF t \in Workers THEN "background" ELSE "foreground"
  IN  /\ t \in Workers \cup {Pumper}
      /\ task \in queue[e]
      /\ queue' = [queue EXCEPT ![e] = @ \ {task}]
      /\ UNCHANGED stopped

\* SimpleForegroundExecutor::Shutdown clears the queue; the pool's workers empty theirs.
StopForeground ==
  /\ "foreground" \notin stopped
  /\ stopped' = stopped \cup {"foreground"}
  /\ queue' = [queue EXCEPT !["foreground"] = {}]

StopBackground ==
  /\ "background" \notin stopped
  /\ stopped' = stopped \cup {"background"}
  /\ UNCHANGED queue
=============================================================================

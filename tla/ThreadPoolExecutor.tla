------------------------ MODULE ThreadPoolExecutor ------------------------
(***************************************************************************)
(* ThreadPoolExecutor (engine/core/jobs/thread_pool_executor.cc): worker   *)
(* threads take tasks from a TaskScheduler under one mutex; any thread may *)
(* schedule, pump and shut down.                                           *)
(*                                                                         *)
(* One step is one critical section of mutex_, one notification made       *)
(* outside it, one join, or a task's body returning.  A condition variable *)
(* is the set of threads whose pc waits on it; a wait may also end for no  *)
(* reason (SpuriousWake).  Tasks may call the scheduling operations;  they *)
(* do not pump or shut down the pool that runs them.                       *)
(***************************************************************************)
EXTENDS TaskScheduler, FiniteSets

CONSTANTS
  Workers,    \* workers_, started by the constructor
  Callers,    \* the other threads that use the pool
  MaxNow      \* bound: time stops there

NoTask == 0

VARIABLES
  shutting_down,
  active_tasks,
  pc,         \* where each thread is in WorkerLoop, Pump, RunTask or Shutdown
  task,       \* the task each thread has popped and not accounted for
  drain,      \* the argument of each caller's Pump
  finished    \* history: the tasks whose body has returned

poolVars == <<shutting_down, active_tasks, pc, task, drain, finished>>
vars == <<schedulerVars, poolVars>>

Threads == Workers \cup Callers

ASSUME PoolAssumption ==
  /\ Workers \cap Callers = {}
  /\ IsFiniteSet(Threads)
  /\ Workers # {}
  /\ MaxNow \in Nat

WorkerPc == {"loop", "cv_wait", "run", "ran", "exited"}
CallerPc == {"idle", "pump", "drain_wait", "pump_idle", "idle_wait", "idle_woken",
             "run", "ran", "shutdown_notify", "join"}

Init ==
  /\ SchedulerInit
  /\ shutting_down = FALSE
  /\ active_tasks = 0
  /\ pc = [t \in Threads |-> IF t \in Workers THEN "loop" ELSE "idle"]
  /\ task = [t \in Threads |-> NoTask]
  /\ drain = [t \in Callers |-> FALSE]
  /\ finished = {}

Goto(t, label) == pc' = [pc EXCEPT ![t] = label]

\* A thread can call the pool between its own calls, or from the task it runs.
CanCall(t) == pc[t] \in {"idle", "run"}

\* cv_.notify_one(): some thread waiting for work looks again, if there is one.
NotifyWorker ==
  LET waiting == {w \in Workers : pc[w] = "cv_wait"}
  IN  IF waiting = {} THEN UNCHANGED pc
      ELSE \E w \in waiting : Goto(w, "loop")

-----------------------------------------------------------------------------
(* Scheduling.  After shutdown, and for an id that is not reserved or a    *)
(* task that is not queued, the calls refuse and change nothing.           *)

ScheduleInvocable(t, priority) ==
  /\ CanCall(t) /\ ~shutting_down
  /\ PushTask(priority)
  /\ NotifyWorker
  /\ UNCHANGED <<shutting_down, active_tasks, task, drain, finished>>

\* An empty invocable: kInvalidTaskId is returned, and cv_ notified all the same.
ScheduleEmpty(t) ==
  /\ CanCall(t) /\ ~shutting_down
  /\ PushEmptyTask
  /\ NotifyWorker
  /\ UNCHANGED <<shutting_down, active_tasks, task, drain, finished>>

Reserve(t) ==
  /\ CanCall(t) /\ ~shutting_down
  /\ ReserveTaskId
  /\ UNCHANGED poolVars

\* The push without cv_.notify_one().
ScheduleReservedSilently(t, id, priority) ==
  /\ CanCall(t) /\ ~shutting_down
  /\ PushWithReservedTaskId(id, priority)
  /\ UNCHANGED poolVars

ScheduleWithReservedTaskId(t, id, priority) ==
  /\ CanCall(t) /\ ~shutting_down
  /\ PushWithReservedTaskId(id, priority)
  /\ NotifyWorker
  /\ UNCHANGED <<shutting_down, active_tasks, task, drain, finished>>

UpdateTaskPriority(t, id, priority) ==
  /\ CanCall(t)
  /\ RescheduleTask(id, priority)
  /\ UNCHANGED poolVars

-----------------------------------------------------------------------------
(* Running a task: taken and counted in one critical section, uncounted in *)
(* another once its body has returned.                                     *)

Take(t) ==
  /\ task' = [task EXCEPT ![t] = NextTask]
  /\ PopTask
  /\ active_tasks' = active_tasks + 1
  /\ Goto(t, "run")
  /\ UNCHANGED <<shutting_down, drain, finished>>

\* The body returns.
TaskReturns(t) ==
  /\ pc[t] = "run"
  /\ finished' = finished \cup {task[t]}
  /\ Goto(t, "ran")
  /\ UNCHANGED <<schedulerVars, shutting_down, active_tasks, task, drain>>

AfterTask(t) ==
  IF t \in Workers THEN "loop" ELSE IF drain[t] THEN "pump" ELSE "idle"

Woken(label) ==
  CASE label = "drain_wait" -> "pump"
    [] label = "idle_wait"  -> "idle_woken"
    [] OTHER                -> label

\* The wake-up that only one of the threads waiting to drain receives.
AccountWakesOne(t) ==
  /\ pc[t] = "ran"
  /\ active_tasks' = active_tasks - 1
  /\ task' = [task EXCEPT ![t] = NoTask]
  /\ LET moved == [pc EXCEPT ![t] = AfterTask(t)]
         waiting == {u \in Callers : pc[u] \in {"drain_wait", "idle_wait"}}
     IN  IF active_tasks' = 0 /\ IsEmpty /\ waiting # {}
         THEN \E u \in waiting : pc' = [moved EXCEPT ![u] = Woken(pc[u])]
         ELSE pc' = moved
  /\ UNCHANGED <<schedulerVars, shutting_down, drain, finished>>

\* RunTask's tail: uncount, and wake every draining thread when all is quiet.
Account(t) ==
  /\ pc[t] = "ran"
  /\ active_tasks' = IF active_tasks > 0 THEN active_tasks - 1 ELSE 0
  /\ task' = [task EXCEPT ![t] = NoTask]
  /\ LET moved == [pc EXCEPT ![t] = AfterTask(t)]
     IN  pc' = IF active_tasks' = 0 /\ IsEmpty
               THEN [u \in Threads |-> Woken(moved[u])]
               ELSE moved
  /\ UNCHANGED <<schedulerVars, shutting_down, drain, finished>>

-----------------------------------------------------------------------------
(* WorkerLoop.                                                             *)

WorkerTake(w) ==
  /\ pc[w] = "loop"
  /\ ~IsEmpty
  /\ Take(w)

WorkerWait(w) ==
  /\ pc[w] = "loop"
  /\ IsEmpty /\ ~shutting_down
  /\ Goto(w, "cv_wait")
  /\ UNCHANGED <<schedulerVars, shutting_down, active_tasks, task, drain, finished>>

\* An exit as soon as the pool shuts down, with tasks still queued.
WorkerExitEarly(w) ==
  /\ pc[w] = "loop"
  /\ shutting_down
  /\ Goto(w, "exited")
  /\ UNCHANGED <<schedulerVars, shutting_down, active_tasks, task, drain, finished>>

WorkerExit(w) ==
  /\ pc[w] = "loop"
  /\ IsEmpty /\ shutting_down
  /\ Goto(w, "exited")
  /\ UNCHANGED <<schedulerVars, shutting_down, active_tasks, task, drain, finished>>

-----------------------------------------------------------------------------
(* Pump.                                                                   *)

PumpBegin(t, d) ==
  /\ pc[t] = "idle"
  /\ drain' = [drain EXCEPT ![t] = d]
  /\ Goto(t, "pump")
  /\ UNCHANGED <<schedulerVars, shutting_down, active_tasks, task, finished>>

\* The wait at the top of the loop: nothing queued, something running.
PumpWait(t) ==
  /\ pc[t] = "pump"
  /\ drain[t] /\ IsEmpty /\ active_tasks > 0
  /\ Goto(t, "drain_wait")
  /\ UNCHANGED <<schedulerVars, shutting_down, active_tasks, task, drain, finished>>

\* A task taken by Pump and not counted.
PumpTakeUncounted(t) ==
  /\ pc[t] = "pump"
  /\ ~IsEmpty
  /\ task' = [task EXCEPT ![t] = NextTask]
  /\ PopTask
  /\ Goto(t, "run")
  /\ UNCHANGED <<shutting_down, active_tasks, drain, finished>>

PumpTake(t) ==
  /\ pc[t] = "pump"
  /\ ~IsEmpty
  /\ Take(t)

\* Nothing to take: Pump(false) returns, Pump(true) takes the lock again.
PumpNone(t) ==
  /\ pc[t] = "pump"
  /\ IsEmpty /\ (drain[t] => active_tasks = 0)
  /\ Goto(t, IF drain[t] THEN "pump_idle" ELSE "idle")
  /\ UNCHANGED <<schedulerVars, shutting_down, active_tasks, task, drain, finished>>

PumpReturn(t) ==
  /\ pc[t] = "pump_idle"
  /\ IsEmpty /\ active_tasks = 0
  /\ Goto(t, "idle")
  /\ UNCHANGED <<schedulerVars, shutting_down, active_tasks, task, drain, finished>>

\* The second wait, at its entry and after a wake-up.
PumpIdle(t) ==
  /\ \/ pc[t] = "pump_idle" /\ ~(IsEmpty /\ active_tasks = 0)
     \/ pc[t] = "idle_woken"
  /\ Goto(t, IF active_tasks = 0 \/ ~IsEmpty THEN "pump" ELSE "idle_wait")
  /\ UNCHANGED <<schedulerVars, shutting_down, active_tasks, task, drain, finished>>

-----------------------------------------------------------------------------
(* Shutdown, and the destructor, which calls it.  Only the call that sets  *)
(* shutting_down joins; a later one returns at once.                       *)

ShutdownBegin(t) ==
  /\ pc[t] = "idle"
  /\ ~shutting_down
  /\ shutting_down' = TRUE
  /\ Goto(t, "shutdown_notify")
  /\ UNCHANGED <<schedulerVars, active_tasks, task, drain, finished>>

ShutdownNotify(t) ==
  /\ pc[t] = "shutdown_notify"
  /\ pc' = [u \in Threads |-> CASE u = t            -> "join"
                                [] pc[u] = "cv_wait" -> "loop"
                                [] OTHER             -> pc[u]]
  /\ UNCHANGED <<schedulerVars, shutting_down, active_tasks, task, drain, finished>>

ShutdownJoined(t) ==
  /\ pc[t] = "join"
  /\ \A w \in Workers : pc[w] = "exited"
  /\ Goto(t, "idle")
  /\ UNCHANGED <<schedulerVars, shutting_down, active_tasks, task, drain, finished>>

-----------------------------------------------------------------------------
SpuriousWake(t) ==
  /\ pc[t] \in {"cv_wait", "drain_wait", "idle_wait"}
  /\ Goto(t, IF pc[t] = "cv_wait" THEN "loop" ELSE Woken(pc[t]))
  /\ UNCHANGED <<schedulerVars, shutting_down, active_tasks, task, drain, finished>>

\* Time passes.
Tick ==
  /\ now < MaxNow
  /\ now' = now + 1
  /\ UNCHANGED <<next_task_id, reserved_task_ids, tasks, queue_order, poolVars>>

Call(t) ==
  \/ \E p \in Priorities : ScheduleInvocable(t, p)
  \/ ScheduleEmpty(t) \/ Reserve(t)
  \/ \E id \in TaskIds, p \in Priorities : ScheduleWithReservedTaskId(t, id, p)
  \/ \E id \in TaskIds, p \in Priorities : UpdateTaskPriority(t, id, p)

WorkerStep(w) ==
  \/ WorkerTake(w) \/ WorkerWait(w) \/ WorkerExit(w)
  \/ TaskReturns(w) \/ Account(w)

\* A caller inside Pump or Shutdown.
CallerStep(t) ==
  \/ PumpWait(t) \/ PumpTake(t) \/ PumpNone(t) \/ PumpReturn(t) \/ PumpIdle(t)
  \/ TaskReturns(t) \/ Account(t)
  \/ ShutdownNotify(t) \/ ShutdownJoined(t)

Next ==
  \/ \E t \in Threads : Call(t) \/ SpuriousWake(t)
  \/ \E w \in Workers : WorkerStep(w)
  \/ \E t \in Callers : CallerStep(t) \/ ShutdownBegin(t)
                        \/ \E d \in BOOLEAN : PumpBegin(t, d)
  \/ Tick

\* Every thread that is not blocked keeps running, and tasks return.
Fairness ==
  /\ \A w \in Workers : WF_vars(WorkerStep(w))
  /\ \A t \in Callers : WF_vars(CallerStep(t))

Spec == Init /\ [][Next]_vars /\ Fairness

-----------------------------------------------------------------------------
(* Properties.                                                             *)

\* Every variable stays in its range.
TypeOK ==
  /\ SchedulerTypeOK
  /\ shutting_down \in BOOLEAN
  /\ active_tasks \in 0 .. Cardinality(Threads)
  /\ pc \in [Threads -> WorkerPc \cup CallerPc]
  /\ \A w \in Workers : pc[w] \in WorkerPc
  /\ \A t \in Callers : pc[t] \in CallerPc
  /\ task \in [Threads -> TaskIds \cup {NoTask}]
  /\ drain \in [Callers -> BOOLEAN]
  /\ finished \subseteq TaskIds

Holders == {t \in Threads : task[t] # NoTask}
Unfinished == DOMAIN tasks \cup {task[t] : t \in {u \in Threads : pc[u] = "run"}}
Accepted == Unfinished \cup finished

\* A task runs once: two threads never hold the same one, and one that was
\* taken or has finished is not queued.
RunsOnce ==
  /\ \A t, u \in Holders : t # u => task[t] # task[u]
  /\ \A t \in Holders : task[t] \notin DOMAIN tasks
  /\ Unfinished \cap finished = {}

\* active_tasks counts exactly the threads between taking a task and
\* accounting for it: Pump's decision to wait or return rests on it.
ActiveCount == active_tasks = Cardinality(Holders)

\* Every accepted task is in one place, the queue, a thread or the past, and
\* the scheduler and the pool count them right: IsEmpty, Pump(true) and
\* Shutdown decide on these numbers alone.
TasksAccounted == TypeOK /\ QueueMatchesTasks /\ RunsOnce /\ ActiveCount

\* When Pump(true) returns, every task accepted so far, by any thread, has
\* finished.
DrainMeansDone ==
  [][\A t \in Callers :
       pc[t] = "pump_idle" /\ pc'[t] = "idle" => Unfinished = {}]_vars

\* When the Shutdown that joins returns, the workers have finished every
\* accepted task, but for one a concurrent Pump still runs; none is queued.
ShutdownDrains ==
  [][\A t \in Callers :
       pc[t] = "join" /\ pc'[t] = "idle" =>
         Unfinished \subseteq {task[u] : u \in Callers}]_vars

\* Every accepted task is run to its end: no wake-up is lost.
AcceptedFinishes == \A id \in TaskIds : id \in Accepted ~> id \in finished

\* No call waits for ever: Pump(true) returns once tasks stop being added
\* (MaxTaskId bounds them), and Shutdown once the workers have drained the queue.
CallsReturn ==
  \A t \in Callers : pc[t] \in {"pump", "shutdown_notify"} ~> pc[t] = "idle"
=============================================================================

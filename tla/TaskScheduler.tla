--------------------------- MODULE TaskScheduler ---------------------------
(***************************************************************************)
(* TaskScheduler (engine/core/jobs/task_scheduler.cc): the reprioritizable *)
(* queue inside every executor.  It has no lock of its own: an executor    *)
(* calls it under the executor's mutex, so each operation is one step and  *)
(* is written here as an action on the scheduler's variables, for the      *)
(* executors' modules to combine with their own.                           *)
(*                                                                         *)
(* A task is known by its id; its invocable is only empty or not.  Time is *)
(* `now`, in the unit of AgeRate.                                          *)
(***************************************************************************)
EXTENDS Integers, Sequences, SequencesExt

CONSTANTS
  Priorities,   \* the priorities callers ask for
  AgeRate,      \* task_age_rate; 0 or less disables aging
  MaxTaskId     \* bound: ids handed out, far below the 2^32 of the code

kGenericTaskId == 1
kMinimumTaskPriority == -100
kMaximumTaskPriority == 100
TaskIds == kGenericTaskId + 1 .. MaxTaskId

ASSUME SchedulerAssumption ==
  /\ Priorities \subseteq Int
  /\ AgeRate \in Int
  /\ MaxTaskId \in Nat \ {0}

VARIABLES
  now,                \* steady_clock::now()
  next_task_id,
  reserved_task_ids,  \* ids given out and not pushed yet
  tasks,              \* the queued tasks' entries, by id
  queue_order         \* the queued ids, oldest first

schedulerVars == <<now, next_task_id, reserved_task_ids, tasks, queue_order>>

SchedulerInit ==
  /\ now = 0
  /\ next_task_id = kGenericTaskId + 1
  /\ reserved_task_ids = {}
  /\ tasks = <<>>
  /\ queue_order = <<>>

IsEmpty == queue_order = <<>>

\* std::clamp to the range of priorities.
Clamp(priority) ==
  CASE priority < kMinimumTaskPriority -> kMinimumTaskPriority
    [] priority > kMaximumTaskPriority -> kMaximumTaskPriority
    [] OTHER                           -> priority

-----------------------------------------------------------------------------
\* tasks_[id] = entry; queue_order_.push_back(id)
Enqueue(id, priority) ==
  /\ tasks' = [i \in DOMAIN tasks \cup {id} |->
                 IF i = id THEN [priority |-> Clamp(priority), enqueued_at |-> now]
                           ELSE tasks[i]]
  /\ queue_order' = Append(queue_order, id)

ReserveTaskId ==
  /\ next_task_id \in TaskIds
  /\ next_task_id' = next_task_id + 1
  /\ reserved_task_ids' = reserved_task_ids \cup {next_task_id}
  /\ UNCHANGED <<now, tasks, queue_order>>

\* PushTask of an empty invocable: refused, after the id was reserved for it.
PushEmptyTask == ReserveTaskId

\* Reserving an id and pushing on it at once.
PushTask(priority) ==
  /\ next_task_id \in TaskIds
  /\ next_task_id' = next_task_id + 1
  /\ Enqueue(next_task_id, priority)
  /\ UNCHANGED <<now, reserved_task_ids>>

\* A push that keeps the id reserved could be repeated on the same id.
PushKeepsReservation(id, priority) ==
  /\ id \in reserved_task_ids
  /\ Enqueue(id, priority)
  /\ UNCHANGED <<now, next_task_id, reserved_task_ids>>

PushWithReservedTaskId(id, priority) ==
  /\ id \in reserved_task_ids
  /\ reserved_task_ids' = reserved_task_ids \ {id}
  /\ Enqueue(id, priority)
  /\ UNCHANGED <<now, next_task_id>>

RescheduleTask(id, priority) ==
  /\ id \in DOMAIN tasks
  /\ tasks' = [tasks EXCEPT ![id].priority = Clamp(priority)]
  /\ UNCHANGED <<now, next_task_id, reserved_task_ids, queue_order>>

-----------------------------------------------------------------------------
EffectivePriority(id) ==
  tasks[id].priority +
    (IF AgeRate <= 0 THEN 0 ELSE (now - tasks[id].enqueued_at) \div AgeRate)

\* Among equals the newest, as `>=` in place of `>` would pick.
NewestBest ==
  CHOOSE i \in DOMAIN queue_order :
    \A j \in DOMAIN queue_order :
      \/ EffectivePriority(queue_order[j]) < EffectivePriority(queue_order[i])
      \/ EffectivePriority(queue_order[j]) = EffectivePriority(queue_order[i]) /\ j <= i

\* The scan's best_index: the highest effective priority, the oldest among equals.
BestIndex ==
  CHOOSE i \in DOMAIN queue_order :
    \A j \in DOMAIN queue_order :
      \/ EffectivePriority(queue_order[j]) < EffectivePriority(queue_order[i])
      \/ EffectivePriority(queue_order[j]) = EffectivePriority(queue_order[i]) /\ i <= j

NextTask == queue_order[BestIndex]

\* PopTask on a queue that is not empty; on an empty one it changes nothing.
PopTask ==
  /\ ~IsEmpty
  /\ queue_order' = RemoveAt(queue_order, BestIndex)
  /\ tasks' = [i \in DOMAIN tasks \ {NextTask} |-> tasks[i]]
  /\ UNCHANGED <<now, next_task_id, reserved_task_ids>>

-----------------------------------------------------------------------------
SchedulerTypeOK ==
  /\ now \in Nat
  /\ next_task_id \in TaskIds \cup {MaxTaskId + 1}
  /\ reserved_task_ids \subseteq TaskIds
  /\ DOMAIN tasks \subseteq TaskIds
  /\ \A id \in DOMAIN tasks :
       tasks[id] \in [priority : kMinimumTaskPriority .. kMaximumTaskPriority,
                       enqueued_at : 0 .. now]
  /\ queue_order \in Seq(TaskIds)

\* The map and the order agree: every queued id has one entry and one place, is
\* no longer reserved and was handed out.  An id with a place and no entry would
\* keep IsEmpty() false for ever, with workers spinning and Pump never returning.
QueueMatchesTasks ==
  /\ ToSet(queue_order) = DOMAIN tasks
  /\ IsInjective(queue_order)
  /\ reserved_task_ids \cap DOMAIN tasks = {}
  /\ \A id \in reserved_task_ids \cup DOMAIN tasks : id < next_task_id

\* Has u waited before t for long enough to make up for t's higher priority?
Due(u, t) ==
  /\ \E i, j \in DOMAIN queue_order : i < j /\ queue_order[i] = u /\ queue_order[j] = t
  /\ IF AgeRate <= 0
     THEN tasks[t].priority <= tasks[u].priority
     ELSE (tasks[t].priority - tasks[u].priority) * AgeRate
            <= tasks[t].enqueued_at - tasks[u].enqueued_at

\* Aging prevents starvation: a task is never popped ahead of an older one whose
\* head start makes up the difference of their priorities, equals included.
OlderTaskNotOvertaken ==
  [][\A t, u \in DOMAIN tasks :
       t \notin DOMAIN tasks' /\ u \in DOMAIN tasks' => ~Due(u, t)]_schedulerVars
=============================================================================

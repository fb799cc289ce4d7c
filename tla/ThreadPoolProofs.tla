-------------------------- MODULE ThreadPoolProofs --------------------------
(***************************************************************************)
(* The pool accounts for every task, Pump(true) and Shutdown mean what     *)
(* they say and aging prevents starvation, for any number of threads and   *)
(* any priorities.                                                         *)
(***************************************************************************)
EXTENDS ThreadPoolExecutor, FiniteSetTheorems, SequenceTheorems, TLAPS

-----------------------------------------------------------------------------
(* The inductive invariant.                                                *)

SchedulerInv == SchedulerTypeOK /\ QueueMatchesTasks

\* A thread has a task while it is running one, and until it has accounted for it.
HoldersRun == \A t \in Threads : task[t] # NoTask <=> pc[t] \in {"run", "ran"}

\* Ids of tasks that were taken are never given out or pushed on again.
TakenIdsUsed ==
  /\ \A t \in Holders : task[t] < next_task_id /\ task[t] \notin reserved_task_ids
  /\ \A id \in finished :
       id < next_task_id /\ id \notin reserved_task_ids /\ id \notin DOMAIN tasks

\* A worker leaves only after everything was taken, and then nothing can be added.
ExitedMeansDrained ==
  \A w \in Workers : pc[w] = "exited" => shutting_down /\ IsEmpty

PoolInv ==
  /\ TasksAccounted
  /\ HoldersRun /\ TakenIdsUsed /\ ExitedMeansDrained

-----------------------------------------------------------------------------
(* Numbers and sequences.                                                  *)

\* A set of naturals that is not empty has a least element.
LEMMA LeastNatural ==
  ASSUME NEW S \in SUBSET Nat, S # {}
  PROVE  \E m \in S : \A k \in S : m <= k
<1>1. IsWellFoundedOn({ss \in Nat \X Nat : ss[1] < ss[2]}, Nat)
  BY NatLessThanWellFounded DEF OpToRel
<1>2. PICK m \in S : \A k \in S : ~(<<k, m>> \in {ss \in Nat \X Nat : ss[1] < ss[2]})
  BY <1>1, WFMin, Zenon
<1>3. ASSUME NEW k \in S PROVE m <= k
  <2>1. <<k, m>> \in Nat \X Nat /\ <<k, m>>[1] = k /\ <<k, m>>[2] = m
    OBVIOUS
  <2>2. ~(k < m)
    BY <1>2, <2>1
  <2> QED BY <2>2
<1> QED BY <1>3

\* Division with remainder of naturals.
LEMMA QuotientAndRemainder ==
  ASSUME NEW p \in Nat, NEW c \in Nat \ {0}
  PROVE  /\ p \div c \in Nat
         /\ p % c \in 0 .. c - 1
         /\ p = c * (p \div c) + (p % c)
<1>1. p \div c \in Nat OBVIOUS
<1>2. p % c \in 0 .. c - 1 OBVIOUS
<1>3. p = c * (p \div c) + (p % c) OBVIOUS
<1> QED BY <1>1, <1>2, <1>3

\* The next two speak of quotients p and q and remainders m and n, without dividing.
LEMMA QuotientBound ==
  ASSUME NEW c \in Nat \ {0}, NEW q \in Nat, NEW m \in 0 .. c - 1
  PROVE  q <= c * q + m
<1>1. (c - 1) * q >= 0
  OBVIOUS
<1> QED BY <1>1

LEMMA QuotientsApart ==
  ASSUME NEW c \in Nat \ {0}, NEW p \in Nat, NEW q \in Nat, NEW d \in Int,
         NEW m \in 0 .. c - 1, NEW n \in 0 .. c - 1,
         (c * p + m) - (c * q + n) >= d * c
  PROVE  p >= q + d
<1> SUFFICES ASSUME q + d - p >= 1 PROVE FALSE
  OBVIOUS
<1> DEFINE x == c * p
           y == c * q
           z == d * c
<1>1. c * ((q + d - p) - 1) >= 0
  OBVIOUS
<1>2. c * ((q + d - p) - 1) = y + z - x - c
  OBVIOUS
<1>3. x \in Int /\ y \in Int /\ z \in Int
  OBVIOUS
<1>4. (x + m) - (y + n) >= z /\ y + z - x - c >= 0
  BY <1>1, <1>2
<1> HIDE DEF x, y, z
<1> QED BY <1>3, <1>4

\* The quotient of a natural by a positive number lies between 0 and the natural.
LEMMA QuotientRange ==
  ASSUME NEW a \in Nat, NEW c \in Nat \ {0}
  PROVE  a \div c \in 0 .. a
<1>1. PICK q \in Nat, m \in 0 .. c - 1 : q = a \div c /\ a = c * q + m
  BY QuotientAndRemainder, Zenon
<1>2. q <= a
  BY <1>1, QuotientBound
<1> QED BY <1>1, <1>2

\* A multiple of the divisor that is added moves the quotient as far.
LEMMA QuotientGains ==
  ASSUME NEW a \in Nat, NEW b \in Nat, NEW c \in Nat \ {0}, NEW d \in Int, a - b >= d * c
  PROVE  a \div c >= b \div c + d
<1>1. PICK p \in Nat, m \in 0 .. c - 1 : p = a \div c /\ a = c * p + m
  BY QuotientAndRemainder, Zenon
<1>2. PICK q \in Nat, n \in 0 .. c - 1 : q = b \div c /\ b = c * q + n
  BY QuotientAndRemainder, Zenon
<1>3. (c * p + m) - (c * q + n) >= d * c
  BY <1>1, <1>2
<1>4. p >= q + d
  BY <1>3, QuotientsApart
<1> QED BY <1>1, <1>2, <1>4

\* Removing an index moves what follows it one place up.
LEMMA RemoveAtSpec ==
  ASSUME NEW S, NEW s \in Seq(S), NEW i \in 1 .. Len(s)
  PROVE  /\ RemoveAt(s, i) \in Seq(S)
         /\ Len(RemoveAt(s, i)) = Len(s) - 1
         /\ \A j \in 1 .. Len(s) - 1 :
              RemoveAt(s, i)[j] = IF j < i THEN s[j] ELSE s[j + 1]
<1> DEFINE front == SubSeq(s, 1, i - 1)
           back == SubSeq(s, i + 1, Len(s))
<1>1. /\ front \in Seq(S) /\ Len(front) = i - 1
      /\ \A j \in 1 .. i - 1 : front[j] = s[j]
  <2>1. \A j \in 1 .. i - 1 : s[j] \in S
    OBVIOUS
  <2>2. /\ front \in Seq(S)
        /\ Len(front) = IF 1 <= i - 1 THEN (i - 1) - 1 + 1 ELSE 0
        /\ \A j \in 1 .. (i - 1) - 1 + 1 : front[j] = s[1 + j - 1]
    BY <2>1, SubSeqProperties
  <2> QED BY <2>2
<1>2. /\ back \in Seq(S) /\ Len(back) = Len(s) - i
      /\ \A j \in 1 .. Len(s) - i : back[j] = s[i + j]
  <2>1. \A j \in i + 1 .. Len(s) : s[j] \in S
    OBVIOUS
  <2>2. /\ back \in Seq(S)
        /\ Len(back) = IF i + 1 <= Len(s) THEN Len(s) - (i + 1) + 1 ELSE 0
        /\ \A j \in 1 .. Len(s) - (i + 1) + 1 : back[j] = s[(i + 1) + j - 1]
    BY <2>1, SubSeqProperties
  <2> QED BY <2>2
<1>3. RemoveAt(s, i) = front \o back
  BY DEF RemoveAt
<1> HIDE DEF front, back
<1>4. /\ front \o back \in Seq(S) /\ Len(front \o back) = Len(s) - 1
      /\ \A j \in 1 .. Len(s) - 1 : (front \o back)[j] =
           IF j <= i - 1 THEN front[j] ELSE back[j - (i - 1)]
  BY <1>1, <1>2, ConcatProperties
<1>5. ASSUME NEW j \in 1 .. Len(s) - 1
      PROVE  (front \o back)[j] = IF j < i THEN s[j] ELSE s[j + 1]
  <2>1. CASE j < i
    BY <1>1, <1>4, <2>1
  <2>2. CASE ~(j < i)
    <3>1. j - (i - 1) \in 1 .. Len(s) - i /\ i + (j - (i - 1)) = j + 1
      BY <2>2
    <3> QED BY <1>2, <1>4, <2>2, <3>1
  <2> QED BY <2>1, <2>2
<1> QED BY <1>3, <1>4, <1>5

-----------------------------------------------------------------------------
(* The scheduler.                                                          *)

LEMMA ClampRange ==
  ASSUME NEW priority \in Int
  PROVE  Clamp(priority) \in kMinimumTaskPriority .. kMaximumTaskPriority
BY DEF Clamp, kMinimumTaskPriority, kMaximumTaskPriority

\* Age only adds to a priority, and no more than the time that has passed.
LEMMA EffectivePriorityRange ==
  ASSUME SchedulerTypeOK, NEW id \in DOMAIN tasks
  PROVE  EffectivePriority(id) \in kMinimumTaskPriority .. kMaximumTaskPriority + now
<1>1. /\ now \in Nat
      /\ tasks[id].priority \in kMinimumTaskPriority .. kMaximumTaskPriority
      /\ tasks[id].enqueued_at \in 0 .. now
  BY DEF SchedulerTypeOK
<1>2. AgeRate \in Int
  BY SchedulerAssumption DEF SchedulerAssumption
<1> USE DEF kMinimumTaskPriority, kMaximumTaskPriority
<1>3. CASE AgeRate <= 0
  BY <1>1, <1>3 DEF EffectivePriority
<1>4. CASE AgeRate > 0
  <2>1. now - tasks[id].enqueued_at \in 0 .. now
    BY <1>1
  <2>2. (now - tasks[id].enqueued_at) \div AgeRate \in 0 .. now - tasks[id].enqueued_at
    BY <1>2, <1>4, <2>1, QuotientRange
  <2> DEFINE bonus == (now - tasks[id].enqueued_at) \div AgeRate
  <2>3. EffectivePriority(id) = tasks[id].priority + bonus
    BY <1>2, <1>4 DEF EffectivePriority
  <2> HIDE DEF bonus
  <2>4. bonus \in 0 .. now
    BY <1>1, <2>1, <2>2 DEF bonus
  <2> QED BY <1>1, <2>3, <2>4
<1> QED BY <1>2, <1>3, <1>4

\* What the scan finds.
Best(i) ==
  \A j \in DOMAIN queue_order :
    \/ EffectivePriority(queue_order[j]) < EffectivePriority(queue_order[i])
    \/ EffectivePriority(queue_order[j]) = EffectivePriority(queue_order[i]) /\ i <= j

\* The scan of a queue that is not empty finds an entry.
LEMMA BestFound ==
  ASSUME SchedulerInv, ~IsEmpty
  PROVE  /\ BestIndex \in 1 .. Len(queue_order)
         /\ Best(BestIndex)
         /\ NextTask \in DOMAIN tasks
<1> DEFINE n == Len(queue_order)
           Value(i) == EffectivePriority(queue_order[i])
           top == kMaximumTaskPriority + now
           Gap(i) == top - Value(i)
<1>1. n \in Nat \ {0} /\ DOMAIN queue_order = 1 .. n
  BY EmptySeq, LenProperties DEF SchedulerInv, SchedulerTypeOK, IsEmpty
<1>2. \A i \in 1 .. n : queue_order[i] \in DOMAIN tasks
  BY <1>1 DEF SchedulerInv, QueueMatchesTasks, ToSet
<1>3. top \in Int
  BY DEF SchedulerInv, SchedulerTypeOK, kMaximumTaskPriority
<1>4. \A i \in 1 .. n : Value(i) \in Int /\ Gap(i) \in Nat
  <2> SUFFICES ASSUME NEW i \in 1 .. n PROVE Value(i) \in Int /\ Gap(i) \in Nat
    OBVIOUS
  <2>1. Value(i) \in kMinimumTaskPriority .. top
    BY <1>2, EffectivePriorityRange DEF SchedulerInv
  <2> HIDE DEF Value
  <2> QED BY <1>3, <2>1 DEF kMinimumTaskPriority
<1> HIDE DEF Value, top, n
<1>5. PICK g \in {Gap(i) : i \in 1 .. n} : \A h \in {Gap(i) : i \in 1 .. n} : g <= h
  <2>1. {Gap(i) : i \in 1 .. n} \in SUBSET Nat
    BY <1>4
  <2>2. {Gap(i) : i \in 1 .. n} # {}
    BY <1>1
  <2> QED BY <2>1, <2>2, LeastNatural
<1>6. PICK b \in {i \in 1 .. n : Gap(i) = g} : \A k \in {i \in 1 .. n : Gap(i) = g} : b <= k
  <2>1. {i \in 1 .. n : Gap(i) = g} \in SUBSET Nat /\ {i \in 1 .. n : Gap(i) = g} # {}
    BY <1>1, <1>5
  <2> QED BY <2>1, LeastNatural
<1>7. \A j \in 1 .. n : Value(j) < Value(b) \/ (Value(j) = Value(b) /\ b <= j)
  <2> SUFFICES ASSUME NEW j \in 1 .. n
               PROVE  Value(j) < Value(b) \/ (Value(j) = Value(b) /\ b <= j)
    OBVIOUS
  <2>1. Gap(b) <= Gap(j)
    BY <1>5, <1>6
  <2>2. Gap(j) = Gap(b) => b <= j
    BY <1>6
  <2>3. Value(j) \in Int /\ Value(b) \in Int
    BY <1>4, <1>6
  <2> QED BY <1>3, <2>1, <2>2, <2>3
<1>8. b \in DOMAIN queue_order /\ Best(b)
  BY <1>1, <1>6, <1>7 DEF Best, Value
<1>9. BestIndex = CHOOSE i \in DOMAIN queue_order : Best(i)
  BY DEF BestIndex, Best
<1>10. BestIndex \in DOMAIN queue_order /\ Best(BestIndex)
  BY <1>8, <1>9
<1> QED BY <1>1, <1>2, <1>10 DEF NextTask, n

\* An id at or below the bound that is handed out next.
LEMMA NextIdIsFresh ==
  ASSUME SchedulerInv, next_task_id \in TaskIds
  PROVE  /\ next_task_id \notin reserved_task_ids \cup DOMAIN tasks
         /\ next_task_id + 1 \in TaskIds \cup {MaxTaskId + 1}
BY SchedulerAssumption
   DEF SchedulerInv, QueueMatchesTasks, TaskIds, kGenericTaskId, SchedulerAssumption

\* Putting an id into the queue that has no place there.
LEMMA EnqueueKeeps ==
  ASSUME SchedulerInv, NEW id \in TaskIds, id \notin DOMAIN tasks,
         NEW priority \in Int, Enqueue(id, priority), now' = now,
         next_task_id' \in TaskIds \cup {MaxTaskId + 1}, next_task_id <= next_task_id',
         id < next_task_id', reserved_task_ids' \subseteq reserved_task_ids \ {id}
  PROVE  SchedulerInv' /\ DOMAIN tasks' = DOMAIN tasks \cup {id}
<1> USE DEF SchedulerInv, SchedulerTypeOK, QueueMatchesTasks
<1> DEFINE n == Len(queue_order)
<1>1. DOMAIN tasks' = DOMAIN tasks \cup {id}
  BY DEF Enqueue
<1>2. /\ queue_order' \in Seq(TaskIds) /\ Len(queue_order') = n + 1
      /\ \A i \in 1 .. n : queue_order'[i] = queue_order[i]
      /\ queue_order'[n + 1] = id
  BY AppendProperties DEF Enqueue
<1>3. n \in Nat /\ DOMAIN queue_order = 1 .. n /\ DOMAIN queue_order' = 1 .. n + 1
  BY <1>2, LenProperties
<1>4. \A i \in 1 .. n : queue_order[i] # id
  BY <1>3 DEF ToSet
<1> HIDE DEF n
<1>5. ToSet(queue_order') = DOMAIN tasks'
  <2>1. ToSet(queue_order') = ToSet(queue_order) \cup {id}
    BY <1>2, <1>3 DEF ToSet
  <2> QED BY <1>1, <2>1
<1>6. IsInjective(queue_order')
  BY <1>2, <1>3, <1>4 DEF IsInjective
<1>7. \A i \in DOMAIN tasks' :
        tasks'[i] \in [priority : kMinimumTaskPriority .. kMaximumTaskPriority,
                       enqueued_at : 0 .. now']
  <2>1. Clamp(priority) \in kMinimumTaskPriority .. kMaximumTaskPriority
    BY ClampRange
  <2>2. now \in 0 .. now
    OBVIOUS
  <2> QED BY <2>1, <2>2 DEF Enqueue
<1>8. \A i \in reserved_task_ids' \cup DOMAIN tasks' : i < next_task_id'
  <2>1. TaskIds \subseteq Int /\ next_task_id \in Int /\ next_task_id' \in Int
    BY SchedulerAssumption DEF TaskIds, kGenericTaskId, SchedulerAssumption
  <2> QED BY <1>1, <2>1
<1>9. SchedulerTypeOK'
  BY <1>1, <1>2, <1>7
<1>10. QueueMatchesTasks'
  BY <1>1, <1>5, <1>6, <1>8
<1> QED BY <1>1, <1>9, <1>10

\* What a call that schedules, reserves or reprioritises does: nothing leaves the queue, and
\* an id that was used up stays used up.
LEMMA CallKeepsScheduler ==
  ASSUME SchedulerInv,
         \/ ReserveTaskId
         \/ \E p \in Priorities : PushTask(p)
         \/ \E id \in TaskIds, p \in Priorities :
              PushWithReservedTaskId(id, p) \/ RescheduleTask(id, p)
  PROVE  /\ SchedulerInv'
         /\ DOMAIN tasks \subseteq DOMAIN tasks'
         /\ \A id \in TaskIds :
              id < next_task_id /\ id \notin reserved_task_ids /\ id \notin DOMAIN tasks =>
                id < next_task_id' /\ id \notin reserved_task_ids' /\ id \notin DOMAIN tasks'
<1>0. TaskIds \subseteq Int /\ next_task_id \in Int /\ Priorities \subseteq Int
  BY SchedulerAssumption
  DEF SchedulerInv, SchedulerTypeOK, TaskIds, kGenericTaskId, SchedulerAssumption
<1>1. ASSUME ReserveTaskId PROVE SchedulerInv'
  <2>1. /\ next_task_id \in TaskIds /\ next_task_id' = next_task_id + 1
        /\ reserved_task_ids' = reserved_task_ids \cup {next_task_id}
        /\ UNCHANGED <<now, tasks, queue_order>>
    BY <1>1 DEF ReserveTaskId
  <2>2. SchedulerTypeOK'
    BY <2>1, NextIdIsFresh DEF SchedulerInv, SchedulerTypeOK
  <2>3. QueueMatchesTasks'
    BY <1>0, <2>1, NextIdIsFresh DEF SchedulerInv, QueueMatchesTasks, SchedulerTypeOK
  <2> QED BY <2>2, <2>3 DEF SchedulerInv
<1>2. ASSUME NEW p \in Priorities, PushTask(p)
      PROVE  SchedulerInv' /\ DOMAIN tasks' = DOMAIN tasks \cup {next_task_id}
             /\ next_task_id' = next_task_id + 1 /\ UNCHANGED reserved_task_ids
  <2>1. /\ next_task_id \in TaskIds /\ next_task_id' = next_task_id + 1
        /\ Enqueue(next_task_id, p) /\ UNCHANGED <<now, reserved_task_ids>>
    BY <1>2 DEF PushTask
  <2>2. /\ next_task_id \notin reserved_task_ids \cup DOMAIN tasks
        /\ next_task_id + 1 \in TaskIds \cup {MaxTaskId + 1}
    BY <2>1, NextIdIsFresh
  <2> QED BY <1>0, <2>1, <2>2, EnqueueKeeps
<1>3. ASSUME NEW id \in TaskIds, NEW p \in Priorities, PushWithReservedTaskId(id, p)
      PROVE  SchedulerInv' /\ DOMAIN tasks' = DOMAIN tasks \cup {id} /\ id \in reserved_task_ids
             /\ UNCHANGED next_task_id /\ reserved_task_ids' = reserved_task_ids \ {id}
  <2>1. /\ id \in reserved_task_ids /\ reserved_task_ids' = reserved_task_ids \ {id}
        /\ Enqueue(id, p) /\ UNCHANGED <<now, next_task_id>>
    BY <1>3 DEF PushWithReservedTaskId
  <2>2. id \notin DOMAIN tasks /\ id < next_task_id'
    BY <2>1 DEF SchedulerInv, QueueMatchesTasks
  <2>3. /\ now' = now /\ reserved_task_ids' \subseteq reserved_task_ids \ {id}
        /\ next_task_id' \in TaskIds \cup {MaxTaskId + 1} /\ next_task_id <= next_task_id'
    BY <1>0, <2>1 DEF SchedulerInv, SchedulerTypeOK
  <2>4. SchedulerInv' /\ DOMAIN tasks' = DOMAIN tasks \cup {id}
    BY <1>0, <2>1, <2>2, <2>3, EnqueueKeeps
  <2> QED BY <2>1, <2>4
<1>4. ASSUME NEW id \in TaskIds, NEW p \in Priorities, RescheduleTask(id, p)
      PROVE  SchedulerInv' /\ DOMAIN tasks' = DOMAIN tasks
             /\ UNCHANGED <<next_task_id, reserved_task_ids>>
  <2>1. /\ id \in DOMAIN tasks /\ tasks' = [tasks EXCEPT ![id].priority = Clamp(p)]
        /\ UNCHANGED <<now, next_task_id, reserved_task_ids, queue_order>>
    BY <1>4 DEF RescheduleTask
  <2>2. DOMAIN tasks' = DOMAIN tasks
    BY <2>1
  <2>3. Clamp(p) \in kMinimumTaskPriority .. kMaximumTaskPriority
    BY <1>0, ClampRange
  <2>4. \A i \in DOMAIN tasks' :
          tasks'[i] \in [priority : kMinimumTaskPriority .. kMaximumTaskPriority,
                         enqueued_at : 0 .. now]
    BY <2>1, <2>2, <2>3 DEF SchedulerInv, SchedulerTypeOK
  <2>5. SchedulerTypeOK'
    BY <2>1, <2>2, <2>4 DEF SchedulerInv, SchedulerTypeOK
  <2>6. QueueMatchesTasks'
    BY <2>1, <2>2 DEF SchedulerInv, QueueMatchesTasks
  <2> QED BY <2>1, <2>2, <2>5, <2>6 DEF SchedulerInv
<1> DEFINE Goal ==
             /\ SchedulerInv'
             /\ DOMAIN tasks \subseteq DOMAIN tasks'
             /\ \A id \in TaskIds :
                  id < next_task_id /\ id \notin reserved_task_ids /\ id \notin DOMAIN tasks =>
                    id < next_task_id' /\ id \notin reserved_task_ids' /\ id \notin DOMAIN tasks'
<1>5. ReserveTaskId => Goal
  BY <1>0, <1>1 DEF ReserveTaskId
<1>6. ASSUME NEW p \in Priorities, PushTask(p) PROVE Goal
  BY <1>0, <1>2, <1>6
<1>7. ASSUME NEW id \in TaskIds, NEW p \in Priorities,
             PushWithReservedTaskId(id, p) \/ RescheduleTask(id, p)
      PROVE  Goal
  BY <1>3, <1>4, <1>7
<1> HIDE DEF Goal
<1>8. Goal
  BY <1>5, <1>6, <1>7
<1> QED BY <1>8 DEF Goal

\* Popping takes the entry the scan found, and only that, out of map and order.
LEMMA PopKeepsScheduler ==
  ASSUME SchedulerInv, PopTask
  PROVE  /\ SchedulerInv'
         /\ NextTask \in DOMAIN tasks /\ NextTask \in TaskIds
         /\ NextTask < next_task_id /\ NextTask \notin reserved_task_ids
         /\ DOMAIN tasks' = DOMAIN tasks \ {NextTask}
         /\ UNCHANGED <<next_task_id, reserved_task_ids>>
<1> DEFINE n == Len(queue_order)
           b == BestIndex
<1>1. /\ ~IsEmpty /\ queue_order' = RemoveAt(queue_order, b)
      /\ tasks' = [i \in DOMAIN tasks \ {NextTask} |-> tasks[i]]
      /\ UNCHANGED <<now, next_task_id, reserved_task_ids>>
  BY DEF PopTask
<1>2. b \in 1 .. n /\ NextTask = queue_order[b] /\ NextTask \in DOMAIN tasks
  BY <1>1, BestFound DEF NextTask
<1>3. n \in Nat /\ DOMAIN queue_order = 1 .. n /\ queue_order \in Seq(TaskIds)
  BY LenProperties DEF SchedulerInv, SchedulerTypeOK
<1>4. /\ queue_order' \in Seq(TaskIds) /\ Len(queue_order') = n - 1
      /\ \A j \in 1 .. n - 1 :
           queue_order'[j] = IF j < b THEN queue_order[j] ELSE queue_order[j + 1]
  BY <1>1, <1>2, <1>3, RemoveAtSpec
<1>5. DOMAIN queue_order' = 1 .. n - 1
  BY <1>4, LenProperties
<1> HIDE DEF n, b
<1>6. IsInjective(queue_order)
  BY DEF SchedulerInv, QueueMatchesTasks
<1> DEFINE Old(j) == IF j < b THEN j ELSE j + 1
<1>7. \A j \in 1 .. n - 1 : Old(j) \in 1 .. n \ {b} /\ queue_order'[j] = queue_order[Old(j)]
  BY <1>2, <1>3, <1>4
<1>8. \A i, j \in 1 .. n - 1 : Old(i) = Old(j) => i = j
  BY <1>2, <1>3
<1>9. \A i \in 1 .. n \ {b} : \E j \in 1 .. n - 1 : Old(j) = i
  <2> SUFFICES ASSUME NEW i \in 1 .. n \ {b} PROVE \E j \in 1 .. n - 1 : Old(j) = i
    OBVIOUS
  <2>1. CASE i < b
    BY <1>2, <1>3, <2>1
  <2>2. CASE i > b
    <3>1. i - 1 \in 1 .. n - 1 /\ Old(i - 1) = i
      BY <1>2, <1>3, <2>2
    <3> QED BY <3>1
  <2> QED BY <1>2, <1>3, <2>1, <2>2
<1> HIDE DEF Old
<1>10. IsInjective(queue_order')
  BY <1>3, <1>5, <1>6, <1>7, <1>8 DEF IsInjective
<1>11. ToSet(queue_order') = ToSet(queue_order) \ {NextTask}
  <2>1. ASSUME NEW j \in 1 .. n - 1
        PROVE  queue_order'[j] \in ToSet(queue_order) \ {NextTask}
    <3>1. Old(j) \in 1 .. n /\ Old(j) # b /\ queue_order'[j] = queue_order[Old(j)]
      BY <1>7
    <3> QED BY <1>2, <1>3, <1>6, <3>1 DEF IsInjective, ToSet
  <2>2. ASSUME NEW i \in 1 .. n, i # b
        PROVE  \E j \in 1 .. n - 1 : queue_order'[j] = queue_order[i]
    BY <1>7, <1>9, <2>2
  <2> QED BY <1>2, <1>3, <1>5, <2>1, <2>2 DEF ToSet
<1>12. DOMAIN tasks' = DOMAIN tasks \ {NextTask}
  BY <1>1
<1>13. SchedulerTypeOK'
  BY <1>1, <1>4, <1>12 DEF SchedulerInv, SchedulerTypeOK
<1>14. QueueMatchesTasks'
  BY <1>1, <1>10, <1>11, <1>12 DEF SchedulerInv, QueueMatchesTasks
<1> QED
  BY <1>1, <1>2, <1>12, <1>13, <1>14 DEF SchedulerInv, SchedulerTypeOK, QueueMatchesTasks

\* Time that passes and steps of the pool alone leave the scheduler as it is.
LEMMA SchedulerKept ==
  ASSUME SchedulerInv, now' \in Nat, now <= now',
         UNCHANGED <<next_task_id, reserved_task_ids, tasks, queue_order>>
  PROVE  SchedulerInv'
<1>1. \A id \in DOMAIN tasks :
        tasks[id].enqueued_at \in 0 .. now => tasks[id].enqueued_at \in 0 .. now'
  BY DEF SchedulerInv, SchedulerTypeOK
<1>2. SchedulerTypeOK'
  BY <1>1 DEF SchedulerInv, SchedulerTypeOK
<1> QED BY <1>2 DEF SchedulerInv, QueueMatchesTasks

-----------------------------------------------------------------------------
(* The pool.                                                               *)

PcTypes ==
  /\ pc \in [Threads -> WorkerPc \cup CallerPc]
  /\ \A w \in Workers : pc[w] \in WorkerPc
  /\ \A t \in Callers : pc[t] \in CallerPc

\* An id that was given out and is neither reserved nor queued: nothing can put it into the
\* queue any more.
UsedUp(id) ==
  id < next_task_id /\ id \notin reserved_task_ids /\ id \notin DOMAIN tasks

\* The invariant, conjunct by conjunct.
LEMMA PoolInvParts ==
  PoolInv <=>
    /\ SchedulerInv
    /\ shutting_down \in BOOLEAN /\ active_tasks \in 0 .. Cardinality(Threads)
    /\ PcTypes
    /\ task \in [Threads -> TaskIds \cup {NoTask}] /\ drain \in [Callers -> BOOLEAN]
    /\ finished \subseteq TaskIds
    /\ RunsOnce /\ ActiveCount
    /\ HoldersRun /\ TakenIdsUsed /\ ExitedMeansDrained
BY DEF PoolInv, TasksAccounted, TypeOK, SchedulerInv, PcTypes

\* A step that takes, runs and accounts for nothing: whoever runs a task goes on running it,
\* and ids that were used up stay so.
LEMMA QuietStep ==
  ASSUME PoolInv, SchedulerInv', PcTypes',
         UNCHANGED <<active_tasks, task, finished>>,
         shutting_down' \in BOOLEAN, drain' \in [Callers -> BOOLEAN],
         \A t \in Threads : pc[t] \in {"run", "ran"} \/ pc'[t] \in {"run", "ran"} =>
           pc'[t] = pc[t],
         \A w \in Workers : pc'[w] = "exited" => shutting_down' /\ IsEmpty',
         \A id \in TaskIds : UsedUp(id) => UsedUp(id)'
  PROVE  PoolInv'
<1> USE PoolInvParts
<1>1. Holders' = Holders /\ Holders \subseteq Threads
  BY DEF Holders
<1>2. \A t \in Holders : task[t] \in TaskIds /\ UsedUp(task[t])
  BY DEF Holders, TakenIdsUsed, RunsOnce, UsedUp
<1>3. \A id \in finished : id \in TaskIds /\ UsedUp(id)
  BY DEF TakenIdsUsed, UsedUp
<1>4. TakenIdsUsed' /\ \A t \in Holders' : task'[t] \notin DOMAIN tasks'
  BY <1>1, <1>2, <1>3 DEF TakenIdsUsed, UsedUp
<1>5. Unfinished' \cap finished' = {}
  <2>1. \A t \in Threads : pc'[t] = "run" <=> pc[t] = "run"
    OBVIOUS
  <2>2. {t \in Threads : pc'[t] = "run"} = {t \in Threads : pc[t] = "run"}
    BY <2>1
  <2>3. \A t \in Threads : pc[t] = "run" => task[t] \notin finished
    BY DEF RunsOnce, Unfinished
  <2>4. finished \cap DOMAIN tasks' = {}
    BY <1>3 DEF UsedUp
  <2>5. {u \in Threads : pc[u] = "run"} \subseteq Threads
    OBVIOUS
  <2>6. Unfinished' = DOMAIN tasks' \cup {task'[t] : t \in {u \in Threads : pc'[u] = "run"}}
    BY DEF Unfinished
  <2> QED BY <2>2, <2>3, <2>4, <2>6
<1>6. RunsOnce'
  BY <1>1, <1>4, <1>5 DEF RunsOnce
<1>7. ActiveCount' /\ HoldersRun'
  BY <1>1 DEF ActiveCount, HoldersRun
<1>8. ExitedMeansDrained'
  BY DEF ExitedMeansDrained
<1> QED
  BY <1>4, <1>6, <1>7, <1>8 DEF PoolInv, TasksAccounted, TypeOK, SchedulerInv, PcTypes

\* Steps of the main kind: one thread, or the notified worker, moves to another label.
LEMMA LabelsMove ==
  ASSUME PcTypes, NEW t \in Threads, NEW label, Goto(t, label),
         t \in Workers => label \in WorkerPc, t \in Callers => label \in CallerPc
  PROVE  /\ PcTypes' /\ pc'[t] = label
         /\ \A u \in Threads \ {t} : pc'[u] = pc[u]
BY PoolAssumption DEF PcTypes, Goto, Threads, PoolAssumption

\* A notification moves at most a worker that waits for work.
LEMMA NotifyMoves ==
  ASSUME PcTypes, NotifyWorker
  PROVE  /\ PcTypes'
         /\ \A t \in Threads : pc'[t] # pc[t] => pc[t] = "cv_wait" /\ pc'[t] = "loop"
<1>1. CASE UNCHANGED pc
  BY <1>1 DEF PcTypes
<1>2. CASE \E w \in {v \in Workers : pc[v] = "cv_wait"} : Goto(w, "loop")
  <2>1. PICK w \in Workers : pc[w] = "cv_wait" /\ Goto(w, "loop")
    BY <1>2
  <2>2. w \in Threads /\ w \notin Callers /\ "loop" \in WorkerPc
    BY PoolAssumption DEF Threads, PoolAssumption, WorkerPc
  <2> QED BY <2>1, <2>2, LabelsMove
<1> QED BY <1>1, <1>2 DEF NotifyWorker

\* Scheduling, reserving and reprioritising.
LEMMA CallKeeps ==
  ASSUME PoolInv, NEW t \in Threads, Call(t)
  PROVE  PoolInv'
<1> USE PoolInvParts
<1>1. /\ \/ ReserveTaskId
         \/ \E p \in Priorities : PushTask(p)
         \/ \E id \in TaskIds, p \in Priorities :
              PushWithReservedTaskId(id, p) \/ RescheduleTask(id, p)
      /\ NotifyWorker \/ UNCHANGED pc
      /\ UNCHANGED <<shutting_down, active_tasks, task, drain, finished>>
      /\ ~shutting_down \/ UNCHANGED queue_order
  BY DEF Call, ScheduleInvocable, ScheduleEmpty, PushEmptyTask, Reserve,
         ScheduleWithReservedTaskId, UpdateTaskPriority, RescheduleTask, poolVars
<1>2. /\ SchedulerInv'
      /\ \A id \in TaskIds : UsedUp(id) => UsedUp(id)'
  BY <1>1, CallKeepsScheduler DEF UsedUp
<1>3. /\ PcTypes'
      /\ \A u \in Threads : pc'[u] # pc[u] => pc[u] = "cv_wait" /\ pc'[u] = "loop"
  BY <1>1, NotifyMoves DEF PcTypes
<1>4. \A w \in Workers : pc'[w] = "exited" => shutting_down' /\ IsEmpty'
  <2> SUFFICES ASSUME NEW w \in Workers, pc'[w] = "exited" PROVE shutting_down' /\ IsEmpty'
    OBVIOUS
  <2>1. pc[w] = "exited"
    BY <1>3 DEF Threads
  <2> QED BY <1>1, <2>1 DEF ExitedMeansDrained, IsEmpty
<1> QED BY <1>1, <1>2, <1>3, <1>4, QuietStep

\* Waiting, waking up, and the steps of Pump and Shutdown that take no task.
LEMMA MovesKeep ==
  ASSUME PoolInv, NEW t \in Threads,
         \/ SpuriousWake(t)
         \/ t \in Workers /\ (WorkerWait(t) \/ WorkerExit(t))
         \/ t \in Callers /\ (PumpWait(t) \/ PumpNone(t) \/ PumpReturn(t) \/ PumpIdle(t)
                              \/ ShutdownNotify(t) \/ ShutdownJoined(t) \/ ShutdownBegin(t)
                              \/ \E d \in BOOLEAN : PumpBegin(t, d))
  PROVE  PoolInv'
<1> USE PoolInvParts
<1>1. /\ UNCHANGED <<schedulerVars, active_tasks, task, finished>>
      /\ shutting_down' \in BOOLEAN /\ (shutting_down => shutting_down')
      /\ drain' \in [Callers -> BOOLEAN]
  BY DEF SpuriousWake, WorkerWait, WorkerExit, PumpWait, PumpNone, PumpReturn, PumpIdle,
         ShutdownNotify, ShutdownJoined, ShutdownBegin, PumpBegin
<1>2. /\ SchedulerInv'
      /\ \A id \in TaskIds : UsedUp(id) => UsedUp(id)'
      /\ IsEmpty' = IsEmpty
  <2>1. now \in Nat
    BY DEF SchedulerInv, SchedulerTypeOK
  <2> QED BY <1>1, <2>1, SchedulerKept DEF schedulerVars, UsedUp, IsEmpty
<1>3. PcTypes' /\ \A u \in Threads :
        /\ pc[u] \in {"run", "ran"} \/ pc'[u] \in {"run", "ran"} => pc'[u] = pc[u]
        /\ u \in Workers /\ pc'[u] = "exited" =>
             pc[u] = "exited" \/ (shutting_down /\ IsEmpty)
  <2>1. CASE ShutdownNotify(t) /\ t \in Callers
    <3>1. pc' = [u \in Threads |-> CASE u = t            -> "join"
                                     [] pc[u] = "cv_wait" -> "loop"
                                     [] OTHER             -> pc[u]]
      BY <2>1 DEF ShutdownNotify
    <3>2. \A u \in Threads \ {t} : pc'[u] = pc[u] \/ (pc[u] = "cv_wait" /\ pc'[u] = "loop")
      BY <3>1
    <3>3. pc[t] = "shutdown_notify" /\ pc'[t] = "join" /\ t \notin Workers
      BY <2>1, <3>1, PoolAssumption DEF ShutdownNotify, PoolAssumption
    <3>4. \A u \in Callers : pc[u] # "cv_wait"
      BY DEF PcTypes, CallerPc
    <3>5. PcTypes'
      BY <3>1, <3>2, <3>3, <3>4 DEF PcTypes, WorkerPc, CallerPc, Threads
    <3> QED BY <3>2, <3>3, <3>5
  <2>2. CASE ~(ShutdownNotify(t) /\ t \in Callers)
    <3>1. \E label \in WorkerPc \cup CallerPc :
            /\ Goto(t, label) /\ label \notin {"run", "ran"} /\ pc[t] \notin {"run", "ran"}
            /\ t \in Workers => label \in WorkerPc
            /\ t \in Callers => label \in CallerPc
            /\ label = "exited" => shutting_down /\ IsEmpty
      <4> USE <2>2, PoolAssumption DEF PoolAssumption, PcTypes, WorkerPc, CallerPc, Threads
      <4>1. CASE SpuriousWake(t)
        BY <4>1 DEF SpuriousWake, Woken
      <4>2. CASE t \in Workers /\ (WorkerWait(t) \/ WorkerExit(t))
        BY <4>2 DEF WorkerWait, WorkerExit
      <4>3. CASE t \in Callers /\ (PumpWait(t) \/ PumpNone(t) \/ PumpReturn(t))
        BY <4>3 DEF PumpWait, PumpNone, PumpReturn
      <4>4. CASE t \in Callers /\ PumpIdle(t)
        BY <4>4 DEF PumpIdle
      <4>5. CASE t \in Callers /\ (ShutdownJoined(t) \/ ShutdownBegin(t))
        BY <4>5 DEF ShutdownJoined, ShutdownBegin
      <4>6. CASE t \in Callers /\ \E d \in BOOLEAN : PumpBegin(t, d)
        BY <4>6 DEF PumpBegin
      <4> QED BY <4>1, <4>2, <4>3, <4>4, <4>5, <4>6
    <3>2. PICK label \in WorkerPc \cup CallerPc :
            /\ Goto(t, label) /\ label \notin {"run", "ran"} /\ pc[t] \notin {"run", "ran"}
            /\ t \in Workers => label \in WorkerPc
            /\ t \in Callers => label \in CallerPc
            /\ label = "exited" => shutting_down /\ IsEmpty
      BY <3>1
    <3>3. /\ PcTypes' /\ pc'[t] = label
          /\ \A u \in Threads \ {t} : pc'[u] = pc[u]
      BY <3>2, LabelsMove
    <3> QED BY <3>2, <3>3
  <2> QED BY <2>1, <2>2
<1>4. \A w \in Workers : pc'[w] = "exited" => shutting_down' /\ IsEmpty'
  BY <1>1, <1>2, <1>3 DEF ExitedMeansDrained, Threads
<1> QED BY <1>1, <1>2, <1>3, <1>4, QuietStep

\* Time that passes.
LEMMA TickKeeps ==
  ASSUME PoolInv, Tick
  PROVE  PoolInv'
<1> USE PoolInvParts
<1>1. now' \in Nat /\ now <= now'
      /\ UNCHANGED <<next_task_id, reserved_task_ids, tasks, queue_order, poolVars>>
  BY DEF Tick, SchedulerInv, SchedulerTypeOK
<1>2. SchedulerInv'
  BY <1>1, SchedulerKept
<1>3. /\ UNCHANGED <<shutting_down, active_tasks, pc, task, drain, finished>>
      /\ \A id \in TaskIds : UsedUp(id) => UsedUp(id)'
      /\ IsEmpty' = IsEmpty
  BY <1>1 DEF poolVars, UsedUp, IsEmpty
<1>4. PcTypes' /\ \A w \in Workers : pc'[w] = "exited" => shutting_down' /\ IsEmpty'
  BY <1>3 DEF PcTypes, ExitedMeansDrained
<1> QED BY <1>2, <1>3, <1>4, QuietStep

\* The threads that hold a task are finitely many, at most all of them.
LEMMA HoldersFinite ==
  /\ IsFiniteSet(Holders) /\ Cardinality(Holders) \in 0 .. Cardinality(Threads)
<1>1. Holders \in SUBSET Threads /\ IsFiniteSet(Threads)
  BY PoolAssumption DEF Holders, PoolAssumption
<1>2. IsFiniteSet(Holders) /\ Cardinality(Holders) <= Cardinality(Threads)
  BY <1>1, FS_Subset
<1> QED BY <1>1, <1>2, FS_CardinalityType

\* A thread takes the best task: it leaves the queue, and is counted.
LEMMA TakeKeeps ==
  ASSUME PoolInv, NEW t \in Threads, pc[t] \in {"loop", "pump"}, ~IsEmpty, Take(t)
  PROVE  PoolInv'
<1> USE PoolInvParts
<1>1. /\ task' = [task EXCEPT ![t] = NextTask] /\ PopTask
      /\ active_tasks' = active_tasks + 1 /\ Goto(t, "run")
      /\ UNCHANGED <<shutting_down, drain, finished>>
  BY DEF Take
<1>2. /\ SchedulerInv'
      /\ NextTask \in DOMAIN tasks /\ NextTask \in TaskIds
      /\ NextTask < next_task_id /\ NextTask \notin reserved_task_ids
      /\ DOMAIN tasks' = DOMAIN tasks \ {NextTask}
      /\ UNCHANGED <<next_task_id, reserved_task_ids>>
  BY <1>1, PopKeepsScheduler
<1>3. NextTask # NoTask
  BY <1>2 DEF TaskIds, kGenericTaskId, NoTask
<1>4. /\ PcTypes' /\ pc'[t] = "run"
      /\ \A u \in Threads \ {t} : pc'[u] = pc[u]
  BY <1>1, LabelsMove DEF WorkerPc, CallerPc
<1>5. t \notin Holders /\ Holders' = Holders \cup {t}
  BY <1>1, <1>3 DEF Holders, HoldersRun
<1>6. ActiveCount' /\ active_tasks' \in 0 .. Cardinality(Threads)
  <2>1. Cardinality(Holders') = Cardinality(Holders) + 1
    BY <1>5, HoldersFinite, FS_AddElement
  <2>2. Cardinality(Threads) \in Nat
    BY PoolAssumption, FS_CardinalityType DEF PoolAssumption
  <2>3. Cardinality(Holders') <= Cardinality(Threads)
    <3>1. Holders' \in SUBSET Threads
      BY DEF Holders
    <3> QED BY <3>1, PoolAssumption, FS_Subset DEF PoolAssumption
  <2> QED BY <1>1, <2>1, <2>2, <2>3, HoldersFinite DEF ActiveCount
<1>7. \A u \in Holders : u # t /\ task'[u] = task[u] /\ task[u] # NextTask
  BY <1>1, <1>2, <1>5 DEF Holders, RunsOnce
<1>8. task'[t] = NextTask /\ NextTask \notin finished
  BY <1>1, <1>2 DEF RunsOnce, Unfinished
<1>9. RunsOnce'
  <2>1. \A u, v \in Holders' : u # v => task'[u] # task'[v]
    BY <1>5, <1>7, <1>8 DEF RunsOnce
  <2>2. \A u \in Holders' : task'[u] \notin DOMAIN tasks'
    BY <1>2, <1>5, <1>7, <1>8 DEF RunsOnce
  <2>3. Unfinished' \cap finished' = {}
    <3>1. DOMAIN tasks' \cap finished = {}
      BY <1>2 DEF RunsOnce, Unfinished
    <3>2. \A u \in Threads : pc'[u] = "run" => task'[u] \notin finished
      <4> SUFFICES ASSUME NEW u \in Threads, pc'[u] = "run" PROVE task'[u] \notin finished
        OBVIOUS
      <4>1. CASE u = t BY <1>8, <4>1
      <4>2. CASE u # t
        <5>1. pc[u] = "run" /\ task'[u] = task[u]
          BY <1>1, <1>4, <4>2
        <5>2. task[u] \in Unfinished
          BY <5>1 DEF Unfinished
        <5> QED BY <5>1, <5>2 DEF RunsOnce
      <4> QED BY <4>1, <4>2
    <3> QED BY <1>1, <3>1, <3>2 DEF Unfinished
  <2> QED BY <2>1, <2>2, <2>3 DEF RunsOnce
<1>10. HoldersRun'
  BY <1>1, <1>3, <1>4, <1>8 DEF HoldersRun
<1>11. TakenIdsUsed'
  BY <1>1, <1>2, <1>5, <1>7, <1>8 DEF TakenIdsUsed
<1>12. ExitedMeansDrained'
  BY <1>1, <1>4 DEF ExitedMeansDrained, Threads
<1> QED
  BY <1>1, <1>2, <1>4, <1>6, <1>9, <1>10, <1>11, <1>12
  DEF PoolInv, TasksAccounted, TypeOK, SchedulerInv, PcTypes

\* A task's body returns.
LEMMA TaskReturnsKeeps ==
  ASSUME PoolInv, NEW t \in Threads, TaskReturns(t)
  PROVE  PoolInv'
<1> USE PoolInvParts
<1>1. /\ pc[t] = "run" /\ finished' = finished \cup {task[t]} /\ Goto(t, "ran")
      /\ UNCHANGED <<schedulerVars, shutting_down, active_tasks, task, drain>>
  BY DEF TaskReturns
<1>2. /\ PcTypes' /\ pc'[t] = "ran"
      /\ \A u \in Threads \ {t} : pc'[u] = pc[u]
  BY <1>1, LabelsMove DEF WorkerPc, CallerPc
<1>3. SchedulerInv'
  <2>1. now \in Nat
    BY DEF SchedulerInv, SchedulerTypeOK
  <2> QED BY <1>1, <2>1, SchedulerKept DEF schedulerVars
<1>4. t \in Holders /\ task[t] \in TaskIds /\ Holders' = Holders
  BY <1>1 DEF Holders, HoldersRun
<1>5. RunsOnce'
  <2>1. \A u \in Threads \ {t} : pc[u] = "run" => task[u] # task[t]
    BY <1>4 DEF RunsOnce, HoldersRun, Holders
  <2>2. \A u \in Threads : pc'[u] = "run" => u # t /\ pc[u] = "run"
    BY <1>2
  <2>3. \A u \in Threads : pc[u] = "run" => task[u] \notin finished
    BY DEF RunsOnce, Unfinished
  <2>4. task[t] \notin DOMAIN tasks /\ DOMAIN tasks \cap finished = {}
    BY <1>4 DEF RunsOnce, Unfinished
  <2>5. Unfinished' \cap finished' = {}
    BY <1>1, <2>1, <2>2, <2>3, <2>4 DEF Unfinished, schedulerVars
  <2>6. /\ \A u, v \in Holders' : u # v => task'[u] # task'[v]
        /\ \A u \in Holders' : task'[u] \notin DOMAIN tasks'
    BY <1>1, <1>4 DEF RunsOnce, schedulerVars
  <2> QED BY <2>5, <2>6 DEF RunsOnce
<1>6. ActiveCount'
  BY <1>1, <1>4 DEF ActiveCount
<1>7. HoldersRun'
  BY <1>1, <1>2 DEF HoldersRun
<1>8. TakenIdsUsed'
  BY <1>1, <1>4 DEF TakenIdsUsed, RunsOnce, schedulerVars
<1>9. ExitedMeansDrained'
  BY <1>1, <1>2 DEF ExitedMeansDrained, IsEmpty, schedulerVars, Threads
<1> QED
  BY <1>1, <1>2, <1>3, <1>4, <1>5, <1>6, <1>7, <1>8, <1>9
  DEF PoolInv, TasksAccounted, TypeOK, SchedulerInv, PcTypes

\* The end of RunTask: the count goes down by one, and every drainer wakes up or none does.
LEMMA AccountKeeps ==
  ASSUME PoolInv, NEW t \in Threads, Account(t)
  PROVE  PoolInv'
<1> USE PoolInvParts
<1>1. /\ pc[t] = "ran" /\ task' = [task EXCEPT ![t] = NoTask]
      /\ active_tasks' = IF active_tasks > 0 THEN active_tasks - 1 ELSE 0
      /\ UNCHANGED <<schedulerVars, shutting_down, drain, finished>>
  BY DEF Account
<1>2. t \in Holders /\ Holders' = Holders \ {t}
  BY <1>1 DEF Holders, HoldersRun
<1>3. ActiveCount' /\ active_tasks' \in 0 .. Cardinality(Threads)
  <2>1. Cardinality(Holders') = Cardinality(Holders) - 1
    BY <1>2, HoldersFinite, FS_RemoveElement
  <2>2. Cardinality(Holders) # 0
    BY <1>2, HoldersFinite, FS_EmptySet
  <2>3. active_tasks' = active_tasks - 1 /\ active_tasks > 0
    BY <1>1, <2>2, HoldersFinite DEF ActiveCount
  <2>4. Cardinality(Threads) \in Nat
    BY PoolAssumption, FS_CardinalityType DEF PoolAssumption
  <2> QED BY <2>1, <2>3, <2>4, HoldersFinite DEF ActiveCount
<1>4. PcTypes' /\ pc'[t] \in {"loop", "pump", "idle"}
      /\ \A u \in Threads \ {t} :
           /\ pc[u] \in {"run", "ran"} \/ pc'[u] \in {"run", "ran"} => pc'[u] = pc[u]
           /\ pc'[u] = "exited" => pc[u] = "exited"
  <2> DEFINE moved == [pc EXCEPT ![t] = AfterTask(t)]
  <2>1. pc' = moved \/ pc' = [u \in Threads |-> Woken(moved[u])]
    BY DEF Account
  <2>2. AfterTask(t) \in {"loop", "pump", "idle"}
        /\ (t \in Workers => AfterTask(t) = "loop")
        /\ (t \in Callers => AfterTask(t) \in {"pump", "idle"})
    BY PoolAssumption DEF AfterTask, PoolAssumption
  <2>3. moved \in [Threads -> WorkerPc \cup CallerPc]
        /\ (\A w \in Workers : moved[w] \in WorkerPc)
        /\ (\A u \in Callers : moved[u] \in CallerPc)
    BY <2>2 DEF PcTypes, WorkerPc, CallerPc, Threads
  <2>4. moved[t] = AfterTask(t) /\ \A u \in Threads \ {t} : moved[u] = pc[u]
    BY DEF PcTypes
  <2> HIDE DEF moved
  <2>5. CASE pc' = moved
    BY <2>2, <2>3, <2>4, <2>5 DEF PcTypes
  <2>6. CASE pc' = [u \in Threads |-> Woken(moved[u])]
    <3>1. \A u \in Threads : pc'[u] = Woken(moved[u])
      BY <2>6
    <3>2. \A w \in Workers : pc'[w] = moved[w]
      BY <2>3, <3>1 DEF Woken, WorkerPc, Threads
    <3>3. \A u \in Callers : pc'[u] \in CallerPc
      BY <2>3, <3>1 DEF Woken, CallerPc, Threads
    <3>4. pc' \in [Threads -> WorkerPc \cup CallerPc]
      <4>1. \A u \in Threads : Woken(moved[u]) \in WorkerPc \cup CallerPc
        BY <2>3, <3>1, <3>2, <3>3 DEF Threads
      <4> QED BY <2>6, <4>1
    <3>5. pc'[t] \in {"loop", "pump", "idle"}
      BY <2>2, <2>4, <3>1 DEF Woken
    <3>6. \A u \in Threads :
            \/ Woken(moved[u]) = moved[u]
            \/ /\ moved[u] \in {"drain_wait", "idle_wait"}
               /\ Woken(moved[u]) \in {"pump", "idle_woken"}
      BY DEF Woken
    <3>7. PcTypes'
      BY <2>3, <3>2, <3>3, <3>4 DEF PcTypes
    <3>8. \A u \in Threads \ {t} :
            /\ pc[u] \in {"run", "ran"} \/ pc'[u] \in {"run", "ran"} => pc'[u] = pc[u]
            /\ pc'[u] = "exited" => pc[u] = "exited"
      <4> SUFFICES ASSUME NEW u \in Threads \ {t}
                   PROVE  /\ pc[u] \in {"run", "ran"} \/ pc'[u] \in {"run", "ran"} => pc'[u] = pc[u]
                          /\ pc'[u] = "exited" => pc[u] = "exited"
        OBVIOUS
      <4>1. \/ pc'[u] = pc[u]
            \/ pc[u] \in {"drain_wait", "idle_wait"} /\ pc'[u] \in {"pump", "idle_woken"}
        BY <2>4, <3>1, <3>6
      <4> QED BY <4>1
    <3> QED BY <3>5, <3>7, <3>8
  <2> QED BY <2>1, <2>5, <2>6
<1>5. SchedulerInv'
  <2>1. now \in Nat
    BY DEF SchedulerInv, SchedulerTypeOK
  <2> QED BY <1>1, <2>1, SchedulerKept DEF schedulerVars
<1>6. RunsOnce'
  <2>1. \A u \in Threads : pc'[u] = "run" => u # t /\ pc[u] = "run" /\ task'[u] = task[u]
    BY <1>1, <1>4
  <2>2. Unfinished' \subseteq Unfinished
    BY <1>1, <2>1 DEF Unfinished, schedulerVars
  <2>3. \A u \in Holders' : u \in Holders /\ task'[u] = task[u]
    BY <1>1, <1>2 DEF Holders
  <2> QED BY <1>1, <2>2, <2>3 DEF RunsOnce, schedulerVars
<1>7. HoldersRun'
  BY <1>1, <1>4 DEF HoldersRun
<1>8. TakenIdsUsed'
  BY <1>1, <1>2 DEF TakenIdsUsed, Holders, schedulerVars
<1>9. ExitedMeansDrained'
  BY <1>1, <1>4 DEF ExitedMeansDrained, IsEmpty, schedulerVars, Threads
<1> QED
  BY <1>1, <1>3, <1>4, <1>5, <1>6, <1>7, <1>8, <1>9
  DEF PoolInv, TasksAccounted, TypeOK, SchedulerInv, PcTypes, NoTask

LEMMA PoolInvInit == Init => PoolInv
<1> SUFFICES ASSUME Init PROVE PoolInv
  OBVIOUS
<1> USE DEF Init, SchedulerInit
<1>1. SchedulerInv
  <2>1. /\ <<>> \in Seq(TaskIds) /\ DOMAIN <<>> = {} /\ ToSet(<<>>) = {} /\ IsInjective(<<>>)
    BY DEF ToSet, IsInjective
  <2>2. next_task_id \in TaskIds \cup {MaxTaskId + 1}
    BY SchedulerAssumption DEF TaskIds, kGenericTaskId, SchedulerAssumption
  <2> QED BY <2>1, <2>2 DEF SchedulerInv, SchedulerTypeOK, QueueMatchesTasks
<1>2. Holders = {} /\ \A t \in Threads : pc[t] \notin {"run", "ran", "exited"}
  BY DEF Holders
<1>3. Cardinality(Threads) \in Nat
  BY PoolAssumption, FS_CardinalityType DEF PoolAssumption
<1>4. active_tasks \in 0 .. Cardinality(Threads) /\ ActiveCount
  BY <1>2, <1>3, FS_EmptySet DEF ActiveCount
<1>5. PcTypes
  BY PoolAssumption DEF PcTypes, WorkerPc, CallerPc, Threads, PoolAssumption
<1>6. RunsOnce /\ TakenIdsUsed
  BY <1>2 DEF RunsOnce, TakenIdsUsed
<1>7. HoldersRun /\ ExitedMeansDrained
  BY <1>2 DEF HoldersRun, ExitedMeansDrained, Threads
<1> QED BY <1>1, <1>4, <1>5, <1>6, <1>7, PoolInvParts

LEMMA PoolInvStep == PoolInv /\ [Next]_vars => PoolInv'
<1> SUFFICES ASSUME PoolInv, [Next]_vars PROVE PoolInv'
  OBVIOUS
<1>1. CASE UNCHANGED vars
  BY <1>1 DEF vars, schedulerVars, poolVars, PoolInv, TasksAccounted, TypeOK, SchedulerTypeOK,
     QueueMatchesTasks, RunsOnce, ActiveCount, Holders, Unfinished, HoldersRun, TakenIdsUsed,
     ExitedMeansDrained, IsEmpty
<1>2. ASSUME NEW t \in Threads, Call(t) \/ SpuriousWake(t) PROVE PoolInv'
  BY <1>2, CallKeeps, MovesKeep
<1>3. ASSUME NEW w \in Workers, WorkerStep(w) PROVE PoolInv'
  <2>1. w \in Threads
    BY DEF Threads
  <2>2. CASE WorkerTake(w)
    BY <2>1, <2>2, TakeKeeps DEF WorkerTake
  <2> QED
    BY <1>3, <2>1, <2>2, MovesKeep, TaskReturnsKeeps, AccountKeeps DEF WorkerStep
<1>4. ASSUME NEW t \in Callers,
             CallerStep(t) \/ ShutdownBegin(t) \/ \E d \in BOOLEAN : PumpBegin(t, d)
      PROVE  PoolInv'
  <2>1. t \in Threads
    BY DEF Threads
  <2>2. CASE PumpTake(t)
    BY <2>1, <2>2, TakeKeeps DEF PumpTake
  <2>3. CASE TaskReturns(t) \/ Account(t)
    BY <2>1, <2>3, TaskReturnsKeeps, AccountKeeps
  <2>4. CASE ~PumpTake(t) /\ ~TaskReturns(t) /\ ~Account(t)
    BY <1>4, <2>1, <2>4, MovesKeep DEF CallerStep
  <2> QED BY <2>2, <2>3, <2>4
<1> QED BY <1>1, <1>2, <1>3, <1>4, TickKeeps DEF Next

-----------------------------------------------------------------------------
(* The theorems.                                                           *)

LEMMA PoolInvariant == Spec => []PoolInv
BY PoolInvInit, PoolInvStep, PTL DEF Spec

\* Every accepted task is in one place, queue, thread or past, and is counted right.
THEOREM EveryTaskAccounted == Spec => []TasksAccounted
<1>1. PoolInv => TasksAccounted
  BY DEF PoolInv
<1> QED BY <1>1, PoolInvariant, PTL

\* The two steps that end a drain and a shutdown, whoever else could move the caller.
LEMMA CallerReturns ==
  ASSUME PoolInv, [Next]_vars, NEW t \in Callers, pc'[t] = "idle"
  PROVE  /\ pc[t] = "pump_idle" => PumpReturn(t)
         /\ pc[t] = "join" => ShutdownJoined(t)
<1> USE PoolInvParts
<1>1. t \in Threads /\ t \notin Workers
  BY PoolAssumption DEF Threads, PoolAssumption
<1>2. SUFFICES ASSUME pc[t] \in {"pump_idle", "join"}
               PROVE  PumpReturn(t) \/ ShutdownJoined(t)
  BY DEF PumpReturn, ShutdownJoined
<1>3. ASSUME UNCHANGED vars \/ Tick PROVE FALSE
  BY <1>2, <1>3 DEF vars, poolVars, Tick
<1>4. ASSUME NEW u \in Threads, Call(u) PROVE FALSE
  <2>1. NotifyWorker \/ UNCHANGED pc
    BY <1>4 DEF Call, ScheduleInvocable, ScheduleEmpty, Reserve, ScheduleWithReservedTaskId,
                UpdateTaskPriority, poolVars
  <2>2. pc'[t] # pc[t] => pc[t] = "cv_wait"
    BY <1>1, <2>1, NotifyMoves
  <2> QED BY <1>2, <2>2
<1>5. ASSUME NEW u \in Threads, Account(u) PROVE FALSE
  <2>1. u # t
    BY <1>2, <1>5 DEF Account
  <2> DEFINE moved == [pc EXCEPT ![u] = AfterTask(u)]
  <2>2. pc' = moved \/ pc' = [v \in Threads |-> Woken(moved[v])]
    BY <1>5 DEF Account
  <2>3. moved[t] = pc[t]
    BY <1>1, <2>1 DEF PcTypes
  <2>4. pc'[t] = pc[t] \/ pc'[t] = Woken(pc[t])
    BY <1>1, <2>2, <2>3
  <2>5. Woken(pc[t]) = pc[t]
    BY <1>2 DEF Woken
  <2> QED BY <1>2, <2>4, <2>5
<1>6. ASSUME NEW u \in Threads \ {t}, NEW label, Goto(u, label) PROVE FALSE
  BY <1>1, <1>2, <1>6 DEF Goto, PcTypes
<1>7. ASSUME NEW u \in Threads, SpuriousWake(u) \/ TaskReturns(u) PROVE FALSE
  <2>1. u # t
    BY <1>2, <1>7 DEF SpuriousWake, TaskReturns
  <2> QED BY <1>6, <1>7, <2>1 DEF SpuriousWake, TaskReturns
<1>8. ASSUME NEW w \in Workers, WorkerStep(w) PROVE FALSE
  <2>1. w \in Threads /\ w # t
    BY <1>1 DEF Threads
  <2> QED BY <1>5, <1>6, <1>7, <1>8, <2>1
          DEF WorkerStep, WorkerTake, Take, WorkerWait, WorkerExit
<1>9. ASSUME NEW u \in Callers, ShutdownNotify(u) PROVE FALSE
  <2>1. u # t
    BY <1>2, <1>9 DEF ShutdownNotify
  <2>2. pc'[t] \in {pc[t], "loop"}
    BY <1>1, <1>9, <2>1 DEF ShutdownNotify
  <2> QED BY <1>2, <2>2
<1>10. ASSUME NEW u \in Callers,
              CallerStep(u) \/ ShutdownBegin(u) \/ \E d \in BOOLEAN : PumpBegin(u, d)
       PROVE  PumpReturn(t) \/ ShutdownJoined(t)
  <2>1. u \in Threads
    BY DEF Threads
  <2>2. CASE u # t
    BY <1>5, <1>6, <1>7, <1>9, <1>10, <2>1, <2>2
    DEF CallerStep, PumpWait, PumpTake, Take, PumpNone, PumpReturn, PumpIdle, ShutdownJoined,
        ShutdownBegin, PumpBegin
  <2>3. CASE u = t
    <3>1. pc[t] \notin {"idle", "pump", "run", "ran", "shutdown_notify"}
      BY <1>2
    <3>2. PumpReturn(t) \/ PumpIdle(t) \/ ShutdownJoined(t)
      BY <1>10, <2>3, <3>1
      DEF CallerStep, PumpWait, PumpTake, PumpNone, TaskReturns, Account, ShutdownNotify,
          ShutdownBegin, PumpBegin
    <3>3. ASSUME PumpIdle(t) PROVE FALSE
      BY <1>1, <3>3 DEF PumpIdle, Goto, PcTypes
    <3> QED BY <3>2, <3>3
  <2> QED BY <2>2, <2>3
<1> QED BY <1>3, <1>4, <1>7, <1>8, <1>10 DEF Next

\* With an empty queue, nobody who is counted means nothing is unfinished.
LEMMA NobodyBusy ==
  ASSUME PoolInv, IsEmpty
  PROVE  /\ DOMAIN tasks = {}
         /\ active_tasks = 0 => Unfinished = {}
<1> USE PoolInvParts
<1>1. DOMAIN tasks = {}
  <2>1. DOMAIN queue_order = {}
    BY DEF IsEmpty
  <2> QED BY <2>1 DEF SchedulerInv, QueueMatchesTasks, ToSet
<1>2. ASSUME active_tasks = 0 PROVE Unfinished = {}
  <2>1. Holders = {}
    BY <1>2, HoldersFinite, FS_EmptySet DEF ActiveCount
  <2>2. \A u \in Threads : pc[u] # "run"
    BY <2>1 DEF HoldersRun, Holders
  <2> QED BY <1>1, <2>2 DEF Unfinished
<1> QED BY <1>1, <1>2

\* Pump(true) returns only when every accepted task has finished.
THEOREM DrainIsComplete == Spec => DrainMeansDone
<1>1. PoolInv /\ [Next]_vars =>
        [\A t \in Callers :
           pc[t] = "pump_idle" /\ pc'[t] = "idle" => Unfinished = {}]_vars
  <2> SUFFICES ASSUME PoolInv, [Next]_vars, NEW t \in Callers,
                      pc[t] = "pump_idle", pc'[t] = "idle"
               PROVE  Unfinished = {}
    OBVIOUS
  <2>1. IsEmpty /\ active_tasks = 0
    BY CallerReturns DEF PumpReturn
  <2> QED BY <2>1, NobodyBusy
<1> QED BY <1>1, PoolInvariant, PTL DEF Spec, DrainMeansDone

\* The Shutdown that joins the workers returns only when no task is queued and none is left
\* with a worker.
THEOREM ShutdownIsComplete == Spec => ShutdownDrains
<1>1. PoolInv /\ [Next]_vars =>
        [\A t \in Callers :
           pc[t] = "join" /\ pc'[t] = "idle" =>
             Unfinished \subseteq {task[u] : u \in Callers}]_vars
  <2> SUFFICES ASSUME PoolInv, [Next]_vars, NEW t \in Callers,
                      pc[t] = "join", pc'[t] = "idle"
               PROVE  Unfinished \subseteq {task[u] : u \in Callers}
    OBVIOUS
  <2>1. \A w \in Workers : pc[w] = "exited"
    BY CallerReturns DEF ShutdownJoined
  <2>2. IsEmpty
    BY <2>1, PoolInvParts, PoolAssumption DEF ExitedMeansDrained, PoolAssumption
  <2>3. DOMAIN tasks = {}
    BY <2>2, NobodyBusy
  <2>4. \A u \in Threads : pc[u] = "run" => u \in Callers
    BY <2>1 DEF Threads
  <2> QED BY <2>3, <2>4 DEF Unfinished
<1> QED BY <1>1, PoolInvariant, PTL DEF Spec, ShutdownDrains

\* Aging prevents starvation: a pop never passes over an older task whose head start makes
\* up the difference of the priorities.
THEOREM AgingPreventsOvertaking == Spec => OlderTaskNotOvertaken
<1>1. PoolInv /\ [Next]_vars =>
        [\A t, u \in DOMAIN tasks :
           t \notin DOMAIN tasks' /\ u \in DOMAIN tasks' => ~Due(u, t)]_schedulerVars
  <2> SUFFICES ASSUME PoolInv, [Next]_vars, NEW t \in DOMAIN tasks, NEW u \in DOMAIN tasks,
                      t \notin DOMAIN tasks', u \in DOMAIN tasks', Due(u, t)
               PROVE  FALSE
    OBVIOUS
  <2> USE PoolInvParts
  <2>1. PopTask
    <3>1. ASSUME UNCHANGED schedulerVars \/ Tick PROVE FALSE
      BY <3>1 DEF schedulerVars, Tick
    <3>2. ASSUME NEW v \in Threads, Call(v) PROVE FALSE
      <4>1. \/ ReserveTaskId
            \/ \E p \in Priorities : PushTask(p)
            \/ \E id \in TaskIds, p \in Priorities :
                 PushWithReservedTaskId(id, p) \/ RescheduleTask(id, p)
        BY <3>2 DEF Call, ScheduleInvocable, ScheduleEmpty, PushEmptyTask, Reserve,
                    ScheduleWithReservedTaskId, UpdateTaskPriority
      <4> QED BY <4>1, CallKeepsScheduler
    <3>3. ASSUME NEW v \in Threads,
                 \/ SpuriousWake(v) \/ WorkerWait(v) \/ WorkerExit(v) \/ TaskReturns(v)
                 \/ Account(v) \/ PumpWait(v) \/ PumpNone(v) \/ PumpReturn(v) \/ PumpIdle(v)
                 \/ ShutdownNotify(v) \/ ShutdownJoined(v) \/ ShutdownBegin(v)
                 \/ \E d \in BOOLEAN : PumpBegin(v, d)
          PROVE  FALSE
      BY <3>1, <3>3
      DEF SpuriousWake, WorkerWait, WorkerExit, TaskReturns, Account, PumpWait, PumpNone,
          PumpReturn, PumpIdle, ShutdownNotify, ShutdownJoined, ShutdownBegin, PumpBegin
    <3>4. Workers \subseteq Threads /\ Callers \subseteq Threads
      BY DEF Threads
    <3>5. CASE UNCHANGED vars
      BY <3>1, <3>5 DEF vars
    <3> QED
      BY <3>1, <3>2, <3>3, <3>4, <3>5
      DEF Next, WorkerStep, CallerStep, WorkerTake, PumpTake, Take
  <2>2. t = NextTask
    BY <2>1, PopKeepsScheduler
  <2>3. ~IsEmpty /\ BestIndex \in 1 .. Len(queue_order) /\ Best(BestIndex)
    BY <2>1, BestFound DEF PopTask
  <2>4. PICK i \in DOMAIN queue_order, j \in DOMAIN queue_order :
          i < j /\ queue_order[i] = u /\ queue_order[j] = t
    BY DEF Due
  <2>5. j = BestIndex
    <3>1. DOMAIN queue_order = 1 .. Len(queue_order)
      BY LenProperties DEF SchedulerInv, SchedulerTypeOK
    <3> QED BY <2>2, <2>3, <2>4, <3>1
            DEF NextTask, SchedulerInv, QueueMatchesTasks, IsInjective
  <2>6. EffectivePriority(u) < EffectivePriority(t)
    <3>1. i \in Int /\ j \in Int
      BY DEF SchedulerInv, SchedulerTypeOK
    <3>2. ~(j <= i)
      BY <2>4, <3>1
    <3> QED BY <2>3, <2>4, <2>5, <3>2 DEF Best
  <2>7. EffectivePriority(u) >= EffectivePriority(t)
    <3>1. /\ now \in Nat /\ AgeRate \in Int
          /\ tasks[t].priority \in Int /\ tasks[u].priority \in Int
          /\ tasks[t].enqueued_at \in 0 .. now /\ tasks[u].enqueued_at \in 0 .. now
      <4>1. \A id \in DOMAIN tasks :
              /\ tasks[id].priority \in kMinimumTaskPriority .. kMaximumTaskPriority
              /\ tasks[id].enqueued_at \in 0 .. now
        BY DEF SchedulerInv, SchedulerTypeOK
      <4>2. now \in Nat /\ AgeRate \in Int
        BY SchedulerAssumption DEF SchedulerInv, SchedulerTypeOK, SchedulerAssumption
      <4> QED BY <4>1, <4>2 DEF kMinimumTaskPriority, kMaximumTaskPriority
    <3>2. CASE AgeRate <= 0
      BY <3>1, <3>2 DEF EffectivePriority, Due
    <3>3. CASE AgeRate > 0
      <4> DEFINE a == now - tasks[u].enqueued_at
                 b == now - tasks[t].enqueued_at
                 d == tasks[t].priority - tasks[u].priority
      <4>1. AgeRate \in Nat \ {0} /\ a \in Nat /\ b \in Nat /\ d \in Int
        BY <3>1, <3>3
      <4>2. d * AgeRate <= tasks[t].enqueued_at - tasks[u].enqueued_at
        BY <3>1, <3>3 DEF Due
      <4>3. a - b = tasks[t].enqueued_at - tasks[u].enqueued_at
        BY <3>1
      <4>4. d * AgeRate \in Int
        BY <4>1
      <4>5. a - b >= d * AgeRate
        BY <3>1, <4>2, <4>3, <4>4
      <4>6. EffectivePriority(u) = tasks[u].priority + a \div AgeRate
            /\ EffectivePriority(t) = tasks[t].priority + b \div AgeRate
        BY <3>1, <3>3 DEF EffectivePriority
      <4>7. a \div AgeRate >= b \div AgeRate + d
        BY <4>1, <4>5, QuotientGains
      <4> DEFINE x == a \div AgeRate
                 y == b \div AgeRate
      <4>8. x \in Int /\ y \in Int
        BY <4>1, QuotientRange
      <4>9. tasks[t].priority = tasks[u].priority + d
        BY <3>1
      <4> HIDE DEF x, y, d
      <4>10. tasks[u].priority + x >= tasks[t].priority + y
        BY <3>1, <4>1, <4>7, <4>8, <4>9 DEF x, y
      <4> QED BY <4>6, <4>10 DEF x, y
    <3> QED BY <3>1, <3>2, <3>3
  <2>8. EffectivePriority(u) \in Int /\ EffectivePriority(t) \in Int
    BY EffectivePriorityRange
    DEF SchedulerInv, SchedulerTypeOK, kMinimumTaskPriority, kMaximumTaskPriority
  <2> QED BY <2>6, <2>7, <2>8
<1> QED BY <1>1, PoolInvariant, PTL DEF Spec, OlderTaskNotOvertaken
=============================================================================

------------------------------- MODULE Future -------------------------------
(***************************************************************************)
(* Futures (engine/core/async/future.h, future_impl.cc): results that are  *)
(* set once, continuations that are scheduled on an executor when their    *)
(* parent has a result, and fan-in by Combine and Merge.                   *)
(*                                                                         *)
(* Futures are numbered as they are created.  A thread's agenda is the     *)
(* rest of the calls it is in, innermost first: Return runs callbacks,     *)
(* callbacks schedule tasks, the immediate executor runs them at once and  *)
(* they return other futures.  One step executes the head of an agenda:    *)
(* one critical section of one future.  An entry is <<operation, future>>  *)
(* or <<operation, future, argument>>; the callbacks stored in on_ready_   *)
(* are entries too.                                                        *)
(*                                                                         *)
(* A future is held by handles, closures, tasks and other futures; when    *)
(* the last of them goes while it is pending, ~FutureImplWrapper cancels   *)
(* it, on the thread and under the mutexes of whoever let it go.  Mutex f  *)
(* is that of future f, and mutex 0 that of the foreground executor.       *)
(***************************************************************************)
EXTENDS Executors, Sequences, SequencesExt

CONSTANTS
  AskedTypes,      \* the executor types users ask for
  TakesResult,     \* whether the callbacks of Then take the Result: a set of Booleans
  Users,           \* the threads that create, combine, cancel and drop futures
  MaxFutures,      \* bound: as many futures are created
  MaxInterventions,\* bound: as many cancellations, priority updates, dropped handles and
                   \* shutdowns
  LastReference    \* whether a user lets go of the last reference to a pending
                   \* future inside a call that holds a mutex

VARIABLES
  created,     \* how many futures there are
  interventions,  \* how many of the bounded calls were made
  kind,        \* how each was created
  home,        \* executor_type of its task
  accepts,     \* whether its callback takes the parent's Result
  sources,     \* its parent, or the futures it combines
  result,      \* "none" until ready_
  on_ready,    \* on_ready_
  shared,      \* the SharedState of a combined future
  handles,     \* the futures a user has a Future<T> of
  agenda,      \* agenda[t]: what the thread has still to do
  held,        \* held[t]: the mutexes it holds between steps
  started,     \* history: how often the callable of a future was called
  dropped      \* history: futures whose task was cleared from a queue

futureVars == <<created, interventions, kind, home, accepts, sources, result, on_ready, shared,
                handles, agenda, held, started, dropped>>
vars == <<executorVars, futureVars>>

Futures == 1 .. MaxFutures
ForegroundMutex == 0
Results == {"ok", "error", "cancelled", "unavailable"}
Continuations == {"then", "status", "merge"}
Created == 1 .. created
Ready(f) == result[f] # "none"
ParentOf(f) == CHOOSE p \in sources[f] : TRUE

ASSUME FutureAssumption ==
  /\ AskedTypes \subseteq Types /\ TakesResult \subseteq BOOLEAN
  /\ Users \subseteq Threads /\ Workers \cap Users = {}
  /\ MaxFutures \in Nat /\ MaxInterventions \in Nat /\ LastReference \in BOOLEAN

NoShared == [remaining |-> 0, wait_all |-> FALSE, done |-> FALSE, has_error |-> FALSE,
             first_error |-> "ok"]

Init ==
  /\ ExecutorInit
  /\ created = 0
  /\ interventions = 0
  /\ kind = [f \in Futures |-> "none"]
  /\ home = [f \in Futures |-> "immediate"]
  /\ accepts = [f \in Futures |-> FALSE]
  /\ sources = [f \in Futures |-> {}]
  /\ result = [f \in Futures |-> "none"]
  /\ on_ready = [f \in Futures |-> <<>>]
  /\ shared = [f \in Futures |-> NoShared]
  /\ handles = {}
  /\ agenda = [t \in Threads |-> <<>>]
  /\ held = [t \in Threads |-> {}]
  /\ started = [f \in Futures |-> 0]
  /\ dropped = {}

-----------------------------------------------------------------------------
(* The agenda, and who waits for whom.                                     *)

Doing(t, op) == agenda[t] # <<>> /\ Head(agenda[t])[1] = op
Subject(t) == Head(agenda[t])[2]
Argument(t) == Head(agenda[t])[3]

\* The head is replaced by entries.
Proceed(t, entries) == agenda' = [agenda EXCEPT ![t] = entries \o Tail(@)]

\* The wrappers an entry keeps alive.
Keeps(entry) ==
  IF entry[1] = "arrive" THEN {entry[2], entry[3]} \cup sources[entry[3]]
  ELSE IF entry[1] = "attach" THEN {entry[2], entry[3]} \cup sources[entry[3]]
  ELSE IF entry[1] \in {"unlock", "release"} THEN {}
  ELSE {entry[2]}

\* Somebody other than child and the queues still holds the wrapper of f.
HeldWithout(f, child) ==
  \/ f \in handles
  \/ \E c \in Created \ {child} : kind[c] \in Continuations /\ ~Ready(c) /\ f \in sources[c]
  \/ \E g \in Created : \E i \in DOMAIN on_ready[g] : f \in Keeps(on_ready[g][i])
  \/ \E t \in Threads : \E i \in DOMAIN agenda[t] : f \in Keeps(agenda[t][i])

Held(f) == HeldWithout(f, 0) \/ \E e \in Queued : f \in queue[e]

\* The mutexes the head of an agenda locks, one after the other.  A release locks only if it
\* runs the destructor.
Needs(t) ==
  IF agenda[t] = <<>> THEN {}
  ELSE CASE Head(agenda[t])[1] \in {"attach", "return", "priority"} -> {Subject(t)}
         [] Doing(t, "release") -> IF Held(Subject(t)) THEN {} ELSE {Subject(t)}
         [] Doing(t, "run") -> {Subject(t)} \cup (IF kind[Subject(t)] \in Continuations
                                                 THEN sources[Subject(t)] ELSE {})
         [] Doing(t, "submit") ->
              {Subject(t)} \cup (IF Get(t, home[Subject(t)]) = "foreground"
                                 THEN {ForegroundMutex} ELSE {})
         [] Head(agenda[t])[1] \in {"push", "reprioritise"} ->
              IF Argument(t) = "foreground" THEN {ForegroundMutex} ELSE {}
         [] OTHER -> {}

Free(t) == \A u \in Threads : held[u] \cap Needs(t) = {}

-----------------------------------------------------------------------------
(* What users do, between their calls.                                     *)

Idle(t) == t \in Users /\ agenda[t] = <<>>

\* A new future: the caller gets a handle, and entries are what is left of the call.
Create(t, how, type, takes_result, from, state, entries) ==
  LET f == created + 1
  IN  /\ Idle(t) /\ created < MaxFutures
      /\ created' = f
      /\ kind' = [kind EXCEPT ![f] = how]
      /\ home' = [home EXCEPT ![f] = type]
      /\ accepts' = [accepts EXCEPT ![f] = takes_result]
      /\ sources' = [sources EXCEPT ![f] = from]
      /\ shared' = [shared EXCEPT ![f] = state]
      /\ handles' = handles \cup {f}
      /\ agenda' = [agenda EXCEPT ![t] = entries]
      /\ UNCHANGED <<executorVars, interventions, result, on_ready, held, started, dropped>>

\* Future<T>(): pending until it is cancelled.
Promise(t) == Create(t, "promise", "immediate", FALSE, {}, NoShared, <<>>)

Schedule(t, type) ==
  Create(t, "schedule", type, FALSE, {}, NoShared, << <<"submit", created + 1>> >>)

Then(t, p, type, takes_result) ==
  /\ p \in handles
  /\ Create(t, "then", type, takes_result, {p}, NoShared, << <<"attach", p, created + 1>> >>)

\* A Future<Status> of the status of p.
AsStatusFuture(t, p) ==
  /\ p \in handles
  /\ Create(t, "status", "immediate", TRUE, {p}, NoShared, << <<"attach", p, created + 1>> >>)

CombineStatusFutures(t, inputs, wait_for_all) ==
  LET r == created + 1
      order == SetToSeq(inputs)
  IN  /\ inputs \subseteq handles
      /\ Create(t, "combine", "immediate", FALSE, inputs,
                [NoShared EXCEPT !.remaining = Cardinality(inputs), !.wait_all = wait_for_all],
                IF inputs = {} THEN << <<"return", r, "ok">> >>
                ELSE [i \in DOMAIN order |-> <<"attach", order[i], r>>])

Combine(t, inputs) == CombineStatusFutures(t, inputs, FALSE)
CombineWaitForAll(t, inputs) == CombineStatusFutures(t, inputs, TRUE)

\* The second half of Merge: the values are read once the combined future is ok.
MergeValues(t, r) ==
  /\ r \in handles /\ kind[r] = "combine" /\ shared[r].wait_all
  /\ Create(t, "merge", "immediate", TRUE, {r}, NoShared, << <<"attach", r, created + 1>> >>)

Intervene == interventions < MaxInterventions /\ interventions' = interventions + 1

UserCall(t, entries) ==
  /\ Idle(t) /\ Intervene
  /\ agenda' = [agenda EXCEPT ![t] = entries]
  /\ UNCHANGED <<created, kind, home, accepts, sources, result, on_ready, shared, held, started,
                 dropped>>

\* f holds the last reference to its pending parent.
LetsGoOfParent(f) ==
  /\ kind[f] \in Continuations
  /\ LET p == ParentOf(f)
     IN  ~Ready(p) /\ ~HeldWithout(p, f) /\ \A e \in Queued : p \notin queue[e]

Cancel(t, f) ==
  /\ f \in handles /\ ~Ready(f)
  /\ ~LastReference => ~LetsGoOfParent(f)
  /\ UserCall(t, << <<"return", f, "cancelled">> >>)
  /\ UNCHANGED <<executorVars, handles>>

\* Future::UpdatePriority, and FutureGroup for each of its members.
UpdatePriority(t, f) ==
  /\ f \in handles /\ ~Ready(f)
  /\ UserCall(t, << <<"priority", f>> >>)
  /\ UNCHANGED <<executorVars, handles>>

DropHandle(t, f) ==
  /\ f \in handles
  /\ handles' = handles \ {f}
  /\ UserCall(t, << <<"release", f>> >>)
  /\ UNCHANGED executorVars

\* SimpleForegroundExecutor::Shutdown: the tasks are destroyed under its mutex.
ShutdownForeground(t) ==
  LET tasks == queue["foreground"]
      order == SetToSeq(tasks)
  IN  /\ Idle(t) /\ Intervene /\ \A u \in Threads : ForegroundMutex \notin held[u]
      /\ LastReference \/ \A f \in tasks : HeldWithout(f, 0) \/ on_ready[f] = <<>>
      /\ StopForeground
      /\ dropped' = dropped \cup tasks
      /\ held' = [held EXCEPT ![t] = @ \cup {ForegroundMutex}]
      /\ agenda' = [agenda EXCEPT ![t] = [i \in DOMAIN order |-> <<"release", order[i]>>]
                                         \o << <<"unlock", ForegroundMutex>> >>]
      /\ UNCHANGED <<created, kind, home, accepts, sources, result, on_ready, shared, handles,
                     started>>

ShutdownBackground(t) ==
  /\ UserCall(t, <<>>) /\ UNCHANGED handles
  /\ StopBackground

-----------------------------------------------------------------------------
(* The steps of the calls.                                                 *)

\* An operation that changes nothing but the agenda.
Continue(t, entries) ==
  /\ Proceed(t, entries)
  /\ UNCHANGED <<created, interventions, kind, home, accepts, sources, result, on_ready, shared, handles, held,
                 started, dropped>>

\* The callback of x registered with p: a continuation is scheduled, a combined
\* future counts the arrival.
CallbackOf(p, x) == IF kind[x] = "combine" THEN <<"arrive", p, x>> ELSE <<"submit", x>>

\* OnReady: called at once if the result is there.
AttachReady(t) ==
  /\ Doing(t, "attach") /\ Free(t) /\ Ready(Subject(t))
  /\ Continue(t, <<CallbackOf(Subject(t), Argument(t))>>)
  /\ UNCHANGED executorVars

\* Mutant: registered on a stale look at ready_.
AttachUnchecked(t) ==
  /\ Doing(t, "attach") /\ Free(t)
  /\ on_ready' = [on_ready EXCEPT ![Subject(t)] =
                    Append(@, CallbackOf(Subject(t), Argument(t)))]
  /\ Proceed(t, <<>>)
  /\ UNCHANGED <<executorVars, created, interventions, kind, home, accepts, sources, result,
                 shared, handles, held, started, dropped>>

AttachPending(t) ==
  /\ Doing(t, "attach") /\ Free(t) /\ ~Ready(Subject(t))
  /\ on_ready' = [on_ready EXCEPT ![Subject(t)] =
                    Append(@, CallbackOf(Subject(t), Argument(t)))]
  /\ Proceed(t, <<>>)
  /\ UNCHANGED <<executorVars, created, interventions, kind, home, accepts, sources, result, shared, handles,
                 held, started, dropped>>

\* ScheduleOnExecutor up to SetTaskContext; the immediate executor needs no push.
Submit(t) ==
  LET f == Subject(t)
      e == Get(t, home[f])
  IN  /\ Doing(t, "submit") /\ Free(t)
      /\ Continue(t, IF e = "immediate" THEN << <<"run", f>> >> ELSE << <<"push", f, e>> >>)
      /\ UNCHANGED executorVars

PushTask(t) ==
  /\ Doing(t, "push") /\ Free(t)
  /\ Push(Argument(t), Subject(t))
  /\ Continue(t, <<>>)

PushFails(t) ==
  /\ Doing(t, "push") /\ Free(t)
  /\ PushRefused(Argument(t))
  /\ Continue(t, << <<"return", Subject(t), "unavailable">> >>)

\* A pump or a worker takes a task.
Take(t, f) ==
  /\ agenda[t] = <<>>
  /\ \A u \in Threads : t \in Workers \/ ForegroundMutex \notin held[u]
  /\ Pop(t, f)
  /\ agenda' = [agenda EXCEPT ![t] = << <<"run", f>> >>]
  /\ UNCHANGED <<created, interventions, kind, home, accepts, sources, result, on_ready, shared, handles, held,
                 started, dropped>>

\* Mutant: the continuation runs whatever became of its parent.
NeverPropagates(f) == FALSE

\* Whether the continuation f passes its parent's error on instead of running.
Propagates(f) ==
  kind[f] \in Continuations /\ ~accepts[f] /\ result[ParentOf(f)] # "ok"

RunSkipped(t) ==
  /\ Doing(t, "run") /\ Free(t) /\ Ready(Subject(t))
  /\ Continue(t, <<>>)
  /\ UNCHANGED executorVars

RunPropagates(t) ==
  LET f == Subject(t)
  IN  /\ Doing(t, "run") /\ Free(t) /\ ~Ready(f) /\ Propagates(f)
      /\ Continue(t, << <<"return", f, result[ParentOf(f)]>> >>)
      /\ UNCHANGED executorVars

RunCalls(t) ==
  LET f == Subject(t)
  IN  /\ Doing(t, "run") /\ Free(t) /\ ~Ready(f) /\ ~Propagates(f)
      /\ started' = [started EXCEPT ![f] = @ + 1]
      /\ Proceed(t, << <<"body", f>> >>)
      /\ UNCHANGED <<executorVars, created, interventions, kind, home, accepts, sources, result, on_ready,
                     shared, handles, held, dropped>>

\* What the callable of f may produce.
Produces(f) ==
  IF kind[f] \in {"status", "merge"} THEN {result[ParentOf(f)]} ELSE {"ok", "error"}

BodyReturns(t) ==
  /\ Doing(t, "body")
  /\ \E v \in Produces(Subject(t)) : Continue(t, << <<"return", Subject(t), v>> >>)
  /\ UNCHANGED executorVars

\* Mutant: the callbacks are called with the mutex held.
ReturnLocked(t) ==
  LET f == Subject(t)
  IN  /\ Doing(t, "return") /\ Free(t) /\ ~Ready(f)
      /\ result' = [result EXCEPT ![f] = Argument(t)]
      /\ on_ready' = [on_ready EXCEPT ![f] = <<>>]
      /\ held' = [held EXCEPT ![t] = @ \cup {f}]
      /\ Proceed(t, on_ready[f] \o << <<"unlock", f>> >>)
      /\ UNCHANGED <<executorVars, created, interventions, kind, home, accepts, sources, shared,
                     handles, started, dropped>>

\* Return: the parent is let go under the mutex, the callbacks are called after it.
Return(t) ==
  LET f == Subject(t)
      keeps_lock == kind[f] \in Continuations /\ ~Ready(ParentOf(f))
  IN  /\ Doing(t, "return") /\ Free(t) /\ ~Ready(f)
      /\ result' = [result EXCEPT ![f] = Argument(t)]
      /\ on_ready' = [on_ready EXCEPT ![f] = <<>>]
      /\ held' = [held EXCEPT ![t] = IF keeps_lock THEN @ \cup {f} ELSE @]
      /\ Proceed(t, (IF keeps_lock THEN << <<"release", ParentOf(f)>>, <<"unlock", f>> >>
                     ELSE <<>>) \o on_ready[f])
      /\ UNCHANGED <<executorVars, created, interventions, kind, home, accepts, sources, shared, handles,
                     started, dropped>>

ReturnIgnored(t) ==
  /\ Doing(t, "return") /\ Free(t) /\ Ready(Subject(t))
  /\ Continue(t, <<>>)
  /\ UNCHANGED executorVars

\* ~FutureImplWrapper, if the reference that went was the last.
Release(t) ==
  LET f == Subject(t)
  IN  /\ Doing(t, "release") /\ Free(t)
      /\ Continue(t, IF Ready(f) \/ Held(f) THEN <<>> ELSE << <<"return", f, "cancelled">> >>)
      /\ UNCHANGED executorVars

Unlock(t) ==
  /\ Doing(t, "unlock")
  /\ held' = [held EXCEPT ![t] = @ \ {Subject(t)}]
  /\ Proceed(t, <<>>)
  /\ UNCHANGED <<executorVars, created, interventions, kind, home, accepts, sources, result, on_ready, shared,
                 handles, started, dropped>>

\* executor_ is null until SetTaskContext.
ExecutorOf(t, f) ==
  LET waits == UNION ({ToSet(on_ready[g]) : g \in Created} \cup {ToSet(agenda[u]) : u \in Threads})
  IN  IF kind[f] \in {"promise", "combine"} \/ <<"submit", f>> \in waits THEN "immediate"
      ELSE Get(t, home[f])

\* FutureImpl::UpdatePriority calls the executor under the mutex of the future; neither
\* null nor the immediate executor has a task to reschedule.
Reprioritise(t) ==
  LET f == Subject(t)
      e == ExecutorOf(t, f)
  IN  /\ Doing(t, "priority") /\ Free(t)
      /\ Proceed(t, IF e = "immediate" THEN <<>>
                    ELSE << <<"reprioritise", f, e>>, <<"unlock", f>> >>)
      /\ held' = [held EXCEPT ![t] = IF e = "immediate" THEN @ ELSE @ \cup {f}]
      /\ UNCHANGED <<executorVars, created, interventions, kind, home, accepts, sources, result, on_ready,
                     shared, handles, started, dropped>>

RescheduleTask(t) ==
  /\ Doing(t, "reprioritise") /\ Free(t)
  /\ Continue(t, <<>>)
  /\ UNCHANGED executorVars

\* Mutant: a failure ends the wait for all too.
ArrivalFailsFast(s, status) ==
  LET remaining == s.remaining - 1
  IN  [remaining |-> remaining, wait_all |-> s.wait_all,
       done |-> status # "ok" \/ remaining = 0,
       has_error |-> s.has_error \/ status # "ok",
       first_error |-> IF status # "ok" /\ ~s.has_error THEN status ELSE s.first_error]

\* The callback of a combined future r, when its input i is ready.
AfterArrival(s, status) ==
  LET failed == status # "ok" /\ ~s.has_error
      fails_fast == failed /\ ~s.wait_all
      remaining == IF s.remaining > 0 THEN s.remaining - 1 ELSE 0
  IN  [remaining |-> remaining, wait_all |-> s.wait_all,
       done |-> fails_fast \/ remaining = 0,
       has_error |-> s.has_error \/ failed,
       first_error |-> IF failed THEN status ELSE s.first_error]

Arrive(t) ==
  LET r == Argument(t)
      after == AfterArrival(shared[r], result[Subject(t)])
  IN  /\ Doing(t, "arrive") /\ ~shared[r].done
      /\ shared' = [shared EXCEPT ![r] = after]
      /\ Proceed(t, IF after.done THEN << <<"return", r, after.first_error>> >> ELSE <<>>)
      /\ UNCHANGED <<executorVars, created, interventions, kind, home, accepts, sources, result, on_ready,
                     handles, held, started, dropped>>

ArriveLate(t) ==
  /\ Doing(t, "arrive") /\ shared[Argument(t)].done
  /\ Continue(t, <<>>)
  /\ UNCHANGED executorVars

-----------------------------------------------------------------------------
Step(t) ==
  \/ AttachReady(t) \/ AttachPending(t) \/ Submit(t) \/ PushTask(t) \/ PushFails(t)
  \/ RunSkipped(t) \/ RunPropagates(t) \/ RunCalls(t) \/ BodyReturns(t)
  \/ Return(t) \/ ReturnIgnored(t) \/ Release(t) \/ Unlock(t)
  \/ Reprioritise(t) \/ RescheduleTask(t) \/ Arrive(t) \/ ArriveLate(t)

User(t) ==
  \/ Promise(t)
  \/ \E type \in AskedTypes : Schedule(t, type)
  \/ \E p \in Created, type \in AskedTypes, takes_result \in TakesResult : Then(t, p, type, takes_result)
  \/ \E p \in Created : AsStatusFuture(t, p)
  \/ \E inputs \in SUBSET Created : Combine(t, inputs) \/ CombineWaitForAll(t, inputs)
  \/ \E r \in Created : MergeValues(t, r)
  \/ \E f \in Created : Cancel(t, f)
  \/ \E f \in Created : UpdatePriority(t, f)
  \/ \E f \in Created : DropHandle(t, f)
  \/ ShutdownForeground(t)
  \/ ShutdownBackground(t)

Next == \E t \in Threads : Step(t) \/ User(t) \/ \E f \in Created : Take(t, f)

\* Threads go on with their calls, the foreground executor is pumped every frame, and the
\* workers take tasks as long as there are any (ThreadPoolExecutor: AcceptedFinishes).
Fairness ==
  \A t \in Threads : WF_vars(Step(t) \/ \E f \in Created : Take(t, f))

Spec == Init /\ [][Next]_vars /\ Fairness

-----------------------------------------------------------------------------
(* Properties.                                                             *)

\* The type invariant: a future is made from older ones, and a mutex held between two
\* steps is one that the rest of the agenda unlocks.
TypeOK ==
  /\ created \in 0 .. MaxFutures
  /\ result \in [Futures -> Results \cup {"none"}]
  /\ handles \subseteq Created /\ dropped \subseteq Created
  /\ \A e \in Queued : queue[e] \subseteq Created
  /\ \A f \in Futures : sources[f] \subseteq 1 .. (f - 1) /\ started[f] \in Nat
  /\ \A t \in Threads : \A m \in held[t] : <<"unlock", m>> \in ToSet(agenda[t])

\* Futures keep their promises: each gets one result, never another, and one that follows
\* from those it was made from: a continuation passes on its parent's error or runs, Combine
\* fails as soon as one fails or waits for all, Merge has every value or none.
Promised == INSTANCE Promises WITH wait_all <- [f \in Futures |-> shared[f].wait_all]
ImplementsPromises == Promised!Spec

\* A callable is called at most once, a continuation only with its parent's result there,
\* and with a parent that failed only if it asked for the Result.
CalledOnceInOrder ==
  \A f \in Created :
    /\ started[f] <= 1
    /\ started[f] = 1 /\ kind[f] \in Continuations =>
         Ready(ParentOf(f)) /\ (accepts[f] \/ result[ParentOf(f)] = "ok")

\* Once the threads are out of all calls, a pending future still has what will complete it:
\* its task is queued or was cleared, or it is registered with a source that is pending.
\* OnReady races with Return for this on every registration.
NothingForgotten ==
  (\A t \in Threads : agenda[t] = <<>>) =>
    \A f \in Created : ~Ready(f) =>
      \/ kind[f] = "promise" \/ f \in dropped
      \/ \E e \in Queued : f \in queue[e]
      \/ \E p \in sources[f] : ~Ready(p) /\ CallbackOf(p, f) \in ToSet(on_ready[p])

\* No thread waits for a mutex it holds itself, nor several for each other: callbacks,
\* cancellations by destructors and executors are called into with as few mutexes held as
\* that takes.
NoLockCycle ==
  \A T \in (SUBSET Threads) \ {{}} :
    \E t \in T : \A u \in T : held[u] \cap Needs(t) = {}
=============================================================================

# FabricaEngine: TLA+ models and proofs

This directory holds TLA+ modules for the parts of FabricaEngine (`engine/`)
that are hard to test: the threads, the queues between them, and the order in
which things start, fail and stop. Every definition is written from the C++ source.
TLC checks the modules on small instances; TLAPS proves what matters most for
every value of the constants.

1. [The system](#1-the-system): an inventory of its components
2. [What is modelled](#2-what-is-modelled): module by module
3. [The runs](#3-the-runs): what each shows, bounds, fairness
4. [What is proved](#4-what-is-proved)
5. [Where code and documents disagree](#5-where-code-and-documents-disagree)
6. [What is not modelled](#6-what-is-not-modelled)
7. [What could follow](#7-what-could-follow)

## 1. The system

FabricaEngine is a C++20 engine in layers: `core` (jobs, futures, logging, assets,
entities, window, runtime, views), `pal` (platform), `rhi` (rendering interface, render
graph, Vulkan backend) and `renderer`. A frame is driven by one thread, which
polls window events, pumps the foreground executor and calls update and render;
a thread pool runs background tasks; the logger has a thread of its own.

| Component | State | Operations | What is hard | What makes it correct |
|---|---|---|---|---|
| `Logger::Queue` (`core/logging/logger.cc`) | two position counters, a ring of cells with a sequence number and a record each | `Push`, `Pop`, lock-free, any number of threads | relaxed and acquire loads, CAS races, wrap-around, full and empty | no torn or lost record, FIFO, bounded, no endless retry |
| `Logger` | `initialized_`, `running_`, sinks, `queue_`, the worker | `Initialize`, `Submit`, `Flush`, `Shutdown`, `WorkerLoop` | several readers, full queue, shutdown and restart, fatal records | every record the logger keeps is written once; a flush leaves nothing queued that it could reach |
| `TaskScheduler` (`core/jobs`) | entries by id, the order of ids, reserved ids | push, reserve, push on a reserved id, reschedule, pop with aging | map and order out of step, starvation | one place per entry, no overtaking of a task that is due |
| `ThreadPoolExecutor` | a scheduler, `active_tasks_`, `shutting_down_`, two condition variables, workers | schedule, `Pump(drain)`, `Shutdown`, worker loop | lost wake-ups, draining against scheduling, shutting down with queued tasks | tasks run exactly once, `Pump(true)` and `Shutdown` mean all is done, nobody waits for ever |
| `SimpleForegroundExecutor`, `Executor` | a scheduler, `shutting_down_`, thread-local executors | schedule, pump, shutdown, `Executor::Get` | re-entrant pumping, tasks dropped at shutdown | a task runs once or is dropped by a shutdown; the current executor is right inside a task |
| `Future`, `FutureImpl`, `FutureGroup` (`core/async`) | result, callbacks, dependencies, parents, task context, per future; counters of combined futures | `Then`, `Schedule`, `Return`, `Cancel`, `Combine`, `Merge`, `UpdatePriority`; the destructor cancels | completion racing with registration, cancellation, cycles of ownership, type of a cancelled result | completes once, each continuation runs once, combined futures complete once with the first error |
| `ResourceManager` (`core/assets`) | caches of weak futures, `next_handle_id_` | `LoadTexture`, `LoadMesh`, `LoadAudio` | look-up and fill in two critical sections, expiry | one load per path in flight, unique handles |
| `WindowEventQueue`, `WindowSystem` (`core/window`) | a ring with one writer and one reader; the backend | `Push`, `Pop`, `Initialize`, `PollEvents`, `Shutdown` | full ring, events after shutdown | events in order, none lost but for a full ring |
| `EngineRuntime` (`core/runtime`) | state, stop request, executors, window system, callbacks | `Initialize`, `Tick`, `Run`, `RequestStop`, `Shutdown` | failure half-way, callbacks that call back, order of destruction | start and stop are paired, no use after shutdown, a stopped runtime can start again |
| `ViewApplication`, `BaseView` (`core/app`) | a view and its life-cycle flags | the runtime's callbacks | as for the runtime | hooks in order and paired |
| `World`, `EntityStore`, `ArchetypeStore`, `ComponentRegistry` (`core/ecs`) | entity records with generations, free indices, archetype rows and columns, the sealed flag | create, destroy, add, remove, get, iterate, reserve, seal | swap-back removal, migration and roll-back, reuse of indices, sealed capacity | each live record points at the row of its entity; a dead id never resolves |
| `LinearAllocator`, `StackAllocator`, `PoolAllocator` (`core/memory`) | offsets, markers, a free list | allocate, free, roll back, reset | alignment, overflow, stale markers | blocks are disjoint, aligned and inside the buffer |
| `InputActionMap` (`core/input`) | bindings in both directions, pressed keys, counts per action | `Bind`, `Unbind`, `UnbindAll`, `HandleWindowEvent`, `IsPressed` | bindings changed while keys are down and inside the loop that counts a key's actions, lost events | an action's count is that of the pressed keys bound to it |
| `RenderGraph` (`rhi`) | passes, resources, usages, execution order | add, compile, execute | culling, ordering | dependencies respected, outputs produced |
| Vulkan backend (`rhi/vulkan`) | slot maps with generations, the ring of frames, deferred destruction, swap chain, descriptors | allocate, destroy, begin and end frame, resize | generation wrap, destruction while in flight, semaphores used twice, failed and outdated acquisitions, failing initialisation | no stale handle resolves, nothing in use is destroyed |
| Renderer (`renderer`) | per-frame resources, pipeline and shader caches | begin, submit, end, resize | reuse of per-frame buffers | a frame in flight is not overwritten |
| `common`, `config`, `pal` | values; files; thread names | | | used, not modelled |

How they interact:

* `Future` schedules on an `Executor`; both executors own a `TaskScheduler`, called under
  the executor's mutex only. Completion of a future calls its continuations on the completing
  thread, which schedule further tasks.
* `ResourceManager` chains futures over both executors.
* `EngineRuntime` owns both executors and the `WindowSystem`, registers the executors, calls
  the application back and shuts everything down: window, pool, foreground executor, and last
  the logger (`engine_runtime.cc:165-199`).
* Every component submits to `Logger::Instance()`, from any thread.
* `Renderer` builds a `RenderGraph` per frame and runs it on a backend.

The hazards this code is exposed to are listed, each at its line and with the
properties that would catch it, in `PROJECT.json`.

## 2. What is modelled

| Module | Models | Used by |
|---|---|---|
| `LogQueue` | `Logger::Queue`, one atomic operation or record copy per step | `MCLogQueue` |
| `BoundedFifo` | what the logger asks of that queue; `LogQueue` implements it | `LogQueue` |
| `Logger` | the logger around the queue | `MCLogger` |
| `TaskScheduler` | the operations of `TaskScheduler`, as actions without a specification of their own | `ThreadPoolExecutor` |
| `ThreadPoolExecutor` | the pool; calls the scheduler inside its critical sections | `MCThreadPoolExecutor` |
| `EntityStore`, `ArchetypeStore` | the two stores of a `World`, as operators from a store to a store | `World` |
| `World` | the world over both stores and the registry | `MCWorld` |
| `EntityMap` | what a world promises; `World` implements it | `World` |
| `Executors` | the executors as their clients see them, and `Executor::Get` | `Future` |
| `Future` | futures, continuations, combinations, cancellation, on these executors | `MCFuture` |
| `Promises` | what futures promise; `Future` implements it | `Future` |
| `ResourceManager` | loads of assets through the cache of weak futures | `MCResourceManager` |
| `InputActionMap`, `WindowSystem` | bindings and pressed keys; the event ring and the backend | `EngineRuntime` |
| `EngineRuntime` | the runtime and `ViewApplication`, over the two above and both executors | `MCEngineRuntime` |
| `StackAllocator`, `PoolAllocator` | the allocators | `MCMemory` |
| `RenderGraph` | declaring, compiling and executing a graph | `MCRenderGraph` |
| `VulkanSlotMap` | generational handles | `VulkanDevice` |
| `VulkanDevice` | external: queues, semaphores and fences of a device | `VulkanSwapChain` |
| `VulkanSwapChain` | acquisition, presentation, recreation | `VulkanRHIContext` |
| `VulkanInit` | creation and destruction of the Vulkan objects | `VulkanRHIContext` |
| `VulkanRHIContext` | the frame ring, submissions, deferred destruction, uploads | `Renderer` |
| `Renderer` | the renderer and an application that drives it | `MCRenderer` |
| `LogQueueProofs`, `LoggerProofs`, `ThreadPoolProofs`, `FutureProofs`, `EngineRuntimeProofs`, `ResourceProofs`, `WorldProofs`, `RendererProofs` | theorems about these modules (section 4) | |
| `MC...` | the constants of the runs | |

A definition whose comment speaks of what the code does *not* do, or that is called a mutant, is a fault
that someone could plausibly make in the operation it precedes. It is no part of any
specification: put in the place of that operation it shows that the
property meant to catch it does.

### LogQueue

`enqueue_pos`, `dequeue_pos`, `sequence` and `record` are the members of the queue;
`pc`, `position`, `arg` and `out` are the locals of each thread inside `Push` or `Pop`.
`PushBegin` loads the position; `PushFree`, `PushFull` and `PushRetry` are the three
outcomes of comparing the cell's sequence number; `PushClaim` and `PushClaimFails` are the
compare-and-swap; `PushWrite` copies the record; `PushPublish` stores the sequence number.
`Pop` is alike. A thread may be a pusher and a popper, as the submitter of a fatal record is.

*Memory model.* Read-modify-writes see the latest value. A relaxed or acquire *load* may
return any value the location has held, from the one the thread already saw for the counters:
more than C++ allows, so what holds here holds there. A failing
`compare_exchange_weak` hands back the current position, and may fail for no reason.
Publication is safe because the store is a release and the load that precedes the copy an
acquire: a thread that sees the sequence number sees the record. The model
relies on it by having a single `record` that all threads agree on.

`accepted` is a history variable, the record pushed at each position.

### Logger

`config` is the life of the logger; `queue` is the ring at the level of detail `LogQueue`
justifies (a claim, its publication, a pop), with a reader stuck behind an unpublished claim.
`records`, `written` and `pending` are history variables. A critical section of `mutex_` is one
step, so `Initialize`, `WriteLine` and the end of `Shutdown` are. `initialized_`, stored last by
`Shutdown` but read without the mutex, changes in a step of its own (`ShutdownDone`).
Loads of the flags return the latest value. The relaxed queue shows in two places: a push may
be refused by an old sequence number once the ring has wrapped, and a pop
waits for no one. Filters (`IsEnabled`) may give either answer. A fatal record ends
the process: every `pc` becomes `"terminated"`.

`ExclusiveShutdown` says that no other call overlaps `Shutdown`. The runtime arranges it
for the engine's own threads: it joins the pool before it stops the logger. With
`FALSE`, the model lets any two calls overlap (see section 5).

### TaskScheduler and ThreadPoolExecutor

Each operation of the scheduler is one action on `next_task_id`, `reserved_task_ids`,
`tasks` and `queue_order`, because every caller holds the executor's mutex. `now` is the clock,
in the unit of `task_age_rate`. A task is its id. `PopTask` picks the highest
effective priority, the oldest among equals, as the scan does.

A step of the pool is one critical section of `mutex_`, a notification outside it, a join
or the return of a task's body. `cv_` is the set of workers at `cv_wait`; `drain_cv_`, callers
at `drain_wait` (the wait at the top of `Pump`'s loop) and at `idle_wait` (the second one). A
wake-up moves a thread to where it evaluates its predicate again, under the mutex.
`SpuriousWake` may wake any waiter. Tasks may schedule, reserve and
reprioritise; they do not pump or shut down their own pool (a task that does waits for itself).

### EntityStore, ArchetypeStore, World

"Not thread-safe. Mutate from one owner thread." (`world.h:38`): a call is one step. One call
uses several operations of the stores (`AddComponent` looks up or creates an
archetype, appends, copies, removes by swapping the last row in, and patches two records), so these are operators
that `World`'s actions compose in the order of the code. `entity_store` is the store's members as a
record; `archetypes`, the archetypes in the order of creation; `component_types`, the registry, in
which a type's place is its dense index. A mask is the set of its bits. Indices and rows count from 1.

A call refused before it changes anything is not an action. Creation that fails
half-way is (`CreateEntityRollsBack`): in a sealed world the root archetype may be full while
another entity may still be created, because the two limits are raised separately. Callers hold any id, stale ones
included (`Ids`). `WriteComponent` is `AddComponent` of a component the entity has, and a write
through a pointer or reference that the world gave out. `ForEach` changes nothing by itself:
`ForEachVisits` is what it visits.

### Executors, Future, Promises

`Executors` keeps of an executor what a future can notice: the set of tasks queued on it, the refusal after
`Shutdown`, that the foreground executor drops its queue at `Shutdown` while the pool's workers
empty theirs, and that a thread without registered slots runs a task inside the call. Which queued
task is popped is left open, so what holds here holds for every order of priorities and ages.

A future is a number. `result` is `result_` once `ready_` is set, as `"ok"`, `"error"`, `"cancelled"` or
`"unavailable"` (the executor refused); `on_ready` is `on_ready_`, a sequence of entries; `sources` is its
parent or its dependencies; `shared` is the shared state of a combined future. `Return` runs callbacks, callbacks
schedule tasks, a task may run at once and return another future: a thread's nested calls are its
`agenda`, a sequence of entries of which each step executes the head. A step is one critical section
of one future, or what lies between two. `held` are the mutexes a thread keeps between its steps: the ones it calls
out of. A user may create futures in every way, cancel, reprioritise, drop handles and shut an
executor down, with `MaxInterventions` as the bound on the last four together. When the last owner
of a pending future goes, its destructor cancels it there and then, under whatever that thread holds.

`LastReference = FALSE` says that users keep a handle of a pending future whose release would happen
inside a call that holds a mutex; with `TRUE`, see section 5.

`Promises` has no threads: futures are created from others, and each gets one result, `"cancelled"` or one
that the results of its sources allow.

### ResourceManager

The lookup (`Lock`) and the store (`Store`) are the two critical sections of `LoadResource`, with
`ScheduleStages` between them. A load is the future with the number of its lookup; it goes through
read, decode and upload, any of which may fail, and its tasks hold it until it has
finished. It expires when its tasks and clients have let go of it. `raced` remembers the paths for which two calls were between lookup and
store at once.

### InputActionMap, WindowSystem, EngineRuntime

The main thread runs everything but the pool; `pc` says where it is, and each callback of the view is a
place where the view may bind and unbind keys, schedule tasks and ask for a stop before it returns, well
or with an error. Callbacks of the platform push events only inside `PollEvents`; the ring keeps one cell
free and drops what does not fit. As any event of a key may be dropped, a key is pressed, repeated and released in any
sequence; the window is asked to close at any time.

A key event is delivered after `OnEvent` has returned, in the loop of `HandleWindowEvent` over the actions of the key
(`input_action_map.cc:146-152, 167-181`). Each turn is a step (`CountAction`): it counts one action and, if that starts
or ends it, calls `OnInputAction` (`view_application.cc:28-33`), which is the place "action" and like any other callback may bind, unbind,
schedule and stop. `remaining` has the actions still to be counted. The turns of a repetition count nothing and are one visit
to "action". The model leaves out a view that changes the bindings of the very key being delivered: the loop iterates over that
vector, and what it does then is undefined.

`Initialize` may fail at the window or in the start callback, and
unwinds through `Shutdown`, whose steps (view, window, pool, foreground executor, slots) are steps here. The
pool runs its tasks beside them, and every pool task may queue one on the foreground executor.

### StackAllocator, PoolAllocator

Offsets and addresses are numbers modulo `WordSize`, so that padding and sums wrap as `size_t` does. `blocks`
is a history variable: what was handed out and not given up by a roll-back or a reset. The client keeps one marker, which may be older
than a reset or another roll-back; a roll-back restores both cursors and gives up the blocks that reach into the gap
it reopens. `LinearAllocator` is the same from the front.

In the pool, a call is its part before and its part after the constructor or destructor of the object,
with the calls in progress on a stack, because both may call the pool again. The end of the pool (`~PoolAllocator`)
destroys what is left, slot by slot, and destructors may still deallocate.

### RenderGraph

A pass is a queue, a set of resources it reads and a set it writes; textures and buffers are the same
here. `Compile` is the code's algorithm: the last writer of each resource (`Producer`), the passes needed
for what is visible outside, the dependencies between live passes and the order taken from them. Its two loops over a queue are
recursive functions that take as many steps as there are passes, which is enough (section 4).
`Execute` is a step per pass: it opens, continues or submits the batch of a queue, and records barriers by comparing
with the usage tracked for the resource. It may break off when a graph returns to a queue. `unsynced` keeps
the usages since the last barrier or submission.

### Vulkan and Renderer

`VulkanDevice` is external: queues that complete their operations in order, waiting for and signalling
binary semaphores and fences. The presentation engine is a queue of its own, and `vkDeviceWaitIdle` is
taken to wait for it as well; an acquisition signals its semaphore at once; graphics and compute are distinct families, the case with the least
order.

`VulkanInit` creates the objects one after the other, each of which may fail, and destroys what exists in
the order of the code. The messenger and the pipeline cache are taken to be there; a surface may be missing.
`VulkanSwapChain` has one render-finished semaphore per image, and is recreated after a wait for an
idle device. The number of images does not change with it.

`VulkanRHIContext` is the ring: `BeginFrame` waits for the fence of the frame `kFramesInFlight` ago, destroys
what was deferred to it and acquires an image; each submission of a frame waits for the one before; `Present`
submits the fence whether or not there was work or an image. Uploads are submissions that are waited for.
One slot map stands for the eight of the code.

`Renderer` has the uniform buffer and descriptor sets of each frame slot, which `BeginFrame` and `EndFrame` write, and one handle for everything else it keeps. `EndFrame` builds
a graph with a transient HDR texture, executes it and destroys the texture, which is deferred. The
application renders once a frame, initialises the renderer between frames, may submit compute work of its own with a
fence that it waits for before it uses it again, resizes, uploads, shuts everything down and starts again. `DestroyBetweenFrames = FALSE` is an obligation of the client: a
renderer that is shut down after `Present` and before the next `BeginFrame` defers what it destroys to a frame that is not the one using it.

## 3. The runs

| Run | Instance | Shows |
|---|---|---|
| `log_queue` | 2 cells, 2 pushers, 2 poppers (one thread is both), 2 records, 3 pushes | `NoRecordRace`, `RetryMeansProgress`, `QueueInv`, `ImplementsFifo`, no deadlock |
| `logger` | 2 callers and the worker, 2 cells, 3 records | `NoRecordLost`, `WrittenInOrder`, `FlushEmptiesQueue`, `KeptIsWritten` |
| `thread_pool` | 2 workers, 2 callers, 2 ids, priorities 98 and 150 (clamped to 100), clock 0 to 2 | `TasksAccounted`, `OlderTaskNotOvertaken`, `DrainMeansDone`, `ShutdownDrains`, `AcceptedFinishes`, `CallsReturn`, no deadlock |
| `world` | 2 entities at a time, 4 in all, 2 types, 2 values, capacities 1 and 2 | `RecordsMatchRows`, `FreeListExact`, `SealedWithinLimits`, `ForEachVisitsMatches`, `ImplementsEntityMap` |
| `future` | a main thread that pumps, a worker, 3 futures, 1 intervention | `CalledOnceInOrder`, `NothingForgotten`, `NoLockCycle`, `ImplementsPromises` |
| `resources` | 2 clients, 2 paths, 3 lookups | `SharedUnlessRaced`, `LoadsFinish` |
| `runtime` | ring of 2 cells, 2 keys, 2 actions, 2 initialisations, 1 task | `ServicesOutliveCallbacks`, `NothingLeftBehind`, `CountsMatchBindings`, `CloseEndsRun` |
| `memory` | 10 bytes at address 6, sizes 0, 1 and 4, alignments 1 and 4, word 32; 4 slots, 3 nested calls | `BlocksDisjoint`, `PoolExact` |
| `render_graph` | 3 passes, 3 resources, 5 uses, 2 queues | `OrderFollowsDeclarations`, `CullsExactly`, `AccessesSynchronised`, `ExecuteLeavesNothing` |
| `renderer` | 2 frames in flight, 2 images, 2 submissions, 3 slots, generations to 2, 2 events | `NoUseAfterDestroy`, `FrameAtRest`, `SemaphoresBinary`, `ObjectsOrdered`, `WaitsEnd` |
| `future_last_reference` | 2 futures, 3 interventions, `LastReference` | counterexample: section 5 |
| `resource_in_flight` | as `resources` | counterexample: section 5 |

### What the properties say

Logging and jobs:

* `NoRecordRace`: between its claim and its sequence store, a thread has its cell to itself.
* `RetryMeansProgress`: the loops of `Push` and `Pop` never reload a counter nobody moved.
* `ImplementsFifo`: the ring is a `BoundedFifo`: records come out once, whole, in the order
  of the claims, at most `Capacity` at a time. A claim is the linearization point.
* `NoRecordLost`: each record that is not dropped is queued, in one thread's hands
  or written, in exactly one of them, across shutdowns and restarts too.
* `WrittenInOrder`: each reader writes what it pops in the order of the queue.
* `FlushEmptiesQueue`: nothing a flush could reach when it began is still queued when it ends.
* `KeptIsWritten`: every record the logger keeps, an error that a full queue refused
  included, is written in the end, unless a fatal record ends the process.
* `TasksAccounted`: map and order of the scheduler agree, no reserved id is queued, a task is held by one
  thread, once, and `active_tasks_` counts exactly the threads that hold one. `TypeOK` is one of
  its conjuncts.
* `OlderTaskNotOvertaken`: no task leaves before an older one whose head start makes up for
  the difference of priorities.
* `DrainMeansDone`: when `Pump(true)` returns, nothing accepted by then is unfinished.
* `ShutdownDrains`: when the joining `Shutdown` returns, only a task that a concurrent
  `Pump` is running is unfinished.
* `AcceptedFinishes`, `CallsReturn`: every accepted task finishes, and `Pump` and `Shutdown`
  return.

Entities:

* `RecordsMatchRows`: a live entity's record points at the one row that holds it, in the archetype
  of its components, and every row belongs to a live entity.
* `FreeListExact`: the free indices are those without a live entity, each once; the count is exact.
* `SealedWithinLimits`: once sealed, entities and rows stay within the limits.
* `ForEachVisitsMatches`: every query visits each matching entity once, and no other.
* `ImplementsEntityMap`: ids are issued once, and a call changes the components of its own entity only.

Futures and assets:

* `CalledOnceInOrder`: a callable runs at most once, a continuation with its parent's result there,
  and with a failed parent only if it takes the `Result`.
* `NothingForgotten`: between calls, a pending future still has what will complete it. Registration
  (`OnReady`) racing with completion (`Return`) is what could lose it.
* `NoLockCycle`: no thread waits for a mutex it holds, nor several for each other.
* `ImplementsPromises`: futures keep their `Promises`, whatever interleaves.
* `SharedUnlessRaced`: a path has one live future, unless two calls have once been between lookup and store
  of it at the same time.
* `LoadsFinish`: every load that a call has begun finishes.

Runtime:

* `ServicesOutliveCallbacks`: callbacks of a frame find the window open, both executors alive and
  registered, the view started and not stopped; workers find the foreground executor they queue on.
* `NothingLeftBehind`: however a start, a frame or a shutdown ended, a runtime that does not run has
  no window, executor, slot, task or started view left.
* `CountsMatchBindings`: the two maps of bindings are each other's inverse, and each count is that of
  the pressed keys bound to the action (`CountsExact`), in the loop too, where an action it has still to come to is counted
  as before the event. Only an `Unbind` from inside a loop that has actions left puts counts off (section 5):
  `disturbed` remembers it until the next `Unbind` recounts. `Bind` never does.
* `CloseEndsRun`: a close request ends `Run`, even if its event found the queue full.

Memory:

* `BlocksDisjoint`: blocks lie inside the buffer, aligned, and never overlap.
* `PoolExact`: the free list runs through `free_count_` free slots, each once; an occupied slot holds an
  object or one under construction; the pool takes all its objects with it.

Rendering:

* `OrderFollowsDeclarations`: each live pass is ordered once, after the live pass that last wrote what it
  reads before it was declared, and writers of one resource keep their order.
* `CullsExactly`: where every resource is written once, before it is read, exactly what an output depends
  on is executed, and reads what was declared.
* `AccessesSynchronised`: a barrier or a submission stands between a write and a later read, and between a
  read and a later write.
* `ExecuteLeavesNothing`: no list is recorded again while it may be pending; at the end, every list that
  was begun is submitted and no transient resource is left, also when the execution was broken off.
* `NoUseAfterDestroy`: nothing the device may still use has been destroyed.
* `FrameAtRest`: a pending command list is neither reset nor recorded, and no submission uses the uniforms
  that the renderer is writing.
* `SemaphoresBinary`: none is signalled twice without a wait between, and the one given to an acquisition
  is in no use.
* `ObjectsOrdered`: Vulkan objects are destroyed before what they were made from, and none is left
  of a context that failed or was shut down.
* `WaitsEnd`: every wait of the client, for a fence, an image, an idle device or an upload, ends.

Each module also states a `TypeOK`. It holds with the constants of every run; to see it, add `INVARIANT TypeOK` to the
configuration. For `LogQueue`, `Logger`, `ThreadPoolExecutor`, `ResourceManager` and `EngineRuntime` it is proved.

### Bounds

`MaxPushes = 3` on 2 cells wraps the ring while the first lap is still being read: a cell is
reused and a sequence number met a lap later. In `logger`, 3 records on 2 cells fill the
queue, refuse a record and wrap, and the logger may restart any number of times. In
`thread_pool`, 2 tasks on 2 workers and 2 callers reach every pair of a waiting, running,
draining and stopping thread; two clock units let an older task make up the difference of 2
between the priorities. `MaxTaskId` and `MaxNow` bound ids and time, far below the wrap of the
32-bit id. In `world`, two rows of one archetype tell a moved row from one that stays, two values show a
copy from the wrong row, and four ids on two indices reuse each; a seal may come at any moment. `LastGeneration` is both the largest
generation and a bound: an entity of that generation is not destroyed, so ids do not wrap. The two types differ
in name only, which justifies the symmetry.

In `future`, three futures make a chain of two continuations, a combination or merge of two, and a
continuation with a sibling; one intervention is one cancellation, priority update, dropped handle or shutdown at any moment.
In `resources`, a third lookup meets a path after two raced, or after its future expired. In `runtime`, two events overflow
the ring in one poll, two keys share an action and two actions a key, so that a callback of the first
action's turn can bind and unbind before the second's, and the second initialisation follows a failure or a shutdown. One task
goes through both executors beside the main thread at any place. Tasks are bounded
because a frame pumps until the queue is empty, which endless tasks would keep from happening.
In `memory`, the buffer starts at no multiple of the alignment, so both ends pad; 3 nested
calls let a destructor give back a slot from inside another. In `render_graph`, five uses over three passes make a writer, its
reader and an overwriting pass, or a return to a queue; the queues are symmetric. In `renderer`, two events are two
of: a resize, a failed recreation, a failed or outdated acquisition, an upload, compute work with or without a fence, a renderer
that fails to start or is shut down; initialisation and shutdown of the context are free. Two frames and two images get out of step.
Generations are bounded, because after 65535 reuses of a slot a handle really is valid again.

### Fairness

`LogQueue`, `World`, `RenderGraph` and the allocators have none: their properties are safety. Elsewhere fairness is weak, and is that of
steps *inside* a call, never of beginning one, nor of a spurious wake-up, so nothing that is shown
rests on a client's good will.

* `Logger`, `ThreadPoolExecutor`: each thread goes on: the operating system schedules a runnable thread, mutexes are
  released, task bodies return, the 2 ms wait of the worker times out.
* `Future`: threads go on with the calls they are in, the foreground executor is pumped and workers take tasks. What is
  checked of it is safety and does not rest on this.
* `ResourceManager`: calls that have begun go on, and the stages of a load run, which is what
  `Future` and the executors give.
* `EngineRuntime`: the main thread goes on, a worker runs its tasks. While `Run` loops, `MainStep` includes the frames.
* `Renderer`: each device queue completes what it can, the presentation engine gives back images, and
  a call that can go on does.

Deadlock is checked where the system never stops (`log_queue`, `thread_pool`). In the other runs the bounds
end the calls, and in `logger` a fatal record really ends the process; a thread stuck in a call violates
the liveness properties or `NoLockCycle`.

## 4. What is proved

For every value of the constants:

| Theorem | States | Assumes |
|---|---|---|
| `TypeCorrect` | `Spec => []TypeOK` | the constants' assumption |
| `QueueInvariant` | `Spec => []QueueInv` | and `Capacity >= 2` |
| `RecordsNeverRace` | `Spec => []NoRecordRace` | and `Capacity >= 2` |
| `RetriesAlwaysProgress` | `Spec => []RetryMeansProgress` | and `Capacity >= 2` |
| `ImplementsFifoQueue` | `Spec => ImplementsFifo` | and `Capacity >= 2` |
| `LoggerTypeCorrect` | `Spec => []TypeOK` | and `ExclusiveShutdown` |
| `EveryRecordAccounted` | `Spec => []NoRecordLost` | and `ExclusiveShutdown` |
| `EachThreadWritesInOrder` | `Spec => []WrittenInOrder` | and `ExclusiveShutdown` |
| `FlushLeavesNothingReachable` | `Spec => FlushEmptiesQueue` | and `ExclusiveShutdown` |
| `EveryTaskAccounted` | `Spec => []TasksAccounted` | the constants' assumptions |
| `DrainIsComplete` | `Spec => DrainMeansDone` | the constants' assumptions |
| `ShutdownIsComplete` | `Spec => ShutdownDrains` | the constants' assumptions |
| `AgingPreventsOvertaking` | `Spec => OlderTaskNotOvertaken` | the constants' assumptions |
| `FutureInvariant` | `Spec => []FutureInv` | the constants' assumptions |
| `CallablesCalledOnce` | `Spec => []CalledOnceInOrder` | the constants' assumptions |
| `NoFutureForgotten` | `Spec => []NothingForgotten` | the constants' assumptions |
| `ReturnsAreLegal` | `Spec => []ReturnsLegal` | the constants' assumptions |
| `FuturesImplementPromises` | `Spec => ImplementsPromises` | the constants' assumptions |
| `FutureTypeCorrect` | `Spec => []TypeOK` | the constants' assumptions |
| `NoThreadsDeadlock` | `Spec => []NoLockCycle` | and `LoneUser` |
| `LoadsShareUnlessRaced` | `Spec => []SharedUnlessRaced` | the constants' assumption |
| `RuntimeTypeCorrect` | `Spec => []TypeOK` | the constants' assumptions |
| `CallbacksFindServices` | `Spec => []ServicesOutliveCallbacks` | the constants' assumptions |
| `StoppedMeansEmpty` | `Spec => []NothingLeftBehind` | the constants' assumptions |
| `CountsAlwaysMatch` | `Spec => []CountsMatchBindings` | the constants' assumptions |
| `RecordsAlwaysMatchRows` | `Spec => []RecordsMatchRows` | the constants' assumption |
| `FreeListStaysExact` | `Spec => []FreeListExact` | the constants' assumption |
| `SealedStaysWithinLimits` | `Spec => []SealedWithinLimits` | the constants' assumption |
| `QueriesVisitMatches` | `Spec => []ForEachVisitsMatches` | the constants' assumption |
| `ColumnsStayComplete` | `Spec => []ColumnsMatchMask` | and `RegisteredMasksOnly` |
| `ImplementsMapOfEntities` | `Spec => ImplementsEntityMap` | and `RegisteredMasksOnly` |
| `BlocksStayDisjoint` | `ArenaSpec => []BlocksDisjoint` | and `SizesInRange` |
| `PoolStaysExact` | `PoolSpec => []PoolExact` | the constants' assumption |
| `OrderIsSound` | `GraphSpec => []OrderFollowsDeclarations` | the constants' assumption |
| `CullingIsExact` | `GraphSpec => []CullsExactly` | the constants' assumption |
| `AccessesStaySynchronised` | `GraphSpec => []AccessesSynchronised` | the constants' assumption |
| `NothingIsLeft` | `GraphSpec => []ExecuteLeavesNothing` | the constants' assumption |
| `RendererTypeCorrect` | `Spec => []TypeOK` | the constants' assumptions |
| `ObjectsAreOrdered` | `Spec => []ObjectsOrdered` | the constants' assumptions |
| `SemaphoresAreBinary` | `Spec => []SemaphoresBinary` | the constants' assumptions |
| `NothingDestroyedInUse` | `Spec => []NoUseAfterDestroy` | and `~DestroyBetweenFrames` |
| `FramesAreAtRest` | `Spec => []FrameAtRest` | and `~DestroyBetweenFrames` |

`Capacity >= 2` is needed: section 5 has the counterexample for 1. That the capacity is a power of two
(`QueueAssumption`) is what `position & mask_` needs; the proofs use only that a cell is
the position modulo the capacity.

*The record queue.* `NoRecordRace` is not inductive: it does not say why a claim finds its
cell free. `QueueInv` adds it. The positions from `dequeue_pos` to `enqueue_pos - 1` are queued:
each one's cell has the sequence number `p` (claimed, not published) or `p + 1` (published, and
the cell holds what was pushed at `p`). Those from `enqueue_pos` to `dequeue_pos + Capacity - 1`
are free, or wait for a reader one lap behind. These are `Capacity` consecutive positions, hence on
different cells (`SameCell` and the lemmas around it), so every cell is spoken of exactly once. A thread
that has read a free or ready sequence number can act on it only by winning the counter,
and `PusherClaims` and `PopperClaims` say that what it read is still true if it does, however
old the value was. `PushersOwn` and `PoppersOwn` then give each thread its cell, and two owners have two positions
less than a lap apart. For the refinement, a claim by a pusher is `Put`, a claim by a popper is `Take`,
and every other step stutters; `PoppersOwn` shows that the copy returns the record of its position.

*The logger.* `LoggerInv` joins four facts to `TypeOK`. `Phases` says which threads can be where while the logger is down, up, stopping or
ended. From it follow that whoever writes has a sink, that the worker leaves only behind an empty queue, and
so that `Shutdown` destroys an empty one. `Hands` ties a thread's place to whether the record it holds is still a claim in the
queue. `RecordsInv` says where each record is, and that of any two accepted records the older leaves
the queue first. An action touches records in one of seven ways (`RecordStep`: a claim, its publication, a drop, a refusal, a pop, a
write, or nothing); each is shown to keep `RecordsInv` once, and each action to be one of them (`RecordSteps`). `ReadyPrefix` is about what
a flush saw when it began: the part of it still queued is published and at the head, so a flush that finds nothing to pop has left none of it.
`ExclusiveShutdown` is needed: with calls that overlap `Shutdown`, the claim is false (section 5).

*The pool of threads.* To `TasksAccounted`, `PoolInv` adds `HoldersRun` (a thread has a task while it runs one or has yet to account for it),
`TakenIdsUsed` (ids of tasks that were taken are below `next_task_id` and neither reserved nor queued, so no task is pushed
on them again) and `ExitedMeansDrained` (a worker exits only when shutting down with nothing queued, and nothing is queued after that).
`DrainMeansDone` and `ShutdownDrains` are read off the one step that ends the call. For `OlderTaskNotOvertaken`, the scan's
choice is shown to have the highest effective priority and, among equals, the first place in `queue_order`, which is the oldest; an older task that is due has at least
that priority, by a lemma on quotients. `SchedulerAssumption` has `MaxTaskId > 0`, as ids start at 1.

*Futures.* What will call future `x` back because of future `p` is a *token*: an `attach`, `arrive`, `submit`, `push` or `run` on
some agenda, a callback in some `on_ready`, or a place in a queue. `FutureInv` says that there is at most one of each (`OneToken`), that a callable
with a token was not called (`NotYetCalled`), and that whatever carries a token may stand where it does (`AgendasLegal`, `RegistrationsLegal`,
`QueuesLegal`): a task is submitted, queued or run only when the parent of its future is ready, a callback is registered only with a source that is not.
Tokens are made with the future, one for each source (`MadeRight`), and every later step leaves the set of them as it is (`AttachPending`, `Return`, `PushTask`
and `Take` move them), spends the one at the head of the agenda, or, for the executor's `Shutdown`, drops those it clears. `RunCalls` spends a token, so it calls
a callable that was not called, and `CalledOnceInOrder` follows.

For `NothingForgotten`, `CompletionInv` adds the other direction. A pending callable that was not dropped has its token, or its body or its result is on
an agenda (`WillComplete`), and for a combined future `remaining` is the number of its tokens, what has arrived is ready, and the first error is one of its sources'
(`Tallied`); so with all agendas empty the token is in a queue or in an `on_ready`. `OnReady` cannot miss `Return` because a step either registers with a pending source
or goes on at once, and `Return` takes all that was registered along.

For the refinement, `Return` is `Complete`, the making of a future is `Create`, every other step stutters. That the result is one the
abstract specification permits is decided when the return is posted, and `Return` may wait for a mutex after that: `ReturnsLegal` says it stays permitted, since
the results of sources do not change any more (`VerdictsKept`). For combined futures this needs `Tallied`. `LastReference`
may have either value in all of this: the deadlock of section 5 stops futures from being completed, not from being completed rightly.
`TypeOK` needs that a mutex kept between two steps is one the agenda unlocks (`MutexesUnlocked`).

`NoLockCycle` takes an account of who holds which future. A token keeps the future it calls back, what will complete a pending future
keeps it, and a combined future keeps its sources (`TokensHold`, `CompletersHold`, both read off `FutureInv` and `CompletionInv`); so
a step takes holders away only from what its own head kept, or from the parent of a continuation that gets its result (`KeptAfter`).
`LocksInv` says that a thread that is no user never holds a mutex between two steps, and a user at most one: whatever stands
before the matching unlock is *harmless*, a release that lets go of no last reference or one of a future without callbacks, or the call of the executor.
It therefore needs no mutex of anybody and goes on. `LoneUser` is one user, with `~LastReference`. Both are needed. With a second user, TLC finds
the deadlock of section 5 again (`MCFuture.cfg` with `Users <- BothThreads`, `Workers = {}` and `MaxInterventions = 2`): the first has begun to cancel a continuation
whose parent had a handle, the second drops that handle before the continuation releases the parent under its mutex.

*Loads.* `SharedUnlessRaced` compares any two live futures of a path, which says nothing about what the cache will answer next. Three
facts are inductive together: `TypeOK`; `NumbersAgree`, that a future has the number of a lookup that happened and the
path of the call that made it; and `OneFuture`, that for a path nobody raced for, at most one
call is between lookup and store, and every live future is the cached one, or the one that call has made. A lookup that
misses found the cached future dead, so no other is alive.

*The runtime.* `Phases` lists, for each place of the main thread, what exists there: window, executors, slots, view. The stop callback is armed
(`allow_stop`) exactly while the view is awake, which is why `Shutdown` stops a view it started and no other. The input counts have an invariant of their own
(`InputInv`), because no step but those of the input map changes them. A key event leaves every count as it is and makes the actions of the key
`remaining`, whose counts are compared with the pressed keys before the event (`CountedKeys`); each turn of the loop moves one action to the pressed keys
after it, by adding or taking away one key. For that the loop must not meet an action that is no longer bound to its key, nor
miss one that is: `LoopOK` says that what remains is bound to the key being delivered, and `LoopPlaced` that a key is being delivered only where the
loop or its callback runs. `CountsExact` alone is no invariant; with `disturbed` it is.

*The world.* `WorldInv` says that the registry has each type once (`RegistryOK`); that records are well formed, the
free list is exact and so is the count (`StoreOK`); that no two archetypes have the same mask (`OneTablePerMask`, why
the creation of an archetype looks up first); that records and rows point at each other (`Agree`); and that a sealed world is within its limits (`LimitsOK`).
`Agree` is what an operation breaks half-way: `AgreeBut` says that it holds but for one entity, which has no row. Removing a row by swapping the last one in makes
`AgreeBut` out of `Agree`, provided the record of the moved entity follows; placing a row makes `Agree` out of it again. Creation, roll-back, destruction and
migration are compositions of the two. For `ForEachVisitsMatches`, the row of an entity is a bijection between the
entities that match and the places visited, so no entity is visited twice. For the refinement, `ValuesInv` adds that every row has a value for each component of its mask; a step is then a
`Create`, `Destroy`, `Put` or `Drop` of `EntityMap`, or a stutter. An operation moves the rows of other entities, whose
values are shown to travel with them (`SameRows`). `RegisteredMasksOnly` is needed here: without it archetypes lack columns (section 5).

*The arena.* `ArenaInv` says that both cursors are in the buffer and ordered, the marker's too, and that no block reaches into the gap between
the cursors; then a block cut from the gap meets none of them. `SizesInRange` (in `ResourceProofs`) says that
the base, a size and an alignment added to an offset do not wrap the word. Without it the claim is false: a size close
to 2^64 makes the sum wrap, and `AllocateFront` succeeds. The lemmas `AlignDownSpec` and
`WrapsNot` say what aligning does with and without a wrap, `FrontPlacement` and `BackPlacement` where a block goes.

*The pool of slots.* `PoolExact` follows the links with a recursive function, about which the provers can show nothing by induction. `PoolInv`
says instead that there is a path, a function on `1 .. free_count`, that visits each free slot once and steps along the links (`FreeList`);
`Allocate` drops its first element and `Deallocate` puts one in front. That the recursive function is on that path follows from the principle that a set of
naturals that is not empty has a least element, applied to the places where they would differ. `CallsInProgress` says that the slots under construction or
destruction are those of the calls on the stack, each once, and `SweptAway` that `~PoolAllocator` leaves no object behind its cursor.

*The renderer.* None of the four properties is inductive: an operation in flight is judged by what a frame did that may be long over. Their
invariant is built in layers over `Types`.

`ObjectsInv`: while the context is made, the instance, the device and the allocator are there once their step has passed; while it is
torn down, what has been passed is gone; and in the order of destruction every object comes before its parents (`ParentsLater`). The lemmas
`CreationFacts` and `DestructionFacts` say where each object is in these orders, whatever the number of frames.

`SyncInv`: every operation in flight has one of five forms (`Legal`): the `n`-th submission of a frame, what closes a frame, an upload, what forwards to
the application's fence, a presentation. No two operations do the same (`OneOfEach`). For each kind of semaphore there is a
conjunct that says who will wait for it: the next submission or the closing of its frame (`Consumed`, `ClosingLast`), the submission or the closing that
takes the acquisition's (`AcquiresRun`), the presentation (`ImagesRun`), the operation that forwards (`UserFenceRuns`). `ChainRuns` says that the
submissions of a frame complete in turn. A fence of a frame that is signalled means that nothing of the frame is in flight
(`FenceMeansDone`), so `BeginFrame` may use its semaphores anew; no operation of the current frame is numbered higher than what it has submitted (`OpenFrame`). The steps are brought down to a few
kinds that keep `SyncInv`: the device completes an operation, the client submits the next of the frame, closes it, uploads, begins a frame, acquires,
or touches no queue (`CompleteKeepsSync` and the lemmas around it).

`HandlesOwned`: what the renderer and an upload keep and what is deferred are valid handles, each of them there once, so the destruction of what one frame
deferred leaves the rest valid (`InTurnSound`, by the least-number argument of the pool, as a list of handles is destroyed by a recursive function).
`HandlesUsed`: what an operation uses is kept, or deferred to a frame that is *guarded*: it is the current one, or an operation that closes it comes later in the queue.
As queues are in order, a frame whose fence is signalled guards nothing any more, so nothing in use is destroyed with it. This is where `~DestroyBetweenFrames` is needed: what
is deferred between `Present` and `BeginFrame` goes with the frame to come, and TLC finds the handle destroyed while the frame just presented uses it when
`DestroyBetweenFrames = TRUE`.

`ListsAtRest` and `Lockstep`: the renderer and the context each have a ring of `kFramesInFlight` slots and advance it at different places, the renderer when it has
submitted, the context when it has presented. The distance between `frame_slot` and the frame to be drawn next is the same number `c` since the renderer was initialised,
and each operation in flight has the slot `c` places from its frame. So the slot being written belongs to the current frame, whose list would be recorded if an operation in flight used it.

*The render graph.* What holds of the order is a matter of `Compile` alone: `OrderIsCurrent` says that the order of a graph that has not changed since is
`ExecutionOrder`. That is a field of the last of `Len(passes)` steps of a recursive function, as `Live` is. `LiveRun` and `OrderRun` say that these
functions exist and take the steps that are written (`RunExists`, again by the least number), so what the first step has and every step keeps, the last one has. A step of Kahn's algorithm keeps
`GoodRun`: nothing is done or queued twice, exactly the passes whose dependencies are done have been queued, and they were done earlier. As long as the queue is not empty
a step does one pass more, and there are no more than `Len(passes)`; when it is empty everything live is done, since a pass that comes first among those left would have
all its dependencies done, which point backwards (`DependenciesBefore`). Writers of one resource keep their order because each depends on the live writer before it (`WritersKeepOrder`). `Live` is
closed because each round adds a pass until one adds none (`LiveIsClosed`), and in every closed set that has the producers of what is visible (`LiveIsLeast`); where a resource has one writer,
that is its producer and the last to write before any reader. `OnlyLastUsage` and `BatchesAgree` are about `Execute`: what is unsynchronised is at most the last usage recorded, and the lists begun are those
submitted or in the open batch.

*Only model-checked:* liveness (`KeptIsWritten`, `AcceptedFinishes`, `CallsReturn`, `LoadsFinish`, `CloseEndsRun`, `WaitsEnd`), and `NoLockCycle` has
no theorem for several users, for whom it is false. Liveness under fairness and `ENABLED` are out of
the prover's reach; TLC covers them on the instances above. Every other property of the runs that pass is a theorem.

## 5. Where code and documents disagree

Two are runs of the project:

* **Last reference** (`future_last_reference`). `future_impl.h:112` says of `Cancel`: "Resolve future with cancellation status." It
  does not return when the future is a continuation whose pending parent nobody else holds: `Return` releases `parent_future_`
  under the child's mutex (`future_impl.cc:92`), the parent's destructor cancels the parent, whose callback
  schedules the child, and that locks the child's mutex again. Another thread that drops the parent's last handle in the meantime has the same effect.
* **Loads in flight** (`resource_in_flight`). `resource_manager.h:43` says "Concurrent requests for the same path share
  in-flight work." Two requests that both look up before either stores load the path twice, and the later store hides the earlier future.

The others can be seen with the configuration named here and, where it is that of a run, its properties replaced by the one
in the second column; `tlc -config <cfg> <module>` finds the counterexample.

| Configuration | Module, property | What happens |
|---|---|---|
| `LogQueueCapacityOne.cfg` | `MCLogQueue`, `WithinCapacity` | `logger.h:30` says "Maximum number of buffered log records." With one cell, `p + 1` means both "holds the record of `p`" and "free for `p + 1`", so a second push overwrites a record nobody has read. |
| `MCLogger.cfg` | `MCLogger`, `PROPERTY FlushMeansWritten` | `logger.h:98` says "Block until all queued records are written." `Flush` returns while the worker holds a record it has popped and not written. |
| `MCLogger.cfg`, `ExclusiveShutdown = FALSE` | `MCLogger`, `PROPERTY NoUseAfterReset` | `logger.h:53` says "Public methods are thread-safe." `Shutdown` destroys the queue (`logger.cc:295`) while another thread may be in `Submit` or `Flush`. |
| `WorldRawMask.cfg` | `MCWorld`, `ColumnsMatchMask` | `world.h:35` says the world keeps its stores consistent. `ReserveArchetype` of a mask with a bit whose type is registered later makes an archetype without that column (`archetype_store.h:240`). The `world` run excludes it (`RegisteredMasksOnly`). |
| `RuntimeStuckKey.cfg` | `MCEngineRuntime`, `PressedMeansDown` | `input_action_map.h:70` says "Return true when any bound key is currently pressed." The release of a key without bindings is not recorded (`input_action_map.cc:158`): an action bound to it later counts as pressed. |
| `MCEngineRuntime.cfg` | `MCEngineRuntime`, `INVARIANT CountsExact` | The same sentence. Two actions are bound to a key; during the `kStarted` of the first, the view unbinds anything from another key. `RebuildPressedState` (`input_action_map.cc:192-205`) counts the second action, and the loop (`input_action_map.cc:146-152`) then counts it again, without a `kStarted`: it stays pressed when the key is released. On a release (`167-181`) an action that another key still holds ends too early in the same way. The next `Unbind` outside such a loop recounts. |
| `MCRenderGraph.cfg` | `MCRenderGraph`, `INVARIANT OnlyUnusedCulled` | A test is named "...CullsUnusedPasses" (`render_graph_test.cc:175`). The producer of a resource is its last writer (`RenderGraph.cpp:134`), so where a resource is written twice a pass that is used may be culled. |
| `MCRenderer.cfg` | `MCRenderer`, `INVARIANT DrawsToAcquired` | `ADR-007` says the sample runs without synchronisation errors. When an acquisition fails or finds the surface out of date, `EndFrame` draws to the image that was current before (`Renderer.cpp:159`). |

Seen while reading, and outside what the models state:

* `FutureImpl::Cancel` stores a `Status` where continuations of a `Future<T>` read a `StatusOr<T>` (`future_impl.cc:102`).
* `thread_pool_executor.h:62` says of `HasPendingTasks`: "Return true when scheduler or workers still hold pending work."
  It looks at the scheduler only and says false while a worker runs a task.
* A priority set before `SetTaskContext` is overwritten with `kNormal`.
* `window_system.h:49` says `Shutdown` clears the queue; it does not.
* A key that is down when the runtime restarts stays pressed. `Unbind` of a pressed key emits no completed event.
* `ViewApplication::Initialize` while it runs detaches the running view (`view_application.cc:86-90`).
* A foreground task that always reschedules itself makes `Pump(true)`, and so the frame, endless.
* In a render graph, two writes with equal usage get no barrier between them; passes added after `Compile` are not executed.
* A failed load stays in the cache while somebody holds it.
* A default `StackAllocator::Marker` sets the back cursor to 0, and with it the capacity. A pool whose object's constructor throws keeps the slot without an object.
* A second render in one frame rewrites a slot and list that are pending. A submission that was dropped leaves its user fence as it was.

## 6. What is not modelled

* *Logging and jobs:* log formatting, colours and thread indices; `SetMinLevel` and `SetChannelEnabled` (any answer of
  the filter is allowed instead); the size of the pool; `GetTaskPriority` and `HasPendingTasks`, which change nothing; tasks
  that throw, which would end the process; the overflow of the age bonus (an `int`) and of the id counter; destruction of
  a pool that another thread is still using; tasks that pump or shut down the executor they run on.
* *Entities:* callbacks of `ForEach` that add, remove or destroy; references kept over a call that
  reallocates or moves rows; the arrays' capacities beyond `entity_limit`; the wrap of generations; `EntityHandle`, which forwards.
* *Futures and assets:* the C++ types of results; the priorities' values; groups, which make the same calls once per
  member; the text of asset paths; the wrap of the handle id at 2^32.
* *Runtime:* `Shutdown` from inside a callback, which destroys what `Tick` goes on to use; an `OnInputAction` that changes the bindings of the key
  being delivered, over which the loop iterates; a second view; timing of frames; GLFW.
* *Memory:* constructors that throw; allocation while `~PoolAllocator` runs.
* *Rendering:* descriptions of resources, formats, pipelines, shaders and materials; stages and layouts other than
  "read" and "write"; failure to create a transient resource; a swap chain whose image count changes on recreation (an index
  kept from a larger one is then past its end); the sets of descriptors per frame and per draw, which nobody uses; loss of the device.
* *Value types, platform, interfaces:* `common`, `config`, `pal`, the RHI's headers and factory. They have no
  behaviour over time; the models use what they do.
* Samples, tests, scripts and documents were read, not modelled.

`PROJECT.json` has the status of each component.

## 7. What could follow

In the order of their worth: tasks that pump their own executor; a frame that is rendered twice, and a renderer that is shut down between frames, which
`DestroyBetweenFrames = TRUE` already allows; the condition on several users under which `NoLockCycle` holds.

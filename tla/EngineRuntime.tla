--------------------------- MODULE EngineRuntime ---------------------------
(***************************************************************************)
(* EngineRuntime and the ViewApplication that drives a view with it        *)
(* (engine/core/runtime/engine_runtime.cc, engine/core/app/                *)
(* view_application.cc), over the window system, the input map and the two *)
(* executors.                                                              *)
(*                                                                         *)
(* The main thread runs everything; pc is where it is.  A callback of the  *)
(* view is a step of its own: while pc is at one, the view may ask for a   *)
(* stop, bind and unbind keys and schedule tasks before it returns, well   *)
(* or with an error.  The pool runs beside the main thread; its tasks      *)
(* queue tasks on the foreground executor.                                 *)
(***************************************************************************)
EXTENDS InputActionMap, WindowSystem

CONSTANTS
  MaxInitializations,   \* bound: calls of Initialize
  MaxTasks              \* bound: tasks scheduled on the pool in all.  Without it a frame
                        \* that pumps until the queue is empty need not end.

VARIABLES
  state,            \* state_
  pc,
  looping,          \* inside Run, rather than a Tick of the caller
  stop_requested,
  allow_stop,       \* allow_stop_callback_
  foreground,       \* foreground_executor_ exists
  background,       \* background_executor_ exists
  slots,            \* the executors registered for the main thread
  attached,         \* the view has its context
  pool_tasks, foreground_tasks,   \* how many tasks each executor has
  initializations, scheduled,     \* how many there have been, for the bounds
  awake             \* history: successful starts minus stops

runtimeVars == <<state, pc, looping, stop_requested, allow_stop, foreground, background, slots,
                 attached, pool_tasks, foreground_tasks, initializations, scheduled,
                 awake>>
vars == <<inputVars, windowVars, runtimeVars>>

ASSUME RuntimeAssumption ==
  /\ Keys \subseteq AllKeys /\ QueueCapacity \in Nat \ {0, 1}
  /\ MaxInitializations \in Nat /\ MaxTasks \in Nat

States == {"constructed", "initialized", "running", "stopping", "stopped"}
Executors == {"foreground", "background"}

\* Where the view's code runs.
Callbacks == {"start", "event", "action", "task", "update", "render", "stop"}
ShutdownSteps == {"shutdown", "stop", "close_window", "drain_pool", "drop_foreground",
                  "unregister"}

Init ==
  /\ InputInit /\ WindowInit
  /\ state = "constructed" /\ pc = "idle" /\ looping = FALSE
  /\ stop_requested = FALSE /\ allow_stop = FALSE
  /\ foreground = FALSE /\ background = FALSE /\ slots = {}
  /\ attached = FALSE
  /\ pool_tasks = 0 /\ foreground_tasks = 0
  /\ initializations = 0 /\ scheduled = 0 /\ awake = 0

Goto(label) == pc' = label

\* The variables that a step of the frame loop leaves alone.
frameVars == <<allow_stop, foreground, background, slots, attached, initializations, awake>>

-----------------------------------------------------------------------------
(* ViewApplication::Initialize.                                            *)

CanInitialize ==
  /\ pc = "idle" /\ initializations < MaxInitializations
  /\ initializations' = initializations + 1

\* The logger cannot start, or the view refuses the window configuration: the view is
\* detached again.
InitializeRefused ==
  /\ CanInitialize /\ state \in {"constructed", "stopped"}
  /\ attached' = FALSE
  /\ UNCHANGED <<inputVars, windowVars, state, pc, looping, stop_requested, allow_stop, foreground,
                 background, slots, pool_tasks, foreground_tasks, scheduled, awake>>

\* "Runtime already initialized": the view of the running application is detached too.
InitializeAgain ==
  /\ CanInitialize /\ state \notin {"constructed", "stopped"}
  /\ attached' = FALSE
  /\ UNCHANGED <<inputVars, windowVars, state, pc, looping, stop_requested, allow_stop, foreground,
                 background, slots, pool_tasks, foreground_tasks, scheduled, awake>>

\* Up to the initialisation of the backend.
Initialize ==
  /\ CanInitialize /\ state \in {"constructed", "stopped"}
  /\ attached' = TRUE
  /\ state' = "initialized" /\ allow_stop' = FALSE
  /\ foreground' = TRUE /\ background' = TRUE /\ slots' = Executors
  /\ pool_tasks' = 0 /\ foreground_tasks' = 0
  /\ CreateWindow
  /\ Goto("open_window")
  /\ UNCHANGED <<inputVars, looping, stop_requested, scheduled, awake>>

WindowOpens ==
  /\ pc = "open_window"
  /\ OpenWindow
  /\ stop_requested' = FALSE
  /\ Goto("start")
  /\ UNCHANGED <<inputVars, frameVars, state, looping, pool_tasks, foreground_tasks, scheduled>>

WindowFails ==
  /\ pc = "open_window"
  /\ Goto("shutdown")
  /\ UNCHANGED <<inputVars, windowVars, frameVars, state, looping, stop_requested, pool_tasks,
                 foreground_tasks, scheduled>>

\* Mutant: the stop callback is not armed.
StartedUnarmed ==
  /\ pc = "start"
  /\ state' = "running" /\ awake' = awake + 1
  /\ Goto("idle")
  /\ UNCHANGED <<inputVars, windowVars, looping, stop_requested, allow_stop, foreground,
                 background, slots, attached, pool_tasks, foreground_tasks, initializations,
                 scheduled>>

\* The view has awoken and started.
Started ==
  /\ pc = "start"
  /\ state' = "running" /\ allow_stop' = TRUE
  /\ awake' = awake + 1
  /\ Goto("idle")
  /\ UNCHANGED <<inputVars, windowVars, looping, stop_requested, foreground, background, slots,
                 attached, pool_tasks, foreground_tasks, initializations, scheduled>>

StartFails ==
  /\ pc = "start"
  /\ Goto("shutdown")
  /\ UNCHANGED <<inputVars, windowVars, frameVars, state, looping, stop_requested, pool_tasks,
                 foreground_tasks, scheduled>>

-----------------------------------------------------------------------------
(* What the view does inside a callback, and the application between them. *)

ViewRuns == pc \in Callbacks

RequestStop ==
  /\ ViewRuns \/ pc = "idle"
  /\ attached \/ pc = "idle"
  /\ stop_requested' = TRUE
  /\ state' = IF state = "running" THEN "stopping" ELSE state
  /\ UNCHANGED <<inputVars, windowVars, frameVars, pc, looping, pool_tasks, foreground_tasks,
                 scheduled>>

ChangeBindings ==
  /\ ViewRuns /\ attached
  /\ \E a \in Actions : UnbindAll(a) \/ \E k \in Keys : Bind(a, k) \/ Unbind(a, k)
  /\ UNCHANGED <<windowVars, runtimeVars>>

ScheduleBackground ==
  /\ ViewRuns /\ background /\ pc # "stop"
  /\ scheduled < MaxTasks /\ scheduled' = scheduled + 1
  /\ pool_tasks' = pool_tasks + 1
  /\ UNCHANGED <<inputVars, windowVars, frameVars, state, pc, looping, stop_requested,
                 foreground_tasks>>

\* A worker of the pool runs a task, which queues one on the foreground executor.
WorkerStep ==
  /\ background /\ pool_tasks > 0
  /\ pool_tasks' = pool_tasks - 1
  /\ foreground_tasks' = foreground_tasks + 1
  /\ UNCHANGED <<inputVars, windowVars, frameVars, state, pc, looping, stop_requested, scheduled>>

-----------------------------------------------------------------------------
(* Run and Tick.                                                           *)

\* A step of the loop that moves pc only.
Step(from, to) ==
  /\ pc = from /\ Goto(to)
  /\ UNCHANGED <<inputVars, windowVars, frameVars, state, looping, stop_requested, pool_tasks,
                 foreground_tasks, scheduled>>

\* A status other than ok, or RequestStop by the runtime itself, at the end of a tick.
StopAndGoto(from, to) ==
  /\ pc = from /\ Goto(to)
  /\ stop_requested' = TRUE
  /\ state' = IF state = "running" THEN "stopping" ELSE state
  /\ UNCHANGED <<inputVars, windowVars, frameVars, looping, pool_tasks, foreground_tasks,
                 scheduled>>

Run ==
  /\ pc = "idle" /\ state = "running"
  /\ looping' = TRUE /\ Goto("loop")
  /\ UNCHANGED <<inputVars, windowVars, frameVars, state, stop_requested, pool_tasks,
                 foreground_tasks, scheduled>>

\* A tick of the caller; after a stop was requested it is refused and changes nothing.
Tick == state = "running" /\ ~stop_requested /\ Step("idle", "poll")

LoopEnds == stop_requested /\ Step("loop", "shutdown")
LoopTicks == ~stop_requested /\ Step("loop", "poll")
AfterTick == IF looping THEN "loop" ELSE "idle"

\* PollEvents: any number of callbacks of the platform, then it returns.
BackendCallback ==
  /\ pc = "poll" /\ window = "open"
  /\ CloseCallback \/ OtherCallback \/ \E event \in KeyEvents : KeyCallback(event)
  /\ UNCHANGED <<inputVars, runtimeVars>>

PollReturns == Step("poll", "dispatch")

\* on_event: OnEvent of the view, then the input map, then the check for a close event.
DispatchEvent ==
  /\ pc = "dispatch" /\ events # <<>> /\ Goto("event")
  /\ UNCHANGED <<inputVars, windowVars, frameVars, state, looping, stop_requested, pool_tasks,
                 foreground_tasks, scheduled>>

HandleWindowEvent(event) ==
  CASE event.type = "up" /\ event.key \in Keys -> HandleKeyUp(event.key)
    [] event.type \in {"down", "repeat"} /\ event.key \in Keys ->
         HandleKeyDown(event.key, event.type = "repeat")
    [] OTHER -> UNCHANGED inputVars

\* OnEvent has returned.  A key that has actions goes through them; a repetition tells the view
\* of each of them, in one place here, as nothing happens in between.
EventHandled ==
  LET event == Head(events)
  IN  /\ pc = "event"
      /\ PopEvent
      /\ HandleWindowEvent(event)
      /\ Goto(IF event = CloseEvent THEN "dispatched"
              ELSE IF delivering' = {} THEN "dispatch"
              ELSE IF event.type = "repeat" /\ attached THEN "action" ELSE "key")
      /\ stop_requested' = (stop_requested \/ event = CloseEvent)
      /\ state' = IF event = CloseEvent /\ state = "running" THEN "stopping" ELSE state
      /\ UNCHANGED <<frameVars, looping, pool_tasks, foreground_tasks, scheduled>>

\* An action of the key is counted, and OnInputAction of the view called if that changed it.
\* The sink is there as long as the view is attached.
NextAction ==
  /\ pc = "key"
  /\ \E a \in remaining :
       /\ CountAction(a)
       /\ Goto(IF attached /\ Notifies(a) THEN "action" ELSE "key")
  /\ UNCHANGED <<windowVars, frameVars, state, looping, stop_requested, pool_tasks,
                 foreground_tasks, scheduled>>

ActionReturns == Step("action", "key")

KeyDelivered ==
  /\ pc = "key" /\ EndDelivery /\ Goto("dispatch")
  /\ UNCHANGED <<windowVars, frameVars, state, looping, stop_requested, pool_tasks,
                 foreground_tasks, scheduled>>

DispatchDone == events = <<>> /\ Step("dispatch", "dispatched")

\* Cancelled before the frame, or on to the foreground tasks.
TickCancelled == stop_requested /\ Step("dispatched", AfterTick)
StartPump == ~stop_requested /\ Step("dispatched", "pump")

PumpTask ==
  /\ pc = "pump" /\ foreground_tasks > 0
  /\ foreground_tasks' = foreground_tasks - 1
  /\ Goto("task")
  /\ UNCHANGED <<inputVars, windowVars, frameVars, state, looping, stop_requested, pool_tasks,
                 scheduled>>

\* pump_foreground_until_empty_ is one of the two.
TaskReturns == \E next \in {"pump", "update"} : Step("task", next)
PumpDone == foreground_tasks = 0 /\ Step("pump", "update")

Updated == Step("update", "render")
UpdateFails == StopAndGoto("update", AfterTick)
Rendered == Step("render", "present")
RenderFails == StopAndGoto("render", AfterTick)
PresentFails == StopAndGoto("present", AfterTick)
PresentCloses == should_close /\ StopAndGoto("present", AfterTick)
\* Mutant: a close request is only seen as an event.
PresentedRegardless == Step("present", AfterTick)
Presented == ~should_close /\ Step("present", AfterTick)

-----------------------------------------------------------------------------
(* Shutdown.                                                               *)

Shutdown ==
  /\ state \notin {"constructed", "stopped"}
  /\ Step("idle", "shutdown")

ShutdownStep(from, to) ==
  /\ pc = from /\ Goto(to)
  /\ UNCHANGED <<inputVars, looping, stop_requested, initializations, scheduled>>

ShutdownBegin ==
  /\ ShutdownStep("shutdown", IF allow_stop THEN "stop" ELSE "close_window")
  /\ state' = "stopping"
  /\ UNCHANGED <<windowVars, allow_stop, foreground, background, slots, attached, pool_tasks, foreground_tasks, awake>>

\* The stop callback: Shutdown of the view, which is then detached.
ViewStopped ==
  /\ ShutdownStep("stop", "close_window")
  /\ attached' = FALSE /\ awake' = awake - 1
  /\ UNCHANGED <<windowVars, state, allow_stop, foreground, background, slots, pool_tasks,
                 foreground_tasks>>

CloseWindow ==
  /\ ShutdownStep("close_window", "drain_pool")
  /\ DestroyWindow
  /\ UNCHANGED <<state, allow_stop, foreground, background, slots, attached, pool_tasks,
                 foreground_tasks, awake>>

\* Mutant: the pool is abandoned with what it has queued.
AbandonPool ==
  /\ ShutdownStep("drain_pool", "drop_foreground")
  /\ UNCHANGED <<windowVars, state, allow_stop, foreground, background, slots, attached, pool_tasks, foreground_tasks, awake>>

\* ThreadPoolExecutor::Shutdown joins the workers once they have emptied the queue.
DrainPool ==
  /\ pool_tasks = 0
  /\ ShutdownStep("drain_pool", "drop_foreground")
  /\ background' = FALSE
  /\ UNCHANGED <<windowVars, state, allow_stop, foreground, slots, attached, pool_tasks,
                 foreground_tasks, awake>>

\* The foreground executor is destroyed with the tasks queued on it.
DropForeground ==
  /\ ShutdownStep("drop_foreground", "unregister")
  /\ foreground' = FALSE /\ foreground_tasks' = 0
  /\ UNCHANGED <<windowVars, state, allow_stop, background, slots, attached, pool_tasks,
                 awake>>

\* The rest, and what ViewApplication adds after a failed start or in its own Shutdown.
ShutdownDone ==
  /\ pc = "unregister" /\ Goto("idle")
  /\ slots' = {} /\ stop_requested' = FALSE /\ allow_stop' = FALSE
  /\ state' = "stopped" /\ attached' = FALSE /\ looping' = FALSE
  /\ UNCHANGED <<inputVars, windowVars, foreground, background, pool_tasks, foreground_tasks,
                 initializations, scheduled, awake>>

-----------------------------------------------------------------------------
\* The main thread goes on.
MainStep ==
  \/ WindowOpens \/ WindowFails \/ Started \/ StartFails
  \/ LoopEnds \/ LoopTicks \/ PollReturns \/ DispatchEvent \/ EventHandled
  \/ NextAction \/ ActionReturns \/ KeyDelivered \/ DispatchDone
  \/ TickCancelled \/ StartPump \/ PumpTask \/ TaskReturns \/ PumpDone
  \/ Updated \/ UpdateFails \/ Rendered \/ RenderFails
  \/ PresentFails \/ PresentCloses \/ Presented
  \/ ShutdownBegin \/ ViewStopped \/ CloseWindow \/ DrainPool \/ DropForeground \/ ShutdownDone

\* What the owner of the application calls, and what the view does in its callbacks.
Calls ==
  \/ InitializeRefused \/ InitializeAgain \/ Initialize \/ Run \/ Tick \/ Shutdown
  \/ RequestStop \/ ChangeBindings \/ ScheduleBackground

Next == MainStep \/ Calls \/ BackendCallback \/ WorkerStep

\* Callbacks return and workers work; nobody needs to call anything.
Fairness == WF_vars(MainStep) /\ WF_vars(WorkerStep)

Spec == Init /\ [][Next]_vars /\ Fairness

-----------------------------------------------------------------------------
(* Properties.                                                             *)

\* The type invariant; a view that is awake is stopped before it can be woken again.
TypeOK ==
  /\ state \in States /\ slots \subseteq Executors
  /\ pc \in Callbacks \cup ShutdownSteps \cup
            {"idle", "open_window", "loop", "poll", "dispatch", "key", "dispatched", "pump", "present"}
  /\ window \in {"none", "created", "open"}
  /\ Len(events) <= QueueCapacity - 1
  /\ awake \in 0 .. 1
  /\ pool_tasks \in 0 .. MaxTasks /\ foreground_tasks \in 0 .. MaxTasks

\* Callbacks of a frame find the window open, both executors alive and registered and the
\* view started and not stopped; workers find the foreground executor they queue on.
ServicesOutliveCallbacks ==
  /\ pc \in {"poll", "event", "key", "action", "task", "update", "render", "present"} =>
       window = "open" /\ foreground /\ background /\ slots = Executors /\ awake = 1
  /\ pool_tasks > 0 => foreground

\* Whichever way a start, a frame or a shutdown ended, back in the caller's hands a runtime
\* that does not run has nothing left: no window, executor or slot, no task, no view that
\* was started and not stopped, and no attached view.
NothingLeftBehind ==
  pc = "idle" /\ state \in {"constructed", "stopped"} =>
    /\ window = "none" /\ ~foreground /\ ~background /\ slots = {}
    /\ pool_tasks = 0 /\ foreground_tasks = 0
    /\ awake = 0 /\ ~attached

\* A close request ends Run, even if its event found the queue full.
CloseEndsRun == (should_close /\ looping) ~> state = "stopped"

\* With every event delivered, an action is pressed only if the last word of a key bound to
\* it was not its release.
PressedMeansDown ==
  events = <<>> /\ delivering = {} /\ ~disturbed /\ initializations <= 1 =>
    \A a \in Actions : IsPressed(a) => keys_of[a] \cap down # {}
=============================================================================

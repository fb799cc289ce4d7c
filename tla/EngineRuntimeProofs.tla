------------------------ MODULE EngineRuntimeProofs ------------------------
(***************************************************************************)
(* The runtime leaves nothing behind, callbacks find its services, and the *)
(* input map counts right, for every set of actions and keys and every     *)
(* bound.                                                                  *)
(***************************************************************************)
EXTENDS EngineRuntime, Integers, FiniteSetTheorems, TLAPS

-----------------------------------------------------------------------------
(* The inductive invariants.                                               *)

InputTypes ==
  /\ keys_of \in [Actions -> SUBSET Keys]
  /\ actions_of \in [Keys -> SUBSET Actions]
  /\ pressed_keys \subseteq Keys /\ IsFiniteSet(pressed_keys)
  /\ pressed_count \in [Actions -> Nat] /\ disturbed \in BOOLEAN

\* The loop of HandleWindowEvent goes through actions of one key, which stay bound to it.
LoopOK ==
  /\ delivering = {} => remaining = {}
  /\ delivering # {} => \E k \in Keys : delivering = {k} /\ remaining \subseteq actions_of[k]

\* The main thread is inside that loop, or in a call of the sink from it.
LoopPlaced == delivering # {} => pc \in {"key", "action"}

InputInv == InputTypes /\ LoopOK /\ LoopPlaced /\ CountsMatchBindings

Events == KeyEvents \cup {CloseEvent, OtherEvent}

Types ==
  /\ TypeOK
  /\ events \in Seq(Events)
  /\ allow_stop \in BOOLEAN /\ foreground \in BOOLEAN /\ background \in BOOLEAN
  /\ attached \in BOOLEAN
  /\ scheduled \in 0 .. MaxTasks /\ pool_tasks + foreground_tasks <= scheduled

\* Where the main thread is inside a frame or on its way between two.
FrameSteps == {"loop", "poll", "dispatch", "event", "key", "action", "dispatched", "pump",
               "task", "update", "render", "present"}

ServicesUp == foreground /\ background /\ slots = Executors
Serving == window = "open" /\ ServicesUp /\ awake = 1 /\ allow_stop
NothingLeft ==
  /\ window = "none" /\ ~foreground /\ ~background /\ slots = {}
  /\ pool_tasks = 0 /\ foreground_tasks = 0 /\ awake = 0

\* What exists at each place of the main thread.  The stop callback is armed exactly while
\* the view is awake, up to the step that runs it.
Phases ==
  /\ pc = "idle" =>
       \/ state \in {"constructed", "stopped"} /\ NothingLeft /\ ~attached
       \/ state \in {"running", "stopping"} /\ Serving
  /\ pc = "open_window" =>
       window = "created" /\ ServicesUp /\ awake = 0 /\ ~allow_stop /\ state = "initialized"
  /\ pc = "start" =>
       window = "open" /\ ServicesUp /\ awake = 0 /\ ~allow_stop /\ state = "initialized"
  /\ pc \in FrameSteps => state \in {"running", "stopping"} /\ Serving
  /\ pc = "shutdown" => ServicesUp /\ awake = IF allow_stop THEN 1 ELSE 0
  /\ pc = "stop" => ServicesUp /\ awake = 1 /\ state = "stopping"
  /\ pc = "close_window" => ServicesUp /\ awake = 0
  /\ pc = "drain_pool" => window = "none" /\ ServicesUp /\ awake = 0
  /\ pc = "drop_foreground" =>
       window = "none" /\ foreground /\ ~background /\ pool_tasks = 0 /\ awake = 0
  /\ pc = "unregister" =>
       /\ window = "none" /\ ~foreground /\ ~background
       /\ pool_tasks = 0 /\ foreground_tasks = 0 /\ awake = 0

RuntimeInv == Types /\ Phases

-----------------------------------------------------------------------------
(* The input map.                                                          *)

\* What the steps of the map need and keep; where the main thread is is left to the steps.
MapInv == InputTypes /\ LoopOK /\ CountsMatchBindings

\* The keys that the count of an action is of.
KeysFor(a) == {k \in CountedKeys(a) : a \in actions_of[k]}

\* They are finitely many, and unless disturbed the count is their number.
LEMMA CountOfKeys ==
  ASSUME MapInv, NEW a \in Actions
  PROVE  /\ IsFiniteSet(KeysFor(a)) /\ Cardinality(KeysFor(a)) \in Nat
         /\ \A k \in KeysFor(a) : Cardinality(KeysFor(a)) > 0
         /\ ~disturbed => pressed_count[a] = Cardinality(KeysFor(a))
<1>1. IsFiniteSet(KeysFor(a))
  <2>1. IsFiniteSet(delivering)
    BY FS_EmptySet, FS_Singleton DEF MapInv, LoopOK
  <2>2. IsFiniteSet(pressed_keys \cup delivering)
    BY <2>1, FS_Union DEF MapInv, InputTypes
  <2>3. KeysFor(a) \subseteq pressed_keys \cup delivering
    BY DEF KeysFor, CountedKeys
  <2> QED BY <2>2, <2>3, FS_Subset
<1>2. Cardinality(KeysFor(a)) \in Nat
  BY <1>1, FS_CardinalityType
<1>3. ASSUME NEW k \in KeysFor(a) PROVE Cardinality(KeysFor(a)) > 0
  <2>1. Cardinality(KeysFor(a)) # 0
    BY <1>1, FS_EmptySet
  <2> QED BY <2>1, <1>2
<1>4. ~disturbed => pressed_count[a] = Cardinality(KeysFor(a))
  BY DEF MapInv, CountsMatchBindings, CountsExact, KeysFor
<1> QED BY <1>1, <1>2, <1>3, <1>4

\* Counts afresh are natural numbers.
LEMMA RebuiltTypes ==
  ASSUME IsFiniteSet(pressed_keys), NEW bindings
  PROVE  CountsFrom(bindings) \in [Actions -> Nat]
<1>1. ASSUME NEW a \in Actions
      PROVE  Cardinality({k \in pressed_keys : a \in bindings[k]}) \in Nat
  <2>1. {k \in pressed_keys : a \in bindings[k]} \subseteq pressed_keys
    OBVIOUS
  <2> QED BY <2>1, FS_Subset, FS_CardinalityType
<1> QED BY <1>1 DEF CountsFrom

\* Binding a key that is pressed makes it count for its new action, in a loop over another key too.
LEMMA BindCounts ==
  ASSUME MapInv, NEW a \in Actions, NEW k \in Keys, Bind(a, k)
  PROVE  MapInv'
<1> USE DEF MapInv, InputTypes
<1>1. a \notin actions_of[k] /\ k \notin delivering
  BY DEF Bind, CountsMatchBindings
<1>2. InputTypes'
  BY DEF Bind
<1>3. LoopOK'
  BY <1>1 DEF Bind, LoopOK
<1>4. \A b \in Actions, j \in Keys : j \in keys_of'[b] <=> b \in actions_of'[j]
  BY DEF Bind, CountsMatchBindings
<1>5. ASSUME ~disturbed, NEW b \in Actions PROVE pressed_count'[b] = Cardinality(KeysFor(b)')
  <2>0. CountedKeys(b)' = CountedKeys(b) /\ CountedKeys(b) \subseteq Keys
    BY DEF Bind, CountedKeys, LoopOK
  <2>1. k \in CountedKeys(b) <=> k \in pressed_keys
    BY <1>1 DEF CountedKeys
  <2>2. CASE b = a /\ k \in pressed_keys
    <3>1. KeysFor(b)' = KeysFor(b) \cup {k} /\ k \notin KeysFor(b)
      BY <1>1, <2>0, <2>1, <2>2 DEF Bind, KeysFor
    <3>2. Cardinality(KeysFor(b)') = Cardinality(KeysFor(b)) + 1
      BY <3>1, CountOfKeys, FS_AddElement
    <3>3. pressed_count'[b] = pressed_count[b] + 1
      BY <2>2 DEF Bind
    <3> QED BY <1>5, <3>2, <3>3, CountOfKeys
  <2>3. CASE ~(b = a /\ k \in pressed_keys)
    <3>1. KeysFor(b)' = KeysFor(b)
      BY <2>0, <2>1, <2>3 DEF Bind, KeysFor
    <3>2. pressed_count'[b] = pressed_count[b]
      BY <2>3 DEF Bind
    <3> QED BY <1>5, <3>1, <3>2, CountOfKeys
  <2> QED BY <2>2, <2>3
<1>6. disturbed' \/ CountsExact'
  BY <1>5 DEF Bind, CountsExact, KeysFor
<1> QED BY <1>2, <1>3, <1>4, <1>6 DEF CountsMatchBindings

\* Unbinding removes keys and action from each other and counts afresh, which is right unless
\* there are actions left to count.
LEMMA UnbindCounts ==
  ASSUME MapInv, NEW a \in Actions, NEW keys, UnbindKeys(a, keys)
  PROVE  MapInv'
<1> USE DEF MapInv, InputTypes, UnbindKeys
<1>1. InputTypes'
  <2>1. pressed_count' \in [Actions -> Nat]
    BY RebuiltTypes
  <2>2. keys_of' \in [Actions -> SUBSET Keys] /\ actions_of' \in [Keys -> SUBSET Actions]
    OBVIOUS
  <2> QED BY <2>1, <2>2
<1>2. LoopOK'
  BY DEF LoopOK
<1>3. \A b \in Actions, j \in Keys : j \in keys_of'[b] <=> b \in actions_of'[j]
  BY DEF CountsMatchBindings
<1>4. ASSUME remaining = {} PROVE CountsExact'
  <2>1. \A b : CountedKeys(b)' = pressed_keys
    BY <1>4 DEF CountedKeys
  <2> QED BY <2>1 DEF CountsExact, CountsFrom
<1> QED BY <1>1, <1>2, <1>3, <1>4 DEF CountsMatchBindings

\* A loop begins with a key that has just been recorded, or has not for a repetition, so that
\* the keys counted are the same as before.
LEMMA DeliveryBegins ==
  ASSUME MapInv, remaining = {}, NEW k \in Keys, NEW counted, Deliver(k, counted),
         \/ counted = {} /\ pressed_keys' = pressed_keys
         \/ counted = actions_of[k] /\ k \notin pressed_keys /\ pressed_keys' = pressed_keys \cup {k}
         \/ counted = actions_of[k] /\ k \in pressed_keys /\ pressed_keys' = pressed_keys \ {k}
  PROVE  MapInv'
<1> USE DEF MapInv, Deliver
<1>1. InputTypes'
  BY FS_AddElement, FS_RemoveElement DEF InputTypes
<1>2. LoopOK'
  BY DEF LoopOK
<1>3. ASSUME NEW a \in Actions PROVE KeysFor(a)' = KeysFor(a)
  <2>1. CountedKeys(a) = pressed_keys
    BY DEF CountedKeys
  <2>2. CASE a \in counted
    BY <2>1, <2>2 DEF KeysFor, CountedKeys
  <2>3. CASE a \notin counted
    <3>1. CountedKeys(a)' = pressed_keys'
      BY <2>3 DEF CountedKeys
    <3> QED BY <2>1, <2>3, <3>1 DEF KeysFor
  <2> QED BY <2>2, <2>3
<1>4. disturbed' \/ CountsExact'
  BY <1>3, CountOfKeys DEF CountsExact, KeysFor
<1> QED BY <1>1, <1>2, <1>4 DEF CountsMatchBindings

\* A turn of the loop counts the key for one action more, or for one less.
LEMMA TurnCounts ==
  ASSUME MapInv, NEW a \in remaining, CountAction(a)
  PROVE  MapInv'
<1> USE DEF MapInv, CountAction
<1>1. PICK k \in Keys : delivering = {k} /\ remaining \subseteq actions_of[k]
  BY DEF LoopOK
<1>2. a \in Actions
  BY <1>1 DEF InputTypes
<1>3. InputTypes'
  BY <1>2 DEF InputTypes
<1>4. LoopOK'
  BY <1>1 DEF LoopOK
<1>5. ASSUME ~disturbed, NEW b \in Actions PROVE pressed_count'[b] = Cardinality(KeysFor(b)')
  <2>1. CASE b # a
    <3>1. KeysFor(b)' = KeysFor(b) /\ pressed_count'[b] = pressed_count[b]
      BY <2>1 DEF KeysFor, CountedKeys, InputTypes
    <3> QED BY <1>5, <3>1, CountOfKeys
  <2>2. CASE b = a /\ k \in pressed_keys
    <3>1. KeysFor(a)' = KeysFor(a) \cup {k} /\ k \notin KeysFor(a)
      BY <1>1, <2>2 DEF KeysFor, CountedKeys
    <3>2. Cardinality(KeysFor(a)') = Cardinality(KeysFor(a)) + 1
      BY <1>2, <3>1, CountOfKeys, FS_AddElement
    <3>3. pressed_count'[a] = pressed_count[a] + 1
      BY <1>1, <1>2, <2>2 DEF InputTypes
    <3> QED BY <1>5, <2>2, <3>2, <3>3, CountOfKeys
  <2>3. CASE b = a /\ k \notin pressed_keys
    <3>1. KeysFor(a)' = KeysFor(a) \ {k} /\ k \in KeysFor(a)
      BY <1>1, <2>3 DEF KeysFor, CountedKeys
    <3>2. Cardinality(KeysFor(a)') = Cardinality(KeysFor(a)) - 1
      BY <1>2, <3>1, CountOfKeys, FS_RemoveElement
    <3>3. pressed_count[a] > 0
      BY <1>2, <1>5, <3>1, CountOfKeys
    <3>4. pressed_count'[a] = pressed_count[a] - 1
      BY <1>1, <1>2, <2>3, <3>3 DEF InputTypes
    <3> QED BY <1>2, <1>5, <2>3, <3>2, <3>4, CountOfKeys
  <2> QED BY <2>1, <2>2, <2>3
<1>6. disturbed' \/ CountsExact'
  BY <1>5 DEF CountsExact, KeysFor
<1> QED BY <1>3, <1>4, <1>6 DEF CountsMatchBindings

\* The end of the loop counts nothing.
LEMMA EndCounts == MapInv /\ EndDelivery => MapInv'
BY DEF MapInv, EndDelivery, InputTypes, LoopOK, CountsMatchBindings, CountsExact, CountedKeys

\* Neither does a step that leaves the map alone.
LEMMA MapUntouched == MapInv /\ UNCHANGED inputVars => MapInv'
BY DEF inputVars, MapInv, InputTypes, LoopOK, CountsMatchBindings, CountsExact, CountedKeys

\* Whatever a window event is, the map begins a loop over its key, or does nothing.
LEMMA WindowEventCounts ==
  ASSUME MapInv, delivering = {}, NEW event, HandleWindowEvent(event)
  PROVE  /\ MapInv'
         /\ event.type \notin {"up", "down", "repeat"} => delivering' = {}
<1>0. remaining = {}
  BY DEF MapInv, LoopOK
<1>1. CASE event.type = "up" /\ event.key \in Keys
  <2>1. HandleKeyUp(event.key)
    BY <1>1 DEF HandleWindowEvent
  <2> QED BY <1>0, <1>1, <2>1, MapUntouched, DeliveryBegins DEF HandleKeyUp
<1>2. CASE event.type \in {"down", "repeat"} /\ event.key \in Keys
  <2>1. HandleKeyDown(event.key, event.type = "repeat")
    BY <1>2 DEF HandleWindowEvent
  <2> QED BY <1>0, <1>2, <2>1, MapUntouched, DeliveryBegins DEF HandleKeyDown
<1>3. CASE ~(event.type = "up" /\ event.key \in Keys)
           /\ ~(event.type \in {"down", "repeat"} /\ event.key \in Keys)
  <2>1. UNCHANGED inputVars
    BY <1>3 DEF HandleWindowEvent
  <2> QED BY <2>1, MapUntouched DEF inputVars
<1> QED BY <1>1, <1>2, <1>3

\* Steps other than a change of bindings and those of the loop leave the input map alone, and
\* the main thread in the loop.
LEMMA InputUntouched ==
  ASSUME [Next]_vars, ~ChangeBindings, ~EventHandled, ~NextAction, ~KeyDelivered
  PROVE  /\ UNCHANGED inputVars
         /\ pc \in {"key", "action"} => pc' \in {"key", "action"}
BY DEF Next, MainStep, Calls, vars, runtimeVars, frameVars, InitializeRefused, InitializeAgain,
       Initialize, CanInitialize, WindowOpens, WindowFails, Started, StartFails, RequestStop,
       ScheduleBackground, WorkerStep, Step, Goto, StopAndGoto, Run, Tick, LoopEnds, LoopTicks,
       BackendCallback, PollReturns, DispatchEvent, ActionReturns, DispatchDone, TickCancelled,
       StartPump, PumpTask, TaskReturns, PumpDone, Updated, UpdateFails, Rendered, RenderFails,
       PresentFails, PresentCloses, Presented, Shutdown, ShutdownStep, ShutdownBegin,
       ViewStopped, CloseWindow, DrainPool, DropForeground, ShutdownDone

\* The counts match the bindings initially and after every step.
LEMMA InputInvStep == InputInv /\ [Next]_vars => InputInv'
<1> SUFFICES ASSUME InputInv, [Next]_vars PROVE InputInv'
  OBVIOUS
<1>0. MapInv /\ LoopPlaced /\ (InputInv' <=> MapInv' /\ LoopPlaced')
  BY DEF InputInv, MapInv
<1>1. CASE ChangeBindings
  <2>1. PICK a \in Actions : UnbindAll(a) \/ \E k \in Keys : Bind(a, k) \/ Unbind(a, k)
    BY <1>1 DEF ChangeBindings
  <2>2. MapInv'
    BY <1>0, <2>1, BindCounts, UnbindCounts DEF Unbind, UnbindAll
  <2>3. LoopPlaced'
    BY <1>0, <1>1, <2>1
    DEF LoopPlaced, ChangeBindings, runtimeVars, Bind, Unbind, UnbindAll, UnbindKeys
  <2> QED BY <1>0, <2>2, <2>3
<1>2. CASE EventHandled
  <2>1. delivering = {}
    BY <1>0, <1>2 DEF LoopPlaced, EventHandled
  <2>2. PICK event : event = Head(events)
    OBVIOUS
  <2>3. HandleWindowEvent(event)
    BY <1>2, <2>2 DEF EventHandled
  <2>4. MapInv' /\ (event.type \notin {"up", "down", "repeat"} => delivering' = {})
    BY <1>0, <2>1, <2>3, WindowEventCounts
  <2>5. event = CloseEvent => delivering' = {}
    BY <2>4 DEF CloseEvent
  <2>6. LoopPlaced'
    BY <1>2, <2>2, <2>5 DEF EventHandled, LoopPlaced, Goto
  <2> QED BY <1>0, <2>4, <2>6
<1>3. CASE NextAction
  <2>1. PICK a \in remaining : CountAction(a)
    BY <1>3 DEF NextAction
  <2>2. pc' \in {"key", "action"}
    BY <1>3 DEF NextAction, Goto
  <2> QED BY <1>0, <2>1, <2>2, TurnCounts DEF LoopPlaced
<1>4. CASE KeyDelivered
  BY <1>0, <1>4, EndCounts DEF KeyDelivered, EndDelivery, LoopPlaced
<1>5. CASE ~ChangeBindings /\ ~EventHandled /\ ~NextAction /\ ~KeyDelivered
  <2>1. UNCHANGED inputVars /\ (pc \in {"key", "action"} => pc' \in {"key", "action"})
    BY <1>5, InputUntouched
  <2> QED BY <1>0, <2>1, MapUntouched DEF inputVars, LoopPlaced
<1> QED BY <1>1, <1>2, <1>3, <1>4, <1>5

LEMMA InputInvInit == Init => InputInv
<1> SUFFICES ASSUME Init PROVE InputInv
  OBVIOUS
<1> USE DEF Init, InputInit
<1>1. InputTypes
  BY FS_EmptySet DEF InputTypes
<1>2. \A a \in Actions, k \in Keys : k \in keys_of[a] <=> a \in actions_of[k]
  OBVIOUS
<1>3. CountsExact
  <2>1. \A a \in Actions : {k \in CountedKeys(a) : a \in actions_of[k]} = {}
    BY DEF CountedKeys
  <2> QED BY <2>1, FS_EmptySet DEF CountsExact
<1>4. LoopOK /\ LoopPlaced
  BY DEF LoopOK, LoopPlaced
<1> QED BY <1>1, <1>2, <1>3, <1>4 DEF InputInv, CountsMatchBindings

-----------------------------------------------------------------------------
(* The runtime.                                                            *)

\* An event put into the queue, or refused, leaves a queue of events that fits the ring.
LEMMA EmitFits ==
  ASSUME RuntimeAssumption, NEW event \in Events, Emit(event),
         events \in Seq(Events), Len(events) <= QueueCapacity - 1
  PROVE  events' \in Seq(Events) /\ Len(events') <= QueueCapacity - 1
<1>1. CASE Len(events) < QueueCapacity - 1
  <2>1. events' = Append(events, event)
    BY <1>1 DEF Emit
  <2>2. Len(events') = Len(events) + 1 /\ events' \in Seq(Events)
    BY <2>1
  <2>3. QueueCapacity \in Nat /\ Len(events) \in Nat
    BY DEF RuntimeAssumption
  <2> QED BY <1>1, <2>2, <2>3
<1>2. CASE ~(Len(events) < QueueCapacity - 1)
  BY <1>2 DEF Emit
<1> QED BY <1>1, <1>2

\* A step that changes nothing but the input map and the history of the window keeps the
\* invariant.
LEMMA RuntimeInvKept ==
  ASSUME RuntimeInv, UNCHANGED <<runtimeVars, window, events>>
  PROVE  RuntimeInv'
BY DEF RuntimeInv, Types, TypeOK, Phases, FrameSteps, ServicesUp, Serving, NothingLeft,
       runtimeVars

LEMMA RuntimeInvInit == Init => RuntimeInv
<1> SUFFICES ASSUME Init PROVE RuntimeInv
  OBVIOUS
<1>1. Len(<<>>) = 0 /\ <<>> \in Seq(Events) /\ 0 <= QueueCapacity - 1
  BY RuntimeAssumption DEF RuntimeAssumption
<1>2. Types
  <2>1. TypeOK
    BY <1>1, RuntimeAssumption DEF Init, WindowInit, TypeOK, States, RuntimeAssumption
  <2>2. /\ allow_stop \in BOOLEAN /\ foreground \in BOOLEAN /\ background \in BOOLEAN
        /\ attached \in BOOLEAN
    BY DEF Init
  <2>3. events \in Seq(Events) /\ scheduled \in 0 .. MaxTasks
        /\ pool_tasks + foreground_tasks <= scheduled
    BY <1>1, RuntimeAssumption DEF Init, WindowInit, RuntimeAssumption
  <2> QED BY <2>1, <2>2, <2>3 DEF Types
<1>3. Phases
  BY DEF Init, WindowInit, Phases, NothingLeft, FrameSteps
<1> QED BY <1>2, <1>3 DEF RuntimeInv

\* Initialisation, as far as the first start of the view.
LEMMA InitializeKeeps ==
  ASSUME RuntimeInv,
         InitializeRefused \/ InitializeAgain \/ Initialize \/ WindowOpens \/ WindowFails
         \/ Started \/ StartFails
  PROVE  RuntimeInv'
<1> USE RuntimeAssumption
    DEF RuntimeInv, Types, TypeOK, Phases, States, Callbacks, ShutdownSteps, FrameSteps,
        ServicesUp, Serving, NothingLeft, RuntimeAssumption, Goto, frameVars, windowVars
<1>1. CASE InitializeRefused BY <1>1 DEF InitializeRefused, CanInitialize
<1>2. CASE InitializeAgain BY <1>2 DEF InitializeAgain, CanInitialize
<1>3. CASE Initialize
  <2>1. Len(<<>>) = 0 /\ <<>> \in Seq(Events) /\ 0 <= QueueCapacity - 1
    OBVIOUS
  <2>2. Types'
    BY <1>3, <2>1 DEF Initialize, CanInitialize, CreateWindow
  <2>3. Phases'
    BY <1>3, <2>1 DEF Initialize, CanInitialize, CreateWindow
  <2> QED BY <2>2, <2>3
<1>4. CASE WindowOpens BY <1>4 DEF WindowOpens, OpenWindow
<1>5. CASE WindowFails BY <1>5 DEF WindowFails
<1>6. CASE Started BY <1>6 DEF Started
<1>7. CASE StartFails BY <1>7 DEF StartFails
<1> QED BY <1>1, <1>2, <1>3, <1>4, <1>5, <1>6, <1>7

\* What the view does in its callbacks, and the workers meanwhile.
LEMMA CallsKeep ==
  ASSUME RuntimeInv,
         RequestStop \/ ChangeBindings \/ ScheduleBackground \/ WorkerStep \/ Run \/ Tick
         \/ Shutdown
  PROVE  RuntimeInv'
<1>2. CASE ChangeBindings
  BY <1>2, RuntimeInvKept DEF ChangeBindings, windowVars
<1> USE RuntimeAssumption
    DEF RuntimeInv, Types, TypeOK, Phases, States, Callbacks, ShutdownSteps, FrameSteps,
        ServicesUp, Serving, NothingLeft, RuntimeAssumption, Goto, frameVars, windowVars
<1>1. CASE RequestStop BY <1>1 DEF RequestStop, ViewRuns
<1>3. CASE ScheduleBackground BY <1>3 DEF ScheduleBackground, ViewRuns
<1>4. CASE WorkerStep BY <1>4 DEF WorkerStep
<1>5. CASE Run BY <1>5 DEF Run
<1>6. CASE Tick BY <1>6 DEF Tick, Step
<1>7. CASE Shutdown BY <1>7 DEF Shutdown, Step
<1> QED BY <1>1, <1>2, <1>3, <1>4, <1>5, <1>6, <1>7

\* A step of the frame loop that moves the main thread, or asks for a stop as well.
LEMMA FrameMovesKeep ==
  ASSUME RuntimeInv, NEW from \in FrameSteps \ {"event"},
         NEW to \in FrameSteps \cup {"idle", "shutdown"},
         Step(from, to) \/ StopAndGoto(from, to)
  PROVE  RuntimeInv'
<1> USE DEF RuntimeInv, Types, TypeOK, Phases, States, Callbacks, ShutdownSteps, FrameSteps,
        ServicesUp, Serving, NothingLeft, Goto, frameVars, windowVars
<1>1. CASE Step(from, to) BY <1>1 DEF Step
<1>2. CASE StopAndGoto(from, to) BY <1>2 DEF StopAndGoto
<1> QED BY <1>1, <1>2

\* The frame loop.
LEMMA FrameKeeps ==
  ASSUME RuntimeInv,
         \/ LoopEnds \/ LoopTicks \/ PollReturns \/ DispatchEvent \/ EventHandled
         \/ NextAction \/ ActionReturns \/ KeyDelivered \/ DispatchDone
         \/ TickCancelled \/ StartPump \/ PumpTask \/ TaskReturns \/ PumpDone
         \/ Updated \/ UpdateFails \/ Rendered \/ RenderFails
         \/ PresentFails \/ PresentCloses \/ Presented
         \/ BackendCallback
  PROVE  RuntimeInv'
<1>1. CASE \/ LoopEnds \/ LoopTicks \/ PollReturns \/ ActionReturns \/ DispatchDone \/ TickCancelled \/ StartPump
           \/ TaskReturns \/ PumpDone \/ Updated \/ UpdateFails \/ Rendered \/ RenderFails
           \/ PresentFails \/ PresentCloses \/ Presented
  BY <1>1, FrameMovesKeep DEF FrameSteps, AfterTick, LoopEnds, LoopTicks, PollReturns,
     ActionReturns, DispatchDone, TickCancelled, StartPump, TaskReturns, PumpDone, Updated, UpdateFails,
     Rendered, RenderFails, PresentFails, PresentCloses, Presented
<1>2. CASE BackendCallback
  <2>1. PICK event \in Events : Emit(event) /\ UNCHANGED window
    BY <1>2 DEF BackendCallback, CloseCallback, OtherCallback, KeyCallback, Events
  <2>2. events' \in Seq(Events) /\ Len(events') <= QueueCapacity - 1
    BY <2>1, EmitFits, RuntimeAssumption DEF RuntimeInv, Types, TypeOK
  <2> QED
    BY <1>2, <2>1, <2>2
    DEF BackendCallback, RuntimeInv, Types, TypeOK, Phases, FrameSteps, ServicesUp, Serving,
        NothingLeft, runtimeVars
<1> USE RuntimeAssumption
    DEF RuntimeInv, Types, TypeOK, Phases, States, Callbacks, ShutdownSteps, FrameSteps,
        ServicesUp, Serving, NothingLeft, RuntimeAssumption, Goto, frameVars, windowVars
<1>3. CASE DispatchEvent BY <1>3 DEF DispatchEvent
<1>4. CASE PumpTask BY <1>4 DEF PumpTask
<1>5. CASE EventHandled
  <2>1. events # <<>> /\ events' = Tail(events) /\ UNCHANGED window
    BY <1>5 DEF EventHandled, PopEvent
  <2>2. events' \in Seq(Events) /\ Len(events') <= QueueCapacity - 1
    BY <2>1
  <2> QED BY <1>5, <2>1, <2>2 DEF EventHandled
<1>6. CASE NextAction BY <1>6 DEF NextAction
<1>7. CASE KeyDelivered BY <1>7 DEF KeyDelivered
<1> QED BY <1>1, <1>2, <1>3, <1>4, <1>5, <1>6, <1>7

\* Shutdown, whether it follows a run, a failed start or a call of the owner.
LEMMA ShutdownKeeps ==
  ASSUME RuntimeInv,
         ShutdownBegin \/ ViewStopped \/ CloseWindow \/ DrainPool \/ DropForeground \/ ShutdownDone
  PROVE  RuntimeInv'
<1> USE RuntimeAssumption
    DEF RuntimeInv, Types, TypeOK, Phases, States, Callbacks, ShutdownSteps, FrameSteps,
        ServicesUp, Serving, NothingLeft, RuntimeAssumption, Goto, frameVars, windowVars,
        ShutdownStep
<1>1. CASE ShutdownBegin
  <2>1. CASE allow_stop BY <1>1, <2>1 DEF ShutdownBegin
  <2>2. CASE ~allow_stop BY <1>1, <2>2 DEF ShutdownBegin
  <2> QED BY <2>1, <2>2
<1>2. CASE ViewStopped
  <2>1. awake = 1 /\ awake' = 0 BY <1>2 DEF ViewStopped
  <2>2. TypeOK' BY <1>2, <2>1 DEF ViewStopped
  <2>3. Types' BY <1>2, <2>2 DEF ViewStopped
  <2>4. Phases' BY <1>2 DEF ViewStopped
  <2> QED BY <2>3, <2>4
<1>3. CASE CloseWindow
  <2>1. Len(<<>>) = 0 /\ <<>> \in Seq(Events)
    OBVIOUS
  <2> QED BY <1>3, <2>1 DEF CloseWindow, DestroyWindow
<1>4. CASE DrainPool BY <1>4 DEF DrainPool
<1>5. CASE DropForeground
  <2>1. TypeOK' BY <1>5 DEF DropForeground
  <2>2. pool_tasks' + foreground_tasks' <= scheduled' BY <1>5 DEF DropForeground
  <2>3. Types' BY <1>5, <2>1, <2>2 DEF DropForeground
  <2>4. Phases' BY <1>5 DEF DropForeground
  <2> QED BY <2>3, <2>4
<1>6. CASE ShutdownDone BY <1>6 DEF ShutdownDone
<1> QED BY <1>1, <1>2, <1>3, <1>4, <1>5, <1>6

LEMMA RuntimeInvStep == RuntimeInv /\ [Next]_vars => RuntimeInv'
<1> SUFFICES ASSUME RuntimeInv, [Next]_vars PROVE RuntimeInv'
  OBVIOUS
<1>1. CASE UNCHANGED vars
  BY <1>1, RuntimeInvKept DEF vars, windowVars
<1> QED
  BY <1>1, InitializeKeeps, CallsKeep, FrameKeeps, ShutdownKeeps DEF Next, MainStep, Calls

-----------------------------------------------------------------------------
(* The theorems.                                                           *)

LEMMA RuntimeInvariant == Spec => []RuntimeInv
BY RuntimeInvInit, RuntimeInvStep, PTL DEF Spec

\* The state of the runtime, the executors' loads and the length of the event queue stay in
\* range; in particular a view is never started twice without a stop between.
THEOREM RuntimeTypeCorrect == Spec => []TypeOK
<1>1. RuntimeInv => TypeOK
  BY DEF RuntimeInv, Types
<1> QED BY <1>1, RuntimeInvariant, PTL

\* Callbacks of a frame find the window, both executors and a started view; workers find the
\* executor they queue on.
THEOREM CallbacksFindServices == Spec => []ServicesOutliveCallbacks
<1>1. RuntimeInv => ServicesOutliveCallbacks
  <2> SUFFICES ASSUME RuntimeInv PROVE ServicesOutliveCallbacks
    OBVIOUS
  <2>1. pc \in {"poll", "event", "key", "action", "task", "update", "render", "present"} =>
          window = "open" /\ foreground /\ background /\ slots = Executors /\ awake = 1
    BY DEF RuntimeInv, Phases, FrameSteps, Serving, ServicesUp
  <2>2. pool_tasks > 0 => foreground
    BY DEF RuntimeInv, Types, TypeOK, Phases, FrameSteps, Serving, ServicesUp, NothingLeft,
           Callbacks, ShutdownSteps
  <2> QED BY <2>1, <2>2 DEF ServicesOutliveCallbacks
<1> QED BY <1>1, RuntimeInvariant, PTL

\* However a start, a frame or a shutdown ended, nothing of it is left when the caller has
\* control again.
THEOREM StoppedMeansEmpty == Spec => []NothingLeftBehind
<1>1. RuntimeInv => NothingLeftBehind
  BY DEF RuntimeInv, Phases, NothingLeft, NothingLeftBehind
<1> QED BY <1>1, RuntimeInvariant, PTL

\* The counts of pressed keys are right, in whatever order keys are bound, unbound, pressed
\* and released, by callbacks from inside the loop over the actions of a key too; only Unbind
\* from there, with actions left to count, puts them off until the next that is not.
THEOREM CountsAlwaysMatch == Spec => []CountsMatchBindings
<1>1. InputInv => CountsMatchBindings
  BY DEF InputInv
<1> QED BY <1>1, InputInvInit, InputInvStep, PTL DEF Spec
=============================================================================

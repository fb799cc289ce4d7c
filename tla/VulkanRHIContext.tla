-------------------------- MODULE VulkanRHIContext --------------------------
(***************************************************************************)
(* VulkanRHIContext (engine/rhi/vulkan/src/VulkanRHIContext.cpp): the ring *)
(* of frames in flight, the submissions of a frame chained by semaphores,  *)
(* deferred destruction, uploads that wait, initialisation and shutdown.   *)
(*                                                                         *)
(* One slot map stands for the eight maps of the code.  The flags of the   *)
(* frames are kept for the current frame only: BeginFrame resets them      *)
(* before they are read again.  Graphics and compute are different queue   *)
(* families, the case with less order.                                     *)
(***************************************************************************)
EXTENDS VulkanSwapChain, VulkanInit

CONSTANT kMaxSubmittedCommandLists   \* submission semaphores of a frame, 64 in the code

ASSUME SubmissionAssumption == kMaxSubmittedCommandLists \in Nat \ {0}

VARIABLES
  pc,             \* where the client's thread is, see TypeOK
  resume,         \* where it continues after a wait inside a call
  current_frame,  \* current_frame
  frame,          \* the flags of frames[current_frame]
  deferred,       \* deferred[f]: the handles in the deferred_* lists of frame f
  slots,          \* the slot map
  staging,        \* the staging buffer of the upload that is waited for
  lists           \* lists[f][q]: "initial", "recording" or "executable"

contextVars == <<pc, resume, current_frame, frame, deferred, slots, staging, lists>>
initVars == <<objects, step>>

ListQueues == {"graphics", "compute"}

NoFlags == [acquired |-> FALSE, consumed |-> FALSE, count |-> 0, last |-> 0]
InitialLists == [q \in ListQueues |-> "initial"]
FrameFence(f) == <<"frame", f>>
UploadFence == <<"upload">>
UserFence == <<"user">>

Submission(n) == <<"submission", current_frame, n>>
UserFenceSemaphore == <<"user_fence", current_frame>>

\* A context that is not initialised, with the device as VulkanInit leaves it.
Fresh ==
  /\ resume' = "idle" /\ current_frame' = 0 /\ frame' = NoFlags
  /\ deferred' = [f \in Frames |-> <<>>] /\ slots' = EmptyMap /\ staging' = NullHandle
  /\ lists' = [f \in Frames |-> InitialLists]

ContextInit ==
  /\ DeviceInit /\ SwapChainInit /\ InitObjects
  /\ pc = "off" /\ resume = "idle" /\ current_frame = 0 /\ frame = NoFlags
  /\ deferred = [f \in Frames |-> <<>>] /\ slots = EmptyMap /\ staging = NullHandle
  /\ lists = [f \in Frames |-> InitialLists]

HasSwapChain == <<"swapchain">> \in objects

\* Begin, or Begin and End, of the list of the current frame for a queue.
ListBecomes(queue, state) == lists' = [lists EXCEPT ![current_frame][queue] = state]

\* The Create functions take a slot; without one they fail.
CanCreateResource == NextHandle(slots) # NullHandle
CreateResource == slots' = Allocate(slots)

-----------------------------------------------------------------------------
(* Initialize and Shutdown.                                                *)

Initialize == pc = "off" /\ pc' = "create" /\ step' = 1 /\ Fresh
  /\ UNCHANGED <<objects, deviceVars, swapChainVars>>

InitializeDevice ==
  /\ pc = "create"
  /\ CreateObject \/ SkipObject
  /\ UNCHANGED <<contextVars, deviceVars, swapChainVars>>

\* A creation fails, or after all of them that of the swap chain.
InitializeFails ==
  /\ pc = "create"
  /\ step > Len(CreationOrder) => <<"surface">> \in objects
  /\ pc' = "teardown" /\ step' = 1
  /\ UNCHANGED <<objects, resume, current_frame, frame, deferred, slots, staging, lists,
                 deviceVars, swapChainVars>>

\* The frame fences are created signalled.  So is the application's own fence.
Initialized ==
  /\ pc = "create" /\ step > Len(CreationOrder)
  /\ objects' = objects \cup (IF <<"surface">> \in objects THEN {<<"swapchain">>} ELSE {})
  /\ fences' = {FrameFence(f) : f \in Frames} \cup {UserFence}
  /\ pc' = "idle" /\ step' = 1
  /\ UNCHANGED <<resume, current_frame, frame, deferred, slots, staging, lists,
                 pending, signalled, swapChainVars>>

\* Shutdown, called at pc = "shutdown", waits for the device, then destroys everything.
ShutdownIdle ==
  /\ pc = "shutdown" /\ DeviceIdle
  /\ slots' = DestroyAll(slots)
  /\ DestroySwapChainResources
  /\ pc' = "teardown" /\ step' = 1
  /\ UNCHANGED <<resume, current_frame, frame, deferred, staging, lists, objects, deviceVars>>

Teardown ==
  /\ pc = "teardown" /\ DestroyObject
  /\ UNCHANGED <<contextVars, deviceVars, swapChainVars>>

\* state_ is deleted.
TornDown ==
  /\ pc = "teardown" /\ step > Len(DestructionOrder)
  /\ pc' = "off" /\ step' = 1 /\ Fresh
  /\ pending' = [q \in DeviceQueues |-> <<>>] /\ signalled' = {} /\ fences' = {}
  /\ UNCHANGED <<objects, swapChainVars>>

-----------------------------------------------------------------------------
(* Frames.                                                                 *)

BeginFrame ==
  /\ pc = "idle" /\ pc' = "wait"
  /\ UNCHANGED <<resume, current_frame, frame, deferred, slots, staging, lists, initVars,
                 deviceVars, swapChainVars>>

\* vkWaitForFences returns.
FrameFenceSignalled == FrameFence(current_frame) \in fences

\* Mutant: what another frame deferred is destroyed as well.
ProcessAllDeferred ==
  /\ slots' = DestroyInTurn(slots, FlattenSeq([n \in 1 .. kFramesInFlight |-> deferred[n - 1]]))
  /\ deferred' = [f \in Frames |-> <<>>]

ProcessDeferredDestroy ==
  /\ slots' = DestroyInTurn(slots, deferred[current_frame])
  /\ deferred' = [deferred EXCEPT ![current_frame] = <<>>]

\* The rest of BeginFrame up to the acquisition: the pools of the frame are reset, and with
\* them its command lists.
ReuseFrame ==
  /\ pc = "wait" /\ FrameFenceSignalled
  /\ fences' = fences \ {FrameFence(current_frame)}
  /\ ProcessDeferredDestroy
  /\ lists' = [lists EXCEPT ![current_frame] = InitialLists]
  /\ frame' = NoFlags
  /\ pc' = IF HasSwapChain THEN "acquire" ELSE "frame"
  /\ UNCHANGED <<resume, current_frame, staging, initVars, pending, signalled, swapChainVars>>

Acquire(image) ==
  /\ pc = "acquire" /\ AcquireNextImage(current_frame, image)
  /\ frame' = [frame EXCEPT !.acquired = TRUE]
  /\ pc' = "frame"
  /\ UNCHANGED <<resume, current_frame, deferred, slots, staging, lists, initVars>>

\* Another error than an outdated surface: no image in this frame.
AcquireFails ==
  /\ pc = "acquire" /\ pc' = "frame"
  /\ UNCHANGED <<resume, current_frame, frame, deferred, slots, staging, lists, initVars,
                 deviceVars, swapChainVars>>

\* VK_ERROR_OUT_OF_DATE_KHR: the swap chain is recreated, and there is no image in this frame.
AcquireOutOfDate ==
  /\ pc = "acquire" /\ pc' = "recreate" /\ resume' = "frame"
  /\ UNCHANGED <<current_frame, frame, deferred, slots, staging, lists, initVars,
                 deviceVars, swapChainVars>>

\* Resize and SetVSync, called between frames.
Resize ==
  /\ pc = "idle" /\ HasSwapChain
  /\ pc' = "recreate" /\ resume' = "idle"
  /\ UNCHANGED <<current_frame, frame, deferred, slots, staging, lists, initVars,
                 deviceVars, swapChainVars>>

Recreate ==
  /\ pc = "recreate" /\ DeviceIdle
  /\ CreateSwapChain
  /\ pc' = resume /\ resume' = "idle"
  /\ UNCHANGED <<current_frame, frame, deferred, slots, staging, lists, initVars>>

RecreateFails ==
  /\ pc = "recreate" /\ DeviceIdle
  /\ CreateSwapChainFails
  /\ pc' = resume /\ resume' = "idle"
  /\ UNCHANGED <<current_frame, frame, deferred, slots, staging, lists, initVars>>

\* Mutant: the submissions of a frame are not chained.
Unchained == {}
ChainWait == IF frame.last = 0 THEN {} ELSE {Submission(frame.last)}

\* The first graphics list, or else Present, waits for the image.
ImageWait == IF frame.acquired /\ ~frame.consumed THEN {ImageAvailable(current_frame)} ELSE {}

\* SubmitCommandLists with one list; dropped without a word if no semaphore is left.
SubmitList(queue, uses, signals, after) ==
  IF frame.count >= kMaxSubmittedCommandLists THEN UNCHANGED <<frame, pending>>
  ELSE LET n == frame.count + 1
           image == IF queue = "graphics" THEN ImageWait ELSE {}
           operation == Operation(ChainWait \cup image, {Submission(n)} \cup signals, NoFence,
                                  [uses EXCEPT !.list = <<current_frame, queue>>])
       IN  /\ pending' = [pending EXCEPT ![queue] = Append(@, operation) \o after]
           /\ frame' = [frame EXCEPT !.count = n, !.last = n,
                                     !.consumed = @ \/ image # {}]

\* An application's own list on the compute queue, recorded and submitted in one go.
SubmitCompute ==
  /\ pc = "frame" /\ lists[current_frame]["compute"] = "initial"
  /\ ListBecomes("compute", "executable")
  /\ SubmitList("compute", Nothing, {}, <<>>)
  /\ UNCHANGED <<pc, resume, current_frame, deferred, slots, staging, initVars, signalled,
                 fences, swapChainVars>>

\* The same with a fence the client has waited for since it used it last: a further
\* submission forwards the semaphore to it.
SubmitComputeWithFence ==
  /\ pc = "frame" /\ lists[current_frame]["compute"] = "initial"
  /\ UserFence \in fences
  /\ ListBecomes("compute", "executable")
  /\ SubmitList("compute", Nothing, {UserFenceSemaphore},
                <<Operation({UserFenceSemaphore}, {}, UserFence, Nothing)>>)
  /\ fences' = IF frame.count >= kMaxSubmittedCommandLists THEN fences ELSE fences \ {UserFence}
  /\ UNCHANGED <<pc, resume, current_frame, deferred, slots, staging, initVars, signalled,
                 swapChainVars>>

\* Mutant: a frame in which nothing was submitted does not signal its fence.
PresentFenceIfWorked == IF frame.count = 0 THEN NoFence ELSE FrameFence(current_frame)
PresentFence == FrameFence(current_frame)

\* EndFrame does nothing.  Present closes the frame by a submission without commands, which
\* the fence of the frame and the presentation wait for.
Present ==
  /\ pc = "frame" /\ pc' = "idle"
  /\ LET waits == ChainWait \cup ImageWait
         closing == Operation(waits, IF frame.acquired THEN {CurrentRenderFinished(current_frame)}
                                     ELSE {}, PresentFence, Nothing)
     IN  pending' = [pending EXCEPT !["graphics"] = Append(@, closing),
                       !["present"] = IF frame.acquired THEN Append(@, PresentImage(current_frame))
                                      ELSE @]
  /\ frame' = NoFlags
  /\ current_frame' = (current_frame + 1) % kFramesInFlight
  /\ UNCHANGED <<resume, deferred, slots, staging, lists, initVars, signalled, fences,
                 swapChainVars>>

-----------------------------------------------------------------------------
(* Resources.                                                              *)

\* Destroy: with the next fence of this frame.  A null handle is ignored.
Defer(handle) ==
  IF handle = NullHandle THEN deferred
  ELSE [deferred EXCEPT ![current_frame] = Append(@, handle)]

\* ExecuteImmediate submits and then waits for its own fence.
ExecuteImmediate(handle) ==
  pending' = [pending EXCEPT !["graphics"] =
    Append(@, Operation({}, {}, UploadFence, [Nothing EXCEPT !.handles = {handle}]))]

\* UpdateBuffer and UpdateTexture of device memory copy a staging buffer.
Upload ==
  /\ pc \in {"idle", "frame"}
  /\ CanCreateResource    \* otherwise the update fails at once
  /\ CreateResource /\ staging' = NextHandle(slots)
  /\ ExecuteImmediate(NextHandle(slots))
  /\ pc' = "upload" /\ resume' = pc
  /\ UNCHANGED <<current_frame, frame, deferred, lists, initVars, signalled, fences,
                 swapChainVars>>

\* The copy is done: the staging buffer goes at once.
UploadDone ==
  /\ pc = "upload" /\ UploadFence \in fences
  /\ slots' = DestroyHandle(slots, staging) /\ staging' = NullHandle
  /\ fences' = fences \ {UploadFence}
  /\ pc' = resume /\ resume' = "idle"
  /\ UNCHANGED <<current_frame, frame, deferred, lists, initVars, pending, signalled,
                 swapChainVars>>
=============================================================================

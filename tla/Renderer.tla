------------------------------ MODULE Renderer ------------------------------
(***************************************************************************)
(* The renderer (engine/renderer/src/Renderer.cpp and                      *)
(* internal/FrameResources.cpp, PipelineLibrary.cpp) on a Vulkan context,  *)
(* and an application that drives both as the samples do: the specification*)
(* of a frame from BeginFrame to the device.                               *)
(*                                                                         *)
(* One handle, "resources", stands for what the renderer keeps: per frame  *)
(* slot a uniform buffer and two descriptor sets, and pipelines and        *)
(* shaders.  "hdr" is the transient texture of the render graph of a frame.*)
(***************************************************************************)
EXTENDS VulkanRHIContext

CONSTANTS
  MaxEvents,      \* bound: how often something else than drawing a frame happens
  DestroyBetweenFrames   \* whether the application may shut the renderer down between
                         \* frames and go on

ASSUME EventsAssumption == MaxEvents \in Nat /\ DestroyBetweenFrames \in BOOLEAN

VARIABLES
  renderer,       \* "off", "ready", "started" (frame_started) or "recording" inside EndFrame
  frame_slot,     \* frame_slot
  resources,      \* the handle of its resources
  hdr,            \* the handle of the HDR texture while EndFrame records
  events          \* how many of the MaxEvents have happened

rendererVars == <<renderer, frame_slot, resources, hdr>>
vars == <<contextVars, initVars, deviceVars, swapChainVars, rendererVars, events>>

Init ==
  /\ ContextInit
  /\ renderer = "off" /\ frame_slot = 0 /\ resources = NullHandle /\ hdr = NullHandle
  /\ events = 0

\* The application's thread is outside Renderer::EndFrame.
Outside == renderer # "recording"

RendererObjects == {<<"resources">>, <<"descriptor_pools">>, <<"pipelines">>, <<"layouts">>}

RendererInitialize ==
  /\ pc = "idle" /\ renderer = "off"
  /\ CanCreateResource
  /\ CreateResource /\ resources' = NextHandle(slots)
  /\ objects' = objects \cup RendererObjects
  /\ renderer' = "ready" /\ frame_slot' = 0
  /\ UNCHANGED <<hdr, pc, resume, current_frame, frame, deferred, staging, lists, step,
                 deviceVars, swapChainVars>>

\* A step of the initialisation fails after some resources were created: they are destroyed.
RendererInitializeFails ==
  /\ pc = "idle" /\ renderer = "off"
  /\ CanCreateResource
  /\ CreateResource /\ deferred' = Defer(NextHandle(slots))
  /\ objects' = objects \cup RendererObjects
  /\ UNCHANGED <<rendererVars, pc, resume, current_frame, frame, staging, lists, step,
                 deviceVars, swapChainVars>>

\* Renderer::BeginFrame writes the uniforms of the frame slot.  The application renders once
\* in a frame.
RendererBeginFrame ==
  /\ pc = "frame" /\ renderer = "ready"
  /\ lists[current_frame]["graphics"] = "initial"
  /\ renderer' = "started"
  /\ UNCHANGED <<frame_slot, resources, hdr, contextVars, initVars, deviceVars, swapChainVars>>

\* The slot's share of the resources.
FrameSlot == <<resources, frame_slot>>

\* Renderer::EndFrame up to the submission: the render graph creates the HDR texture and
\* begins the graphics list, and the tone mapping pass rewrites the descriptors of the slot.
\* The back buffer is drawn to whether an image was acquired or not.
RendererRecord ==
  /\ pc = "frame" /\ renderer = "started" /\ HasSwapChain
  /\ lists[current_frame]["graphics"] = "initial"
  /\ CreateResource /\ hdr' = NextHandle(slots)
  /\ ListBecomes("graphics", "recording")
  /\ renderer' = "recording"
  /\ UNCHANGED <<frame_slot, resources, pc, resume, current_frame, frame, deferred, staging,
                 initVars, deviceVars, swapChainVars>>

NextSlot == (frame_slot + 1) % kFramesInFlight

\* The rest of EndFrame: the batch is submitted, the HDR texture destroyed with the frame.
RendererSubmit ==
  /\ pc = "frame" /\ renderer = "recording"
  /\ ListBecomes("graphics", "executable")
  /\ SubmitList("graphics",
                [Nothing EXCEPT !.handles = {resources, hdr} \ {NullHandle}, !.slot = FrameSlot,
                                !.image = BackBuffer], {}, <<>>)
  /\ deferred' = Defer(hdr) /\ hdr' = NullHandle
  /\ frame_slot' = NextSlot
  /\ renderer' = "ready"
  /\ UNCHANGED <<resources, pc, resume, current_frame, slots, staging, initVars, signalled,
                 fences, swapChainVars>>

RendererOff ==
  /\ deferred' = Defer(resources)
  /\ renderer' = "off" /\ frame_slot' = 0 /\ resources' = NullHandle
  /\ UNCHANGED hdr

\* Renderer::Shutdown inside a frame, or between frames.
RendererShutdown ==
  /\ pc \in {"idle", "frame"} /\ renderer \in {"ready", "started"}
  /\ pc = "idle" => DestroyBetweenFrames
  /\ RendererOff
  /\ UNCHANGED <<pc, resume, current_frame, frame, slots, staging, lists, initVars, deviceVars,
                 swapChainVars>>

\* The end of the samples: the renderer is shut down if it is on, then the context, also
\* from within a frame that has failed.
Quit ==
  /\ Outside /\ pc \in {"idle", "frame"}
  /\ pc' = "shutdown" /\ RendererOff
  /\ UNCHANGED <<resume, current_frame, frame, slots, staging, lists, initVars, deviceVars,
                 swapChainVars>>

-----------------------------------------------------------------------------
\* A frame is presented once a renderer that is on has drawn it.
Drawn == renderer # "off" => lists[current_frame]["graphics"] = "executable" /\ renderer = "ready"

\* What every frame consists of, and the steps of a call that has begun.
FrameStep ==
  \/ Initialize \/ InitializeDevice \/ InitializeFails \/ Initialized
  \/ ShutdownIdle \/ Teardown \/ TornDown
  \/ BeginFrame \/ ReuseFrame \/ (Drawn /\ Present)
  \/ \E image \in Images : Acquire(image)
  \/ retired /\ AcquireOutOfDate
  \/ Recreate \/ UploadDone

\* What may happen besides.
ContextEvent ==
  \/ AcquireFails \/ AcquireOutOfDate \/ Resize \/ RecreateFails
  \/ SubmitCompute \/ SubmitComputeWithFence \/ Upload

RendererStep ==
  RendererInitialize \/ RendererBeginFrame \/ RendererRecord \/ RendererSubmit \/ Quit

RendererEvent == RendererInitializeFails \/ RendererShutdown

\* The device completes its oldest operation of a queue.
DeviceStep(q) ==
  /\ Complete(q)
  /\ IF q = "present" THEN Presented(Head(pending[q])) ELSE UNCHANGED owned
  /\ UNCHANGED <<chain, retired, current_image, contextVars, initVars, rendererVars, events>>

Step(A) == A /\ UNCHANGED events
Event(A) == events < MaxEvents /\ A /\ events' = events + 1

Next ==
  \/ Step(Outside /\ FrameStep /\ UNCHANGED rendererVars)
  \/ Event(Outside /\ ContextEvent /\ UNCHANGED rendererVars)
  \/ Step(RendererStep) \/ Event(RendererEvent)
  \/ \E q \in DeviceQueues : DeviceStep(q)

\* The device makes progress, a call that can go on does, and an image that is available is
\* returned by the acquisition.
Fairness ==
  /\ \A q \in DeviceQueues : WF_vars(DeviceStep(q))
  /\ WF_vars(Step((InitializeDevice \/ Initialized) /\ UNCHANGED rendererVars))
  /\ WF_vars(Step((ShutdownIdle \/ Teardown \/ TornDown) /\ UNCHANGED rendererVars))
  /\ WF_vars(Step((ReuseFrame \/ UploadDone \/ Recreate) /\ UNCHANGED rendererVars))
  /\ WF_vars(Step(((\E image \in Images : Acquire(image)) \/ (retired /\ AcquireOutOfDate))
                  /\ UNCHANGED rendererVars))
  /\ WF_vars(Step(RendererSubmit))

Spec == Init /\ [][Next]_vars /\ Fairness

-----------------------------------------------------------------------------
(* Properties.                                                             *)

TypeOK ==
  /\ pc \in {"off", "create", "teardown", "idle", "wait", "acquire", "frame", "recreate",
             "upload", "shutdown"}
  /\ resume \in {"idle", "frame"} /\ current_frame \in Frames
  /\ frame \in [acquired : BOOLEAN, consumed : BOOLEAN,
                count : 0 .. kMaxSubmittedCommandLists, last : 0 .. kMaxSubmittedCommandLists]
  /\ deferred \in [Frames -> Seq(Handles)] /\ staging \in Handles
  /\ lists \in [Frames -> [ListQueues -> {"initial", "recording", "executable"}]]
  /\ chain \in 0 .. 1 /\ retired \in BOOLEAN /\ current_image \in Images /\ owned \subseteq Images
  /\ renderer \in {"off", "ready", "started", "recording"}
  /\ frame_slot \in Frames /\ {resources, hdr} \subseteq Handles

\* Nothing the device may still use has been destroyed: neither what was destroyed in some
\* frame, whose destruction waits for the fence of that frame, nor the images of a swap
\* chain, nor a staging buffer.
NoUseAfterDestroy ==
  \A operation \in InFlight :
    /\ \A handle \in operation.uses.handles : IsValid(slots, handle)
    /\ operation.uses.image # NoImage => operation.uses.image[1] = chain

\* What belongs to a frame in flight is at rest until the device is done with it: a pending
\* command list is neither reset nor recorded, and the uniforms and descriptors that the
\* renderer is writing are used by no submission, whatever frames, restarts and failed
\* frames came before.
FrameAtRest ==
  /\ \A operation \in InFlight :
       LET list == operation.uses.list
       IN  list # NoList => lists[list[1]][list[2]] = "executable"
  /\ renderer \in {"started", "recording"} =>
       \A operation \in InFlight : operation.uses.slot # FrameSlot

\* Binary semaphores: none is signalled twice without a wait in between, and the one given
\* to the acquisition is in no use.
SemaphoresBinary ==
  /\ \A q \in DeviceQueues : CanComplete(q) => Head(pending[q]).signals \cap signalled = {}
  /\ pc = "acquire" =>
       LET semaphore == ImageAvailable(current_frame)
       IN  /\ semaphore \notin signalled
           /\ \A operation \in InFlight : semaphore \notin operation.waits \cup operation.signals

\* Vulkan objects are destroyed before what they were made from, and a context that is not
\* initialised, by a failure or after Shutdown, has none.
ObjectsOrdered ==
  /\ \A object \in objects : Parents(object) \subseteq objects
  /\ pc = "off" => objects = {}

\* Every wait ends: for the fence of a frame in flight, an image, an idle device, an upload.
WaitsEnd ==
  pc \in {"wait", "acquire", "recreate", "upload", "shutdown"} ~> pc \in {"idle", "frame", "off"}

\* The device draws only to images that were acquired.
DrawsToAcquired ==
  \A operation \in InFlight :
    operation.uses.list # NoList /\ operation.uses.image # NoImage
      => operation.uses.image[2] \in owned
=============================================================================

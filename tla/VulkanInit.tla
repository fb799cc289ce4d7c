----------------------------- MODULE VulkanInit -----------------------------
(***************************************************************************)
(* InitializeVulkanDevice and ShutdownVulkanDevice                         *)
(* (engine/rhi/vulkan/src/VulkanInit.cpp), with what                       *)
(* VulkanRHIContext::Initialize and Shutdown add: the Vulkan objects, each *)
(* of which may fail to be created, and the order they are destroyed in.   *)
(* An object is a kind and, for what every frame has, the frame.           *)
(***************************************************************************)
EXTENDS Naturals, Sequences, FiniteSets, SequencesExt

CONSTANT kFramesInFlight

ASSUME FramesAssumption == kFramesInFlight \in Nat \ {0}

VARIABLES
  objects,        \* the Vulkan objects that exist
  step            \* the next object to create or to destroy

Frames == 0 .. kFramesInFlight - 1

\* The instance, and the messenger if validation is asked for.
InstanceObjects == << <<"instance">>, <<"debug_messenger">> >>

\* A surface if there is a window.
SurfaceObjects == << <<"surface">> >>

\* The device with its queues, and the memory allocator.
DeviceObjects == << <<"device">>, <<"allocator">> >>

CacheObjects == << <<"pipeline_cache">> >>

\* Per frame: command pools with a buffer each, the semaphores of the submissions, the
\* other two semaphores, and the fence.
FrameObjects(f) ==
  << <<"command_pools", f>>, <<"submission_semaphores", f>>,
     <<"frame_semaphores", f>>, <<"frame_fence", f>> >>

OfAllFrames(ObjectsOf(_)) == FlattenSeq([n \in 1 .. kFramesInFlight |-> ObjectsOf(n - 1)])

CreationOrder ==
  InstanceObjects \o SurfaceObjects \o DeviceObjects \o CacheObjects \o OfAllFrames(FrameObjects)
    \o << <<"immediate_pool">> >>

\* There may be no window.  The messenger and the cache may also be missing, which changes
\* nothing but whether they are destroyed: they are taken to be there.
Optional == {<<"surface">>}

\* Per frame in the order of destruction.
FrameTeardown(f) ==
  << <<"submission_semaphores", f>>, <<"frame_semaphores", f>>,
     <<"frame_fence", f>>, <<"command_pools", f>> >>

\* What the context owns goes first: the swap chain, the resources in the slot maps, the
\* descriptor pools and the pipelines.
ContextObjects ==
  << <<"swapchain">>, <<"resources">>, <<"descriptor_pools">>, <<"pipelines">> >>

\* Mutant: the instance goes before the surface and the messenger.
DestroyInstanceFirst ==
  ContextObjects \o << <<"layouts">>, <<"pipeline_cache">> >> \o OfAllFrames(FrameTeardown)
    \o << <<"immediate_pool">>, <<"allocator">>, <<"device">>,
          <<"instance">>, <<"surface">>, <<"debug_messenger">> >>

DestructionOrder ==
  ContextObjects \o << <<"layouts">>, <<"pipeline_cache">> >> \o OfAllFrames(FrameTeardown)
    \o << <<"immediate_pool">>, <<"allocator">>, <<"device">>,
          <<"surface">>, <<"debug_messenger">>, <<"instance">> >>

\* What an object was created from.
Parents(object) ==
  CASE object[1] = "instance" -> {}
    [] object[1] \in {"debug_messenger", "surface", "device"} -> {<<"instance">>}
    [] object[1] = "swapchain" -> {<<"device">>, <<"surface">>}
    [] object[1] = "resources" -> {<<"device">>, <<"allocator">>}
    [] OTHER -> {<<"device">>}

InitObjects == objects = {} /\ step = 1

CreateObject ==
  /\ step <= Len(CreationOrder)
  /\ objects' = objects \cup {CreationOrder[step]}
  /\ step' = step + 1

SkipObject ==
  /\ step <= Len(CreationOrder) /\ CreationOrder[step] \in Optional
  /\ step' = step + 1
  /\ UNCHANGED objects

\* An object that does not exist is passed over.
DestroyObject ==
  /\ step <= Len(DestructionOrder)
  /\ objects' = objects \ {DestructionOrder[step]}
  /\ step' = step + 1
=============================================================================

---------------------------- MODULE VulkanDevice ----------------------------
(***************************************************************************)
(* The device as the engine uses it through the Vulkan API: queues that    *)
(* execute what was submitted in order, binary semaphores and fences.      *)
(* External to the repository: modelled from the calls of                  *)
(* engine/rhi/vulkan/src/VulkanRHIContext.cpp and VulkanSwapChain.cpp.     *)
(*                                                                         *)
(* The presentation engine is a queue of its own: a present waits for its  *)
(* semaphore and holds nothing else up.                                    *)
(***************************************************************************)
EXTENDS Naturals, Sequences, FiniteSets, SequencesExt, VulkanSlotMap

VARIABLES
  pending,        \* pending[q]: the operations submitted to q and not completed, in order
  signalled,      \* the signalled semaphores
  fences          \* the signalled fences

deviceVars == <<pending, signalled, fences>>

NoFence == <<>>
NoList == <<>>
NoImage == <<>>
NoSlot == <<>>

\* What a submission without commands uses.
Nothing == [handles |-> {}, list |-> NoList, slot |-> NoSlot, image |-> NoImage]

Operation(waits, signals, fence, uses) ==
  [waits |-> waits, signals |-> signals, fence |-> fence, uses |-> uses]

DeviceQueues == {"graphics", "compute", "present"}

DeviceInit ==
  /\ pending = [q \in DeviceQueues |-> <<>>]
  /\ signalled = {} /\ fences = {}

\* The operations that are not completed.
InFlight == UNION {ToSet(pending[q]) : q \in DeviceQueues}

\* vkDeviceWaitIdle returns.
Idle == \A q \in DeviceQueues : pending[q] = <<>>

CanComplete(q) == pending[q] # <<>> /\ Head(pending[q]).waits \subseteq signalled

\* The oldest operation of a queue completes: it consumes the semaphores it waits for and
\* signals its own and its fence.
Complete(q) ==
  /\ CanComplete(q)
  /\ LET operation == Head(pending[q])
     IN  /\ signalled' = (signalled \ operation.waits) \cup operation.signals
         /\ fences' = fences \cup ({operation.fence} \ {NoFence})
  /\ pending' = [pending EXCEPT ![q] = Tail(@)]
=============================================================================

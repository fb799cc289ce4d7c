--------------------------- MODULE VulkanSlotMap ---------------------------
(***************************************************************************)
(* VulkanSlotMap (engine/rhi/vulkan/src/VulkanSlotMap.h): a fixed array of *)
(* slots and a stack of free indices; a handle is an index and the         *)
(* generation the slot had when it was allocated.                          *)
(***************************************************************************)
EXTENDS Naturals, Sequences

CONSTANTS
  Capacity,       \* Capacity of the template
  MaxGeneration   \* the largest generation, 65535 in the code

ASSUME SlotMapAssumption == {Capacity, MaxGeneration} \subseteq Nat \ {0}

Indices == 1 .. Capacity

\* A default handle: no slot.
NullHandle == <<0, 0>>
Handles == (Indices \X (1 .. MaxGeneration)) \cup {NullHandle}

\* free is the stack free_indices_[0 .. free_count_), its top first.
EmptyMap ==
  [generation |-> [i \in Indices |-> 1], occupied |-> {}, free |-> [i \in Indices |-> i]]

\* The handle Allocate returns: none if every slot is taken.
NextHandle(map) ==
  IF map.free = <<>> THEN NullHandle
  ELSE <<Head(map.free), map.generation[Head(map.free)]>>

Allocate(map) ==
  IF map.free = <<>> THEN map
  ELSE [map EXCEPT !.free = Tail(@), !.occupied = @ \cup {Head(map.free)}]

IsValid(map, handle) ==
  handle[1] \in map.occupied /\ map.generation[handle[1]] = handle[2]

NextGeneration(generation) == IF generation = MaxGeneration THEN 1 ELSE generation + 1

\* Destroying a handle that is not valid does nothing.
DestroyHandle(map, handle) ==
  IF ~IsValid(map, handle) THEN map
  ELSE LET i == handle[1]
       IN  [generation |-> [map.generation EXCEPT ![i] = NextGeneration(@)],
            occupied |-> map.occupied \ {i},
            free |-> <<i>> \o map.free]

\* The handles of a list, one after the other.
DestroyInTurn(map, handles) ==
  LET after[n \in 0 .. Len(handles)] ==
        IF n = 0 THEN map ELSE DestroyHandle(after[n - 1], handles[n])
  IN  after[Len(handles)]

DestroyAll(map) ==
  [generation |-> [i \in Indices |-> IF i \in map.occupied THEN NextGeneration(map.generation[i])
                                     ELSE map.generation[i]],
   occupied |-> {}, free |-> [i \in Indices |-> i]]
=============================================================================

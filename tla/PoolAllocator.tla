--------------------------- MODULE PoolAllocator ----------------------------
(***************************************************************************)
(* PoolAllocator (src/engine/core/memory/pool_allocator.h): a fixed number *)
(* of slots for objects of one type, the free ones linked by index.        *)
(* Allocate and Deallocate run the constructor and the destructor of the   *)
(* object, which may themselves allocate from and deallocate to the pool   *)
(* (the nodes of a tree do): a call is modelled as its part before and its *)
(* part after that, with the calls in progress on a stack.                 *)
(*                                                                         *)
(* The client deallocates an object once, when it is constructed and not   *)
(* being destroyed.  A constructor that throws would leave its slot taken  *)
(* without an object, for ~PoolAllocator to destroy: constructors return.  *)
(***************************************************************************)
EXTENDS Integers, Sequences, FiniteSets

CONSTANTS Slots,        \* how many slots the pool has
          MaxDepth      \* bound on calls in progress at once

ASSUME PoolAssumption == Slots \in Nat /\ MaxDepth \in Nat

VARIABLES
    next_free,    \* slot -> the next free slot
    occupied,     \* the slots marked occupied
    free_head,
    free_count,
    calls,        \* calls in progress, the innermost first
    cursor,       \* slot ~PoolAllocator has reached; kAlive before it runs
    objects       \* slots that hold a constructed object (for the properties)

poolVars == <<next_free, occupied, free_head, free_count, calls, cursor, objects>>

kInvalidIndex == -1
kAlive == -1
Indices == 0 .. Slots - 1

Call == [op : {"construct", "destroy", "sweep"}, slot : Indices]

PoolInit ==
    /\ next_free = [i \in Indices |-> IF i + 1 < Slots THEN i + 1 ELSE kInvalidIndex]
    /\ occupied = {}
    /\ free_head = IF Slots = 0 THEN kInvalidIndex ELSE 0
    /\ free_count = Slots
    /\ calls = <<>>
    /\ cursor = kAlive
    /\ objects = {}

Enter(op, slot) ==
    /\ Len(calls) < MaxDepth
    /\ calls' = <<[op |-> op, slot |-> slot]>> \o calls

Returning(op) == calls # <<>> /\ Head(calls).op = op

Allocate ==
    /\ cursor = kAlive
    /\ free_head # kInvalidIndex
    /\ Enter("construct", free_head)
    /\ free_head' = next_free[free_head]
    /\ next_free' = [next_free EXCEPT ![free_head] = kInvalidIndex]
    /\ occupied' = occupied \cup {free_head}
    /\ free_count' = free_count - 1
    /\ UNCHANGED <<cursor, objects>>

Constructed ==
    /\ Returning("construct")
    /\ objects' = objects \cup {Head(calls).slot}
    /\ calls' = Tail(calls)
    /\ UNCHANGED <<next_free, occupied, free_head, free_count, cursor>>

BeingDestroyed ==
    {calls[i].slot : i \in {j \in DOMAIN calls : calls[j].op # "construct"}}

Deallocate(slot) ==
    /\ slot \in objects \ BeingDestroyed
    /\ slot \in occupied
    /\ Enter("destroy", slot)
    /\ UNCHANGED <<next_free, occupied, free_head, free_count, cursor, objects>>

\* Mutant of Destroyed: the slot is counted as free and not linked.
DestroyedUnlinked ==
    /\ Returning("destroy")
    /\ occupied' = occupied \ {Head(calls).slot}
    /\ objects' = objects \ {Head(calls).slot}
    /\ free_count' = free_count + 1
    /\ calls' = Tail(calls)
    /\ UNCHANGED <<next_free, free_head, cursor>>

\* The destructor has returned: the slot is linked before the head of now,
\* which the destructor may have moved.
Destroyed ==
    /\ Returning("destroy")
    /\ LET slot == Head(calls).slot IN
       /\ next_free' = [next_free EXCEPT ![slot] = free_head]
       /\ occupied' = occupied \ {slot}
       /\ objects' = objects \ {slot}
       /\ free_head' = slot
    /\ free_count' = free_count + 1
    /\ calls' = Tail(calls)
    /\ UNCHANGED cursor

(***************************************************************************)
(* ~PoolAllocator: every slot in turn, those a destructor has given back   *)
(* in the meantime left out.  Objects allocated by a destructor from here  *)
(* on would outlive the pool: cursor = kAlive is an obligation of theirs.  *)
(***************************************************************************)
BeginSweep ==
    /\ cursor = kAlive
    /\ calls = <<>>
    /\ cursor' = 0
    /\ UNCHANGED <<next_free, occupied, free_head, free_count, calls, objects>>

Sweeping == cursor \in Indices /\ calls = <<>>

SweepObject ==
    /\ Sweeping
    /\ cursor \in occupied
    /\ Enter("sweep", cursor)
    /\ UNCHANGED <<next_free, occupied, free_head, free_count, cursor, objects>>

SweptObject ==
    /\ Returning("sweep")
    /\ occupied' = occupied \ {cursor}
    /\ objects' = objects \ {cursor}
    /\ cursor' = cursor + 1
    /\ calls' = Tail(calls)
    /\ UNCHANGED <<next_free, free_head, free_count>>

SweepPastFree ==
    /\ Sweeping
    /\ cursor \notin occupied
    /\ cursor' = cursor + 1
    /\ UNCHANGED <<next_free, occupied, free_head, free_count, calls, objects>>

PoolNext ==
    \/ Allocate \/ Constructed
    \/ \E slot \in Indices : Deallocate(slot)
    \/ Destroyed
    \/ BeginSweep \/ SweepObject \/ SweptObject \/ SweepPastFree

PoolSpec == PoolInit /\ [][PoolNext]_poolVars

(***************************************************************************)
(* The slot reached from the head of the free list after n links.          *)
(***************************************************************************)
FreeSlot[n \in Nat] ==
    IF n = 0 THEN free_head
    ELSE IF FreeSlot[n - 1] = kInvalidIndex THEN kInvalidIndex
    ELSE next_free[FreeSlot[n - 1]]

UnderConstruction ==
    {calls[i].slot : i \in {j \in DOMAIN calls : calls[j].op = "construct"}}

\* Whatever constructors and destructors do to the pool from inside its own
\* calls, the free list runs through free_count slots, each once, none of
\* them occupied, and misses none until ~PoolAllocator frees slots without
\* linking them; an occupied slot holds an object or one under construction;
\* no object is destroyed twice at once; and the pool takes all its objects
\* with it.
PoolExact ==
    LET free == {FreeSlot[n] : n \in 0 .. free_count - 1} IN
    /\ FreeSlot[free_count] = kInvalidIndex
    /\ Cardinality(free) = free_count
    /\ free \subseteq Indices \ occupied
    /\ cursor = kAlive => free = Indices \ occupied
    /\ occupied = objects \cup UnderConstruction
    /\ Cardinality(BeingDestroyed \cup UnderConstruction) = Len(calls)
    /\ BeingDestroyed \subseteq objects
    /\ cursor = Slots => objects = {}
=============================================================================

------------------------------ MODULE MCMemory ------------------------------
(***************************************************************************)
(* The two allocators share nothing, so each behaviour of the run is one   *)
(* of the arena or one of the pool, chosen at the start.                   *)
(***************************************************************************)
EXTENDS StackAllocator, PoolAllocator

VARIABLE inUse

vars == <<arenaVars, poolVars, inUse>>

Init ==
    /\ ArenaInit
    /\ PoolInit
    /\ inUse \in {"arena", "pool"}

Next ==
    /\ UNCHANGED inUse
    /\ \/ inUse = "arena" /\ ArenaNext /\ UNCHANGED poolVars
       \/ inUse = "pool" /\ PoolNext /\ UNCHANGED arenaVars

Spec == Init /\ [][Next]_vars

TheSizes == {0, 1, 4}
TheAlignments == {1, 4}
=============================================================================

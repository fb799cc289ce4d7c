--------------------------- MODULE StackAllocator ---------------------------
(***************************************************************************)
(* StackAllocator (src/engine/core/memory/stack_allocator.cc): an arena    *)
(* of Capacity bytes at the address Base, allocated from both ends towards *)
(* the middle.  A marker saves both cursors; rolling back to one gives up  *)
(* every block that reaches into the gap it reopens.  LinearAllocator is   *)
(* the same allocation from the front alone.                               *)
(*                                                                         *)
(* Sums and differences wrap at WordSize, as size_t and uintptr_t do.  An  *)
(* alignment divides the word, as the powers of two the code asserts.      *)
(***************************************************************************)
EXTENDS Integers

CONSTANTS Capacity, Base, Sizes, Alignments, WordSize

ASSUME ArenaAssumption ==
    /\ Capacity \in Nat
    /\ Base \in Nat
    /\ Sizes \subseteq Nat
    /\ Alignments \subseteq Nat \ {0}
    /\ WordSize \in Nat
    /\ Base + Capacity < WordSize
    /\ \A alignment \in Alignments : WordSize % alignment = 0

VARIABLES
    front_offset,   \* bytes taken at the front, padding included
    back_offset,    \* offset of the lowest byte taken at the back
    marker,         \* what Mark returned last; the client keeps one
    blocks          \* blocks handed out and not given up (for the properties)

arenaVars == <<front_offset, back_offset, marker, blocks>>

Offsets == 0 .. Capacity
Marker == [front_offset : Offsets, back_offset : Offsets]
CurrentMarker == [front_offset |-> front_offset, back_offset |-> back_offset]

ArenaInit ==
    /\ front_offset = 0
    /\ back_offset = Capacity
    /\ marker = CurrentMarker
    /\ blocks = {}

Wrap(n) == n % WordSize

AlignDown(value, alignment) == value - (value % alignment)

AlignUp(value, alignment) == AlignDown(Wrap(value + (alignment - 1)), alignment)

(***************************************************************************)
(* Where a block would go, what it takes, and whether it fits.             *)
(***************************************************************************)
FrontStart(alignment) == AlignUp(Base + front_offset, alignment)

\* Mutant of FrontRequired: the padding is not counted.
FrontRequiredUnpadded(size, alignment) == size

FrontRequired(size, alignment) ==
    Wrap(Wrap(FrontStart(alignment) - (Base + front_offset)) + size)

FrontFits(size, alignment) ==
    Wrap(front_offset + FrontRequired(size, alignment)) <= back_offset

HandOut(start, size, alignment) ==
    blocks' = blocks \cup {[start |-> start, size |-> size,
                            alignment |-> alignment]}

AllocateFront(size, alignment) ==
    /\ size # 0
    /\ FrontFits(size, alignment)
    /\ front_offset' = Wrap(front_offset + FrontRequired(size, alignment))
    /\ HandOut(FrontStart(alignment), size, alignment)
    /\ UNCHANGED <<back_offset, marker>>

BackStart(size, alignment) ==
    AlignDown(Wrap(Base + back_offset - size), alignment)

BackFits(size, alignment) ==
    BackStart(size, alignment) >= Base + front_offset

AllocateBack(size, alignment) ==
    /\ size # 0
    /\ BackFits(size, alignment)
    /\ back_offset' = Wrap(BackStart(size, alignment) - Base)
    /\ HandOut(BackStart(size, alignment), size, alignment)
    /\ UNCHANGED <<front_offset, marker>>

Mark ==
    /\ marker' = CurrentMarker
    /\ UNCHANGED <<front_offset, back_offset, blocks>>

(***************************************************************************)
(* Blocks that a gap from offset front to offset back leaves alone.        *)
(***************************************************************************)
Kept(front, back) ==
    {b \in blocks : \/ b.start + b.size <= Base + front
                    \/ b.start >= Base + back}

\* The marker may be older than a Reset or than another roll-back: both
\* cursors are restored whatever happened since.
Rollback ==
    /\ marker.front_offset <= marker.back_offset
    /\ marker.back_offset <= Capacity
    /\ front_offset' = marker.front_offset
    /\ back_offset' = marker.back_offset
    /\ blocks' = Kept(marker.front_offset, marker.back_offset)
    /\ UNCHANGED marker

ArenaReset ==
    /\ front_offset' = 0
    /\ back_offset' = Capacity
    /\ blocks' = {}
    /\ UNCHANGED marker

ArenaNext ==
    \/ \E size \in Sizes, alignment \in Alignments :
          AllocateFront(size, alignment) \/ AllocateBack(size, alignment)
    \/ Mark
    \/ Rollback
    \/ ArenaReset

ArenaSpec == ArenaInit /\ [][ArenaNext]_arenaVars

(***************************************************************************)
(* What the sizes asked for must satisfy for the arena to be sound: no sum *)
(* of an offset, a size and the padding before it reaches the word.  The   *)
(* code checks none of it, so a size computed by an underflow, such as     *)
(* (size_t)-1, is granted from either end although nothing is left.        *)
(***************************************************************************)
SizesInRange ==
    \A size \in Sizes, alignment \in Alignments :
        /\ Base + Capacity + size + alignment < WordSize
        /\ size <= Base

Disjoint(b, c) == \/ b.start + b.size <= c.start
                  \/ c.start + c.size <= b.start

InArena(b) == /\ Base <= b.start
              /\ b.start + b.size <= Base + Capacity

\* Blocks handed out and not given up lie inside the buffer, are aligned as
\* asked and do not overlap, whatever was allocated from either end, rolled
\* back or reset in between.
BlocksDisjoint ==
    \A b \in blocks :
        /\ InArena(b)
        /\ b.start % b.alignment = 0
        /\ \A c \in blocks : b # c => Disjoint(b, c)
=============================================================================

--------------------------- MODULE ResourceProofs ---------------------------
(***************************************************************************)
(* What the engine hands out and takes back: memory, loaded assets, and    *)
(* the resources that the passes of a render graph share.                  *)
(*                                                                         *)
(* For every capacity, address, word size and set of alignments, and for   *)
(* all sizes within SizesInRange, the blocks of the arena stay disjoint.   *)
(*                                                                         *)
(* For every number of slots and any depth of calls made from constructors *)
(* and destructors, the free list of the pool stays exact: it runs along a *)
(* path p through the free slots (FreeList), which Allocate shortens and   *)
(* Deallocate extends at its head, and the recursive function that follows *)
(* the links in PoolExact is on that path.                                 *)
(*                                                                         *)
(* For any clients, paths and number of loads, loads share a future unless *)
(* two calls have raced.  The invariant says which future of a path can be *)
(* alive: the one in the cache, or during a call the one it has made.  It  *)
(* needs the numbering of the futures, which says that two calls never     *)
(* make the same one and that a future is used after it is made.           *)
(*                                                                         *)
(* For every graph, of any number of resources and passes, what Compile    *)
(* computes has the properties that the run checks.  Live and the order    *)
(* are the last of Len(passes) steps of a recursive function, of which     *)
(* LiveRun and OrderRun say that it exists and does what is written; what  *)
(* each step keeps (GoodRun) then holds of the last, and counting says     *)
(* that as many steps as there are passes are enough.                      *)
(***************************************************************************)
EXTENDS StackAllocator, PoolAllocator, ResourceManager, RenderGraph, FiniteSetTheorems,
        SequenceTheorems, FunctionTheorems, TLAPS

OutsideGap(b, front, back) == \/ b.start + b.size <= Base + front
                              \/ b.start >= Base + back

Cursors(front, back) ==
    /\ front \in Nat
    /\ back \in Nat
    /\ front <= back
    /\ back <= Capacity

Blocks == [start : Nat, size : Nat, alignment : Alignments]

ArenaInv ==
    /\ Cursors(front_offset, back_offset)
    /\ marker \in [front_offset : Nat, back_offset : Nat]
    /\ Cursors(marker.front_offset, marker.back_offset)
    /\ blocks \subseteq Blocks
    /\ \A b \in blocks : OutsideGap(b, front_offset, back_offset)
    /\ BlocksDisjoint

\* A remainder is below its divisor.
LEMMA RemainderRange ==
    ASSUME NEW n \in Int, NEW m \in Nat \ {0}
    PROVE n % m \in 0 .. m - 1
  OBVIOUS

\* What a remainder leaves is a multiple.
LEMMA WithoutRemainder ==
    ASSUME NEW n \in Int, NEW m \in Nat \ {0}
    PROVE (n - (n % m)) % m = 0
  OBVIOUS

\* What fits in a word does not wrap.
LEMMA WrapsNot ==
    ASSUME NEW n \in Nat, n < WordSize
    PROVE Wrap(n) = n
  <1>1. WordSize \in Nat \ {0}
    BY ArenaAssumption
  <1>2. n % WordSize = n
    BY <1>1
  <1> QED
    BY <1>2 DEF Wrap

\* AlignDown gives the multiple at most the value and less than one
\* alignment below it.
LEMMA AlignDownSpec ==
    ASSUME NEW value \in Nat, NEW alignment \in Nat \ {0}
    PROVE /\ AlignDown(value, alignment) \in Nat
          /\ AlignDown(value, alignment) <= value
          /\ value < AlignDown(value, alignment) + alignment
          /\ AlignDown(value, alignment) % alignment = 0
  <1>1. value % alignment \in 0 .. alignment - 1
    BY RemainderRange
  <1>2. value % alignment <= value
    OBVIOUS
  <1>3. (value - (value % alignment)) % alignment = 0
    BY WithoutRemainder
  <1> QED
    BY <1>1, <1>2, <1>3 DEF AlignDown

\* Where a block goes at the front: behind all blocks there, after less
\* than an alignment of padding, and the padding is counted.
LEMMA FrontPlacement ==
    ASSUME SizesInRange, Cursors(front_offset, back_offset),
           NEW size \in Sizes, NEW alignment \in Alignments
    PROVE /\ FrontStart(alignment) \in Nat
          /\ FrontStart(alignment) % alignment = 0
          /\ FrontStart(alignment) >= Base + front_offset
          /\ Wrap(front_offset + FrontRequired(size, alignment))
                = FrontStart(alignment) + size - Base
  <1> DEFINE current == Base + front_offset
             sum == current + (alignment - 1)
             start == AlignDown(sum, alignment)
  <1>1. /\ Base \in Nat /\ Capacity \in Nat /\ WordSize \in Nat
        /\ size \in Nat /\ alignment \in Nat \ {0}
        /\ Base + Capacity + size + alignment < WordSize
    BY ArenaAssumption DEF SizesInRange
  <1>2. /\ front_offset \in Nat /\ back_offset \in Nat
        /\ front_offset <= Capacity
    BY <1>1 DEF Cursors
  <1>3. sum \in Nat /\ sum < WordSize
    BY <1>1, <1>2
  <1>4. FrontStart(alignment) = start
    BY <1>3, WrapsNot DEF FrontStart, AlignUp
  <1>5. /\ start \in Nat /\ start <= sum /\ sum < start + alignment
        /\ start % alignment = 0
    <2> HIDE DEF sum
    <2> QED
      BY <1>1, <1>3, AlignDownSpec
  <1> HIDE DEF start
  <1>6. start >= current /\ start - current < alignment
    BY <1>1, <1>2, <1>5
  <1>7. Wrap(start - current) = start - current
    BY <1>1, <1>2, <1>5, <1>6, WrapsNot
  <1>8. Wrap((start - current) + size) = (start - current) + size
    BY <1>1, <1>2, <1>5, <1>6, WrapsNot
  <1>9. FrontRequired(size, alignment) = (start - current) + size
    BY <1>4, <1>7, <1>8 DEF FrontRequired
  <1>10. Wrap(front_offset + ((start - current) + size))
           = front_offset + ((start - current) + size)
    BY <1>1, <1>2, <1>5, <1>6, WrapsNot
  <1> QED
    BY <1>1, <1>2, <1>4, <1>5, <1>6, <1>9, <1>10

\* Where a block goes at the back: before all blocks there.
LEMMA BackPlacement ==
    ASSUME SizesInRange, Cursors(front_offset, back_offset),
           NEW size \in Sizes, NEW alignment \in Alignments,
           BackFits(size, alignment)
    PROVE /\ BackStart(size, alignment) \in Nat
          /\ BackStart(size, alignment) % alignment = 0
          /\ BackStart(size, alignment) >= Base + front_offset
          /\ BackStart(size, alignment) + size <= Base + back_offset
          /\ Wrap(BackStart(size, alignment) - Base)
                = BackStart(size, alignment) - Base
  <1> DEFINE proposed == Base + back_offset - size
             start == AlignDown(proposed, alignment)
  <1>1. /\ Base \in Nat /\ Capacity \in Nat /\ WordSize \in Nat
        /\ size \in Nat /\ alignment \in Nat \ {0}
        /\ Base + Capacity + size + alignment < WordSize
        /\ size <= Base
    BY ArenaAssumption DEF SizesInRange
  <1>2. /\ front_offset \in Nat /\ back_offset \in Nat
        /\ back_offset <= Capacity
    BY <1>1 DEF Cursors
  <1>3. proposed \in Nat /\ proposed < WordSize
    BY <1>1, <1>2
  <1>4. BackStart(size, alignment) = start
    BY <1>3, WrapsNot DEF BackStart
  <1>5. start \in Nat /\ start <= proposed /\ start % alignment = 0
    <2> HIDE DEF proposed
    <2> QED
      BY <1>1, <1>3, AlignDownSpec
  <1> HIDE DEF start
  <1>6. start >= Base + front_offset
    BY <1>4 DEF BackFits
  <1>7. Wrap(start - Base) = start - Base
    BY <1>1, <1>2, <1>3, <1>5, <1>6, WrapsNot
  <1> QED
    BY <1>1, <1>2, <1>4, <1>5, <1>6, <1>7

LEMMA InitEstablishes == ArenaInit => ArenaInv
  BY ArenaAssumption
  DEF ArenaInit, ArenaInv, Cursors, CurrentMarker, BlocksDisjoint

\* A block placed in the gap, with the cursors moved past it, keeps the
\* invariant.
LEMMA HandOutPreserves ==
    ASSUME ArenaInv,
           NEW start \in Nat, NEW size \in Nat, NEW alignment \in Alignments,
           start % alignment = 0,
           start >= Base + front_offset,
           start + size <= Base + back_offset,
           HandOut(start, size, alignment),
           Cursors(front_offset', back_offset'),
           front_offset <= front_offset', back_offset' <= back_offset,
           \/ start + size <= Base + front_offset'
           \/ start >= Base + back_offset',
           marker' = marker
    PROVE ArenaInv'
  <1> DEFINE new == [start |-> start, size |-> size, alignment |-> alignment]
  <1>1. blocks' = blocks \cup {new} /\ new \in Blocks
    BY DEF HandOut, Blocks
  <1>2. /\ Base \in Nat /\ Capacity \in Nat
        /\ front_offset \in Nat /\ back_offset \in Nat /\ back_offset <= Capacity
        /\ front_offset' \in Nat /\ back_offset' \in Nat
    BY ArenaAssumption DEF ArenaInv, Cursors
  <1>3. new.start = start /\ new.size = size /\ new.alignment = alignment
    OBVIOUS
  <1> HIDE DEF new
  <1>4. \A b \in blocks : /\ b.start \in Nat /\ b.size \in Nat
                           /\ OutsideGap(b, front_offset, back_offset)
    BY DEF ArenaInv, Blocks
  <1>5. \A b \in blocks' : OutsideGap(b, front_offset', back_offset')
    <2>1. ASSUME NEW b \in blocks
          PROVE OutsideGap(b, front_offset', back_offset')
      <3>1. CASE b.start + b.size <= Base + front_offset
        BY <1>2, <1>4, <3>1 DEF OutsideGap
      <3>2. CASE b.start >= Base + back_offset
        BY <1>2, <1>4, <3>2 DEF OutsideGap
      <3> QED
        BY <1>4, <3>1, <3>2 DEF OutsideGap
    <2>2. OutsideGap(new, front_offset', back_offset')
      BY <1>3 DEF OutsideGap
    <2> QED
      BY <1>1, <2>1, <2>2
  <1>6. \A b \in blocks : Disjoint(b, new) /\ Disjoint(new, b)
    BY <1>2, <1>3, <1>4 DEF OutsideGap, Disjoint
  <1>7. InArena(new) /\ new.start % new.alignment = 0
    BY <1>2, <1>3 DEF InArena
  <1>8. BlocksDisjoint'
    BY <1>1, <1>6, <1>7 DEF ArenaInv, BlocksDisjoint
  <1> QED
    BY <1>1, <1>5, <1>8 DEF ArenaInv

\* A step keeps the invariant: allocations by the placement lemmas, and a
\* roll-back because it keeps only what its gap leaves alone.
LEMMA StepPreserves ==
    ASSUME SizesInRange, ArenaInv, [ArenaNext]_arenaVars
    PROVE ArenaInv'
  <1>1. /\ Base \in Nat /\ Capacity \in Nat /\ Sizes \subseteq Nat
        /\ front_offset \in Nat /\ back_offset \in Nat
        /\ front_offset <= back_offset /\ back_offset <= Capacity
        /\ Cursors(front_offset, back_offset)
    BY ArenaAssumption DEF ArenaInv, Cursors
  <1>2. ASSUME NEW size \in Sizes, NEW alignment \in Alignments,
               AllocateFront(size, alignment)
        PROVE ArenaInv'
    <2> DEFINE start == FrontStart(alignment)
    <2>1. /\ start \in Nat /\ start % alignment = 0
          /\ start >= Base + front_offset
          /\ Wrap(front_offset + FrontRequired(size, alignment))
               = start + size - Base
      BY <1>1, FrontPlacement
    <2>2. /\ front_offset' = start + size - Base
          /\ start + size - Base <= back_offset
          /\ back_offset' = back_offset /\ marker' = marker
          /\ HandOut(start, size, alignment)
      BY <1>2, <2>1 DEF AllocateFront, FrontFits
    <2> HIDE DEF start
    <2>3. /\ Cursors(front_offset', back_offset')
          /\ front_offset <= front_offset'
          /\ back_offset' <= back_offset
          /\ start + size <= Base + front_offset'
          /\ start + size <= Base + back_offset
      BY <1>1, <2>1, <2>2 DEF Cursors
    <2> QED
      BY <1>1, <2>1, <2>2, <2>3, HandOutPreserves
  <1>3. ASSUME NEW size \in Sizes, NEW alignment \in Alignments,
               AllocateBack(size, alignment)
        PROVE ArenaInv'
    <2> DEFINE start == BackStart(size, alignment)
    <2>1. /\ start \in Nat /\ start % alignment = 0
          /\ start >= Base + front_offset
          /\ start + size <= Base + back_offset
          /\ Wrap(start - Base) = start - Base
      BY <1>1, <1>3, BackPlacement DEF AllocateBack
    <2>2. /\ back_offset' = start - Base
          /\ front_offset' = front_offset /\ marker' = marker
          /\ HandOut(start, size, alignment)
      BY <1>3, <2>1 DEF AllocateBack
    <2> HIDE DEF start
    <2>3. /\ Cursors(front_offset', back_offset')
          /\ front_offset <= front_offset'
          /\ back_offset' <= back_offset
          /\ start >= Base + back_offset'
      BY <1>1, <2>1, <2>2 DEF Cursors
    <2> QED
      BY <1>1, <2>1, <2>2, <2>3, HandOutPreserves
  <1>4. CASE Mark
    BY <1>1, <1>4
    DEF Mark, CurrentMarker, ArenaInv, BlocksDisjoint
  <1>5. CASE Rollback
    <2>1. blocks' \subseteq blocks
      BY <1>5 DEF Rollback, Kept
    <2>2. \A b \in blocks' : OutsideGap(b, front_offset', back_offset')
      BY <1>5 DEF Rollback, Kept, OutsideGap
    <2>3. BlocksDisjoint'
      BY <2>1 DEF ArenaInv, BlocksDisjoint
    <2> QED
      BY <1>5, <2>1, <2>2, <2>3 DEF Rollback, ArenaInv
  <1>6. CASE ArenaReset
    BY <1>1, <1>6 DEF ArenaReset, ArenaInv, Cursors, BlocksDisjoint
  <1>7. CASE UNCHANGED arenaVars
    BY <1>7 DEF arenaVars, ArenaInv, BlocksDisjoint
  <1> QED
    BY <1>2, <1>3, <1>4, <1>5, <1>6, <1>7 DEF ArenaNext

\* BlocksDisjoint, checked by the run memory, for all values of the
\* constants: as long as no sum can wrap, blocks handed out by
\* StackAllocator and not given up are inside the buffer, aligned and
\* disjoint.
THEOREM BlocksStayDisjoint ==
    ASSUME SizesInRange
    PROVE ArenaSpec => []BlocksDisjoint
  <1>1. ArenaInv /\ [ArenaNext]_arenaVars => ArenaInv'
    BY StepPreserves
  <1>2. ArenaInv => BlocksDisjoint
    BY DEF ArenaInv
  <1> QED
    BY InitEstablishes, <1>1, <1>2, PTL DEF ArenaSpec

-----------------------------------------------------------------------------
(***************************************************************************)
(* The pool.                                                               *)
(***************************************************************************)

PoolTypes ==
    /\ next_free \in [Indices -> Indices \cup {kInvalidIndex}]
    /\ occupied \subseteq Indices
    /\ free_head \in Indices \cup {kInvalidIndex}
    /\ free_count \in Nat
    /\ calls \in Seq(Call)
    /\ cursor \in {kAlive} \cup 0 .. Slots
    /\ objects \subseteq Indices

\* The free list runs through p.
FreeList(p) ==
    /\ p \in [1 .. free_count -> Indices \ occupied]
    /\ \A i, j \in 1 .. free_count : p[i] = p[j] => i = j
    /\ free_head = IF free_count = 0 THEN kInvalidIndex ELSE p[1]
    /\ \A i \in 1 .. free_count :
         next_free[p[i]] = IF i = free_count THEN kInvalidIndex ELSE p[i + 1]
    /\ cursor = kAlive => \A s \in Indices \ occupied : \E i \in 1 .. free_count : p[i] = s

\* Each call in progress has a slot of its own, which it is making or has made
\* an object of; the calls of ~PoolAllocator are for the slot it has reached.
CallsInProgress ==
    /\ \A i, j \in DOMAIN calls : calls[i].slot = calls[j].slot => i = j
    /\ \A i \in DOMAIN calls :
         /\ calls[i].op = "construct" <=> calls[i].slot \notin objects
         /\ calls[i].slot \in occupied
         /\ calls[i].op = "construct" => cursor = kAlive
         /\ calls[i].op = "sweep" => calls[i].slot = cursor
    /\ \A s \in occupied :
         s \notin objects => \E i \in DOMAIN calls : calls[i].slot = s
    /\ objects \subseteq occupied

\* What ~PoolAllocator has passed is gone.
SweptAway == cursor # kAlive => \A s \in objects : cursor <= s

PoolInv ==
    /\ PoolTypes
    /\ \E p \in [1 .. free_count -> Indices] : FreeList(p)
    /\ CallsInProgress
    /\ SweptAway

LEMMA EnterFacts ==
    ASSUME calls \in Seq(Call), NEW op \in {"construct", "destroy", "sweep"},
           NEW slot \in Indices, Enter(op, slot)
    PROVE /\ calls' \in Seq(Call)
          /\ 1 \in DOMAIN calls' /\ calls'[1].op = op /\ calls'[1].slot = slot
          /\ \A i \in DOMAIN calls : i \in Nat \ {0} /\ i + 1 \in DOMAIN calls' /\ calls'[i + 1] = calls[i]
          /\ \A i \in DOMAIN calls' : /\ i \in Nat \ {0}
                                      /\ i # 1 => i - 1 \in DOMAIN calls /\ calls'[i] = calls[i - 1]
  <1> DEFINE c == [op |-> op, slot |-> slot]
  <1>1. calls' = <<c>> \o calls /\ c \in Call /\ c.op = op /\ c.slot = slot
    BY DEF Enter, Call
  <1> HIDE DEF c
  <1>2. Len(calls) \in Nat /\ DOMAIN calls = 1 .. Len(calls)
    BY LenProperties
  <1>3. <<c>> \in Seq(Call) /\ Len(<<c>>) = 1 /\ <<c>>[1] = c
    BY <1>1
  <1>4. /\ calls' \in Seq(Call) /\ Len(calls') = 1 + Len(calls)
        /\ \A i \in 1 .. Len(calls') : calls'[i] = IF i <= 1 THEN <<c>>[i] ELSE calls[i - 1]
    BY <1>1, <1>3, ConcatProperties
  <1>5. DOMAIN calls' = 1 .. (Len(calls) + 1)
    BY <1>2, <1>4, LenProperties
  <1>6. \A i \in 1 .. (Len(calls) + 1) : calls'[i] = IF i <= 1 THEN <<c>>[i] ELSE calls[i - 1]
    BY <1>2, <1>4
  <1>7. 1 \in DOMAIN calls' /\ calls'[1] = c
    BY <1>2, <1>3, <1>5, <1>6
  <1>8. \A i \in DOMAIN calls : i \in Nat \ {0} /\ i + 1 \in DOMAIN calls' /\ calls'[i + 1] = calls[i]
    BY <1>2, <1>5, <1>6
  <1>9. \A i \in DOMAIN calls' : /\ i \in Nat \ {0}
                                 /\ i # 1 => i - 1 \in DOMAIN calls /\ calls'[i] = calls[i - 1]
    BY <1>2, <1>5, <1>6
  <1> QED
    BY <1>1, <1>4, <1>7, <1>8, <1>9

LEMMA ReturnFacts ==
    ASSUME calls \in Seq(Call), NEW op, Returning(op), calls' = Tail(calls)
    PROVE /\ calls' \in Seq(Call)
          /\ 1 \in DOMAIN calls /\ Head(calls) = calls[1] /\ calls[1].op = op
          /\ calls[1].slot \in Indices
          /\ \A i \in DOMAIN calls : /\ i \in Nat \ {0}
                                     /\ i # 1 => i - 1 \in DOMAIN calls' /\ calls'[i - 1] = calls[i]
          /\ \A i \in DOMAIN calls' : /\ i \in Nat \ {0} /\ i + 1 # 1
                                      /\ i + 1 \in DOMAIN calls /\ calls'[i] = calls[i + 1]
  <1>1. Len(calls) \in Nat /\ DOMAIN calls = 1 .. Len(calls) /\ calls # <<>> /\ Len(calls) # 0
    BY LenProperties, EmptySeq DEF Returning
  <1>2. /\ calls' \in Seq(Call) /\ Len(calls') = Len(calls) - 1
        /\ \A i \in 1 .. Len(calls') : calls'[i] = calls[i + 1]
    BY <1>1
  <1>3. DOMAIN calls' = 1 .. (Len(calls) - 1)
    BY <1>1, <1>2, LenProperties
  <1>4. 1 \in DOMAIN calls /\ Head(calls) = calls[1] /\ calls[1] \in Call
    BY <1>1
  <1>5. \A i \in 1 .. (Len(calls) - 1) : calls'[i] = calls[i + 1]
    BY <1>1, <1>2
  <1>6. \A i \in DOMAIN calls : /\ i \in Nat \ {0}
                                /\ i # 1 => i - 1 \in DOMAIN calls' /\ calls'[i - 1] = calls[i]
    BY <1>1, <1>3, <1>5
  <1>7. \A i \in DOMAIN calls' : /\ i \in Nat \ {0} /\ i + 1 # 1
                                 /\ i + 1 \in DOMAIN calls /\ calls'[i] = calls[i + 1]
    BY <1>1, <1>3, <1>5
  <1> QED
    BY <1>2, <1>4, <1>6, <1>7 DEF Returning, Call

LEMMA PoolStarts == PoolInit => PoolInv
  <1> SUFFICES ASSUME PoolInit PROVE PoolInv
    OBVIOUS
  <1> USE PoolAssumption DEF PoolInit, kInvalidIndex, kAlive
  <1>1. PoolTypes
    <2>1. next_free \in [Indices -> Indices \cup {kInvalidIndex}] /\ free_head \in Indices \cup {kInvalidIndex}
      BY DEF Indices
    <2>2. calls \in Seq(Call)
      OBVIOUS
    <2> QED
      BY <2>1, <2>2 DEF PoolTypes
  <1>2. \E p \in [1 .. free_count -> Indices] : FreeList(p)
    <2> DEFINE p == [i \in 1 .. Slots |-> i - 1]
    <2>1. p \in [1 .. free_count -> Indices]
      BY DEF Indices
    <2>2. \A s \in Indices : s + 1 \in 1 .. Slots /\ p[s + 1] = s
      BY DEF Indices
    <2>3. FreeList(p)
      <3>1. \A i, j \in 1 .. free_count : p[i] = p[j] => i = j
        OBVIOUS
      <3>2. free_head = IF free_count = 0 THEN kInvalidIndex ELSE p[1]
        OBVIOUS
      <3>3. \A i \in 1 .. free_count :
              next_free[p[i]] = IF i = free_count THEN kInvalidIndex ELSE p[i + 1]
        BY DEF Indices
      <3>4. cursor = kAlive => \A s \in Indices \ occupied : \E i \in 1 .. free_count : p[i] = s
        BY <2>2
      <3>5. p \in [1 .. free_count -> Indices \ occupied]
        BY <2>1
      <3> HIDE DEF p
      <3> QED
        BY <3>1, <3>2, <3>3, <3>4, <3>5 DEF FreeList
    <2> HIDE DEF p
    <2> QED
      BY <2>1, <2>3
  <1>3. CallsInProgress /\ SweptAway
    BY DEF CallsInProgress, SweptAway
  <1> QED
    BY <1>1, <1>2, <1>3 DEF PoolInv

\* Taking the head of the list leaves the rest of it.
LEMMA FreeListAfterAllocate ==
    ASSUME PoolInv, Allocate
    PROVE \E p \in [1 .. free_count' -> Indices] : FreeList(p)'
  <1>1. PICK p \in [1 .. free_count -> Indices] : FreeList(p)
    BY DEF PoolInv
  <1>2. /\ next_free \in [Indices -> Indices \cup {kInvalidIndex}] /\ occupied \subseteq Indices
        /\ free_count \in Nat /\ free_head # kInvalidIndex /\ cursor = kAlive
    BY DEF PoolInv, PoolTypes, Allocate
  <1>3. free_count # 0 /\ free_head = p[1] /\ p[1] \in Indices \ occupied
    BY <1>1, <1>2 DEF FreeList
  <1>4. /\ free_head' = next_free[p[1]] /\ next_free' = [next_free EXCEPT ![p[1]] = kInvalidIndex]
        /\ occupied' = occupied \cup {p[1]} /\ free_count' = free_count - 1 /\ cursor' = cursor
    BY <1>3 DEF Allocate
  <1> DEFINE q == [i \in 1 .. (free_count - 1) |-> p[i + 1]]
  <1>5. \A i \in 1 .. (free_count - 1) :
          /\ i + 1 \in 1 .. free_count /\ i + 1 # 1 /\ q[i] = p[i + 1]
          /\ p[i + 1] \in Indices \ occupied /\ p[i + 1] # p[1]
    BY <1>1, <1>2, <1>3 DEF FreeList
  <1>6. q \in [1 .. free_count' -> Indices \ occupied']
    BY <1>4, <1>5
  <1> HIDE DEF q
  <1>7. \A i, j \in 1 .. free_count' : q[i] = q[j] => i = j
    BY <1>1, <1>2, <1>4, <1>5 DEF FreeList
  <1>8. free_head' = IF free_count' = 0 THEN kInvalidIndex ELSE q[1]
    BY <1>1, <1>2, <1>3, <1>4, <1>5 DEF FreeList
  <1>9. ASSUME NEW i \in 1 .. free_count'
        PROVE next_free'[q[i]] = IF i = free_count' THEN kInvalidIndex ELSE q[i + 1]
    <2>1. next_free'[q[i]] = next_free[p[i + 1]]
      BY <1>2, <1>4, <1>5
    <2>2. next_free[p[i + 1]] = IF i + 1 = free_count THEN kInvalidIndex ELSE p[(i + 1) + 1]
      BY <1>1, <1>4, <1>5 DEF FreeList
    <2>3. i # free_count' => q[i + 1] = p[(i + 1) + 1]
      BY <1>2, <1>4, <1>5
    <2> QED
      BY <1>2, <1>4, <2>1, <2>2, <2>3
  <1>10. \A s \in Indices \ occupied' : \E i \in 1 .. free_count' : q[i] = s
    <2> SUFFICES ASSUME NEW s \in Indices \ occupied'
                 PROVE \E i \in 1 .. free_count' : q[i] = s
      OBVIOUS
    <2>1. PICK k \in 1 .. free_count : p[k] = s
      BY <1>1, <1>2, <1>4 DEF FreeList
    <2>2. k # 1
      BY <1>4, <2>1
    <2>3. k - 1 \in 1 .. free_count' /\ (k - 1) + 1 = k
      BY <1>2, <1>4, <2>2
    <2> QED
      BY <1>4, <1>5, <2>1, <2>3
  <1> QED
    BY <1>6, <1>7, <1>8, <1>9, <1>10 DEF FreeList

\* The slot of the object that is gone is linked in front of the list.
LEMMA FreeListAfterDestroyed ==
    ASSUME PoolInv, Destroyed
    PROVE \E p \in [1 .. free_count' -> Indices] : FreeList(p)'
  <1>1. PICK p \in [1 .. free_count -> Indices] : FreeList(p)
    BY DEF PoolInv
  <1> DEFINE slot == Head(calls).slot
  <1>2. /\ next_free \in [Indices -> Indices \cup {kInvalidIndex}] /\ occupied \subseteq Indices
        /\ free_count \in Nat
    BY DEF PoolInv, PoolTypes
  <1>3. slot \in Indices /\ slot \in occupied
    BY ReturnFacts DEF PoolInv, PoolTypes, CallsInProgress, Destroyed
  <1>4. /\ next_free' = [next_free EXCEPT ![slot] = free_head] /\ free_head' = slot
        /\ occupied' = occupied \ {slot} /\ free_count' = free_count + 1 /\ cursor' = cursor
    BY DEF Destroyed
  <1> HIDE DEF slot
  <1> DEFINE q == [i \in 1 .. (free_count + 1) |-> IF i = 1 THEN slot ELSE p[i - 1]]
  <1>5. /\ 1 \in 1 .. free_count' /\ q[1] = slot
        /\ \A i \in 1 .. free_count :
             /\ i + 1 \in 1 .. free_count' /\ i + 1 # 1 /\ q[i + 1] = p[i]
             /\ p[i] \in Indices \ occupied /\ p[i] # slot
        /\ \A i \in 1 .. free_count' : i # 1 => i - 1 \in 1 .. free_count /\ q[i] = p[i - 1]
    BY <1>1, <1>2, <1>3, <1>4 DEF FreeList
  <1>6. q \in [1 .. free_count' -> Indices \ occupied']
    BY <1>3, <1>4, <1>5
  <1> HIDE DEF q
  <1>7. ASSUME NEW i \in 1 .. free_count', NEW j \in 1 .. free_count', q[i] = q[j]
        PROVE i = j
    <2>1. CASE i = 1 \/ j = 1
      BY <1>5, <1>7, <2>1
    <2>2. CASE i # 1 /\ j # 1
      <3>1. i - 1 = j - 1
        BY <1>1, <1>5, <1>7, <2>2 DEF FreeList
      <3> QED
        BY <1>2, <1>4, <3>1
    <2> QED
      BY <2>1, <2>2
  <1>8. free_head' = IF free_count' = 0 THEN kInvalidIndex ELSE q[1]
    BY <1>2, <1>4, <1>5
  <1>9. ASSUME NEW i \in 1 .. free_count'
        PROVE next_free'[q[i]] = IF i = free_count' THEN kInvalidIndex ELSE q[i + 1]
    <2>1. CASE i = 1
      <3>1. next_free'[q[1]] = free_head
        BY <1>2, <1>3, <1>4, <1>5
      <3>2. free_head = IF free_count = 0 THEN kInvalidIndex ELSE p[1]
        BY <1>1 DEF FreeList
      <3>3. free_count # 0 => q[1 + 1] = p[1]
        BY <1>2, <1>5
      <3> QED
        BY <1>2, <1>4, <2>1, <3>1, <3>2, <3>3
    <2>2. CASE i # 1
      <3>1. i - 1 \in 1 .. free_count /\ q[i] = p[i - 1] /\ i = (i - 1) + 1 /\ p[i - 1] # slot
            /\ p[i - 1] \in Indices
        BY <1>2, <1>4, <1>5, <2>2
      <3>2. next_free'[q[i]] = next_free[p[i - 1]]
        BY <1>2, <1>4, <3>1
      <3>3. next_free[p[i - 1]] = IF i - 1 = free_count THEN kInvalidIndex ELSE p[(i - 1) + 1]
        BY <1>1, <3>1 DEF FreeList
      <3>4. i # free_count' => i \in 1 .. free_count /\ q[i + 1] = p[i]
        BY <1>2, <1>4, <1>5, <3>1
      <3> QED
        BY <1>2, <1>4, <3>1, <3>2, <3>3, <3>4
    <2> QED
      BY <2>1, <2>2
  <1>10. cursor' = kAlive => \A s \in Indices \ occupied' : \E i \in 1 .. free_count' : q[i] = s
    <2> SUFFICES ASSUME cursor = kAlive, NEW s \in Indices \ occupied'
                 PROVE \E i \in 1 .. free_count' : q[i] = s
      BY <1>4
    <2>1. CASE s = slot
      BY <1>5, <2>1
    <2>2. CASE s # slot
      <3>1. PICK k \in 1 .. free_count : p[k] = s
        BY <1>1, <1>4, <2>2 DEF FreeList
      <3> QED
        BY <1>5, <3>1
    <2> QED
      BY <2>1, <2>2
  <1> QED
    BY <1>6, <1>7, <1>8, <1>9, <1>10 DEF FreeList

\* A step that leaves the list alone and marks no slot occupied keeps it.
LEMMA FreeListUntouched ==
    ASSUME PoolInv, UNCHANGED <<next_free, free_head, free_count>>, occupied' \subseteq occupied,
           cursor' = kAlive => cursor = kAlive /\ occupied' = occupied
    PROVE \E p \in [1 .. free_count' -> Indices] : FreeList(p)'
  <1>1. PICK p \in [1 .. free_count -> Indices] : FreeList(p)
    BY DEF PoolInv
  <1>2. FreeList(p)'
    BY <1>1 DEF FreeList
  <1> QED
    BY <1>2

LEMMA PoolTypesPreserved ==
    ASSUME PoolInv, PoolNext PROVE PoolTypes'
  <1>0. PoolTypes /\ CallsInProgress
    BY DEF PoolInv
  <1>1. CASE Allocate
    <2>1. calls' \in Seq(Call)
      BY <1>0, <1>1, EnterFacts DEF PoolTypes, Allocate
    <2>2. free_count # 0
      BY <1>1 DEF PoolInv, FreeList, Allocate
    <2> QED
      BY <1>0, <1>1, <2>1, <2>2 DEF PoolTypes, Allocate
  <1>2. CASE Constructed
    BY <1>0, <1>2, ReturnFacts DEF PoolTypes, Constructed
  <1>3. ASSUME NEW slot \in Indices, Deallocate(slot) PROVE PoolTypes'
    <2>1. calls' \in Seq(Call)
      BY <1>0, <1>3, EnterFacts DEF PoolTypes, Deallocate
    <2> QED
      BY <1>0, <1>3, <2>1 DEF PoolTypes, Deallocate
  <1>4. CASE Destroyed
    BY <1>0, <1>4, ReturnFacts DEF PoolTypes, Destroyed
  <1>5. CASE BeginSweep
    BY <1>0, <1>5, PoolAssumption DEF PoolTypes, BeginSweep
  <1>6. CASE SweepObject
    <2>1. calls' \in Seq(Call)
      BY <1>0, <1>6, EnterFacts DEF PoolTypes, SweepObject, Sweeping
    <2> QED
      BY <1>0, <1>6, <2>1 DEF PoolTypes, SweepObject
  <1>7. CASE SweptObject
    <2>1. calls' \in Seq(Call) /\ cursor \in Indices
      BY <1>0, <1>7, ReturnFacts DEF PoolTypes, SweptObject, CallsInProgress
    <2>2. cursor + 1 \in 0 .. Slots
      BY <2>1, PoolAssumption DEF Indices
    <2> QED
      BY <1>0, <1>7, <2>1, <2>2 DEF PoolTypes, SweptObject
  <1>8. CASE SweepPastFree
    <2>1. cursor + 1 \in 0 .. Slots
      BY <1>8, PoolAssumption DEF SweepPastFree, Sweeping, Indices
    <2> QED
      BY <1>0, <1>8, <2>1 DEF PoolTypes, SweepPastFree
  <1> QED
    BY <1>1, <1>2, <1>3, <1>4, <1>5, <1>6, <1>7, <1>8 DEF PoolNext

\* A new call, on a slot no call in progress has.
LEMMA CallsAfterEnter ==
    ASSUME PoolTypes, CallsInProgress, NEW op \in {"construct", "destroy", "sweep"},
           NEW slot \in Indices, Enter(op, slot),
           \A i \in DOMAIN calls : calls[i].slot # slot,
           objects' = objects, occupied' = occupied \cup {slot}, cursor' = cursor,
           op = "construct" <=> slot \notin objects,
           op = "construct" => cursor = kAlive,
           op = "sweep" => slot = cursor,
           slot \in occupied \/ op = "construct"
    PROVE CallsInProgress'
  <1>1. /\ 1 \in DOMAIN calls' /\ calls'[1].op = op /\ calls'[1].slot = slot
        /\ \A i \in DOMAIN calls : i \in Nat \ {0} /\ i + 1 \in DOMAIN calls' /\ calls'[i + 1] = calls[i]
        /\ \A i \in DOMAIN calls' : /\ i \in Nat \ {0}
                                    /\ i # 1 => i - 1 \in DOMAIN calls /\ calls'[i] = calls[i - 1]
    BY EnterFacts DEF PoolTypes
  <1>2. ASSUME NEW i \in DOMAIN calls', NEW j \in DOMAIN calls', calls'[i].slot = calls'[j].slot
        PROVE i = j
    <2>1. CASE i = 1 \/ j = 1
      BY <1>1, <1>2, <2>1
    <2>2. CASE i # 1 /\ j # 1
      <3>1. i - 1 = j - 1
        BY <1>1, <1>2, <2>2 DEF CallsInProgress
      <3> QED
        BY <1>1, <3>1
    <2> QED
      BY <2>1, <2>2
  <1>3. ASSUME NEW i \in DOMAIN calls'
        PROVE /\ calls'[i].op = "construct" <=> calls'[i].slot \notin objects'
              /\ calls'[i].slot \in occupied'
              /\ calls'[i].op = "construct" => cursor' = kAlive
              /\ calls'[i].op = "sweep" => calls'[i].slot = cursor'
    <2>1. CASE i = 1
      BY <1>1, <2>1
    <2>2. CASE i # 1
      BY <1>1, <2>2 DEF CallsInProgress
    <2> QED
      BY <2>1, <2>2
  <1>4. \A s \in occupied' : s \notin objects' => \E i \in DOMAIN calls' : calls'[i].slot = s
    BY <1>1 DEF CallsInProgress
  <1>5. objects' \subseteq occupied'
    BY DEF CallsInProgress
  <1> QED
    BY <1>2, <1>3, <1>4, <1>5 DEF CallsInProgress

\* The end of the innermost call: its slot holds an object now, or is free.
LEMMA CallsAfterReturn ==
    ASSUME PoolTypes, CallsInProgress, NEW op \in {"construct", "destroy", "sweep"},
           Returning(op), calls' = Tail(calls),
           \/ objects' = objects \cup {Head(calls).slot} /\ occupied' = occupied
           \/ objects' = objects \ {Head(calls).slot} /\ occupied' = occupied \ {Head(calls).slot},
           \/ cursor' = cursor
           \/ op = "sweep" /\ cursor # kAlive
    PROVE CallsInProgress'
  <1> DEFINE slot == calls[1].slot
  <1>1. /\ 1 \in DOMAIN calls /\ Head(calls) = calls[1] /\ calls[1].op = op
        /\ \A i \in DOMAIN calls : /\ i \in Nat \ {0}
                                   /\ i # 1 => i - 1 \in DOMAIN calls' /\ calls'[i - 1] = calls[i]
        /\ \A i \in DOMAIN calls' : /\ i \in Nat \ {0} /\ i + 1 # 1
                                    /\ i + 1 \in DOMAIN calls /\ calls'[i] = calls[i + 1]
    BY ReturnFacts DEF PoolTypes
  <1>2. slot \in occupied
    BY <1>1 DEF CallsInProgress
  <1>3. \A i \in DOMAIN calls' : calls'[i].slot # slot
    BY <1>1 DEF CallsInProgress
  <1>4. ASSUME NEW i \in DOMAIN calls', NEW j \in DOMAIN calls', calls'[i].slot = calls'[j].slot
        PROVE i = j
    <2>1. i + 1 = j + 1
      BY <1>1, <1>4 DEF CallsInProgress
    <2> QED
      BY <1>1, <2>1
  <1>5. ASSUME NEW i \in DOMAIN calls'
        PROVE /\ calls'[i].op = "construct" <=> calls'[i].slot \notin objects'
              /\ calls'[i].slot \in occupied'
              /\ calls'[i].op = "construct" => cursor' = kAlive
              /\ calls'[i].op = "sweep" => calls'[i].slot = cursor'
    <2>1. /\ i + 1 \in DOMAIN calls /\ calls'[i] = calls[i + 1] /\ calls'[i].slot # slot
          /\ i \in Nat \ {0}
      BY <1>1, <1>3
    <2>2. /\ calls'[i].op = "construct" <=> calls'[i].slot \notin objects'
          /\ calls'[i].slot \in occupied'
      BY <1>1, <2>1 DEF CallsInProgress
    <2>3. CASE cursor' = cursor
      BY <2>1, <2>2, <2>3 DEF CallsInProgress
    <2>4. CASE op = "sweep" /\ cursor # kAlive
      <3>1. calls[1].slot = cursor
        BY <1>1, <2>4 DEF CallsInProgress
      <3>2. calls[i + 1].op # "sweep" /\ calls[i + 1].op # "construct"
        BY <2>1, <2>4, <3>1 DEF CallsInProgress
      <3> QED
        BY <2>1, <2>2, <3>2
    <2> QED
      BY <2>3, <2>4
  <1>6. \A s \in occupied' : s \notin objects' => \E i \in DOMAIN calls' : calls'[i].slot = s
    <2> SUFFICES ASSUME NEW s \in occupied', s \notin objects'
                 PROVE \E i \in DOMAIN calls' : calls'[i].slot = s
      OBVIOUS
    <2>1. s \in occupied /\ s \notin objects /\ s # slot
      BY <1>1
    <2>2. PICK k \in DOMAIN calls : calls[k].slot = s
      BY <2>1 DEF CallsInProgress
    <2> QED
      BY <1>1, <2>1, <2>2
  <1>7. objects' \subseteq occupied'
    BY <1>1, <1>2 DEF CallsInProgress
  <1> QED
    BY <1>4, <1>5, <1>6, <1>7 DEF CallsInProgress

LEMMA PoolStepPreserves == PoolInv /\ [PoolNext]_poolVars => PoolInv'
  <1> SUFFICES ASSUME PoolInv, [PoolNext]_poolVars PROVE PoolInv'
    OBVIOUS
  <1>0. PoolTypes /\ CallsInProgress /\ SweptAway
    BY DEF PoolInv
  <1>1. CASE Allocate
    <2>1. PICK p \in [1 .. free_count -> Indices] : FreeList(p)
      BY DEF PoolInv
    <2>2. free_head \in Indices \ occupied
      BY <1>0, <1>1, <2>1 DEF FreeList, Allocate, PoolTypes
    <2>3. CallsInProgress'
      BY <1>0, <1>1, <2>2, CallsAfterEnter DEF Allocate, CallsInProgress
    <2> QED
      BY <1>0, <1>1, <2>3, PoolTypesPreserved, FreeListAfterAllocate
      DEF PoolInv, PoolNext, SweptAway, Allocate
  <1>2. CASE Constructed
    <2>1. CallsInProgress'
      <3>1. /\ Returning("construct") /\ calls' = Tail(calls) /\ cursor' = cursor
            /\ objects' = objects \cup {Head(calls).slot} /\ occupied' = occupied
        BY <1>2 DEF Constructed
      <3> QED
        BY <1>0, <3>1, CallsAfterReturn
    <2>2. cursor = kAlive
      BY <1>0, <1>2, ReturnFacts DEF Constructed, CallsInProgress, PoolTypes
    <2>3. SweptAway'
      BY <1>2, <2>2 DEF Constructed, SweptAway
    <2> QED
      BY <1>2, <2>1, <2>3, PoolTypesPreserved, FreeListUntouched DEF PoolInv, PoolNext, Constructed
  <1>3. ASSUME NEW slot \in Indices, Deallocate(slot) PROVE PoolInv'
    <2>1. \A i \in DOMAIN calls : calls[i].slot # slot
      BY <1>0, <1>3 DEF Deallocate, BeingDestroyed, CallsInProgress
    <2>2. CallsInProgress'
      <3>1. occupied' = occupied \cup {slot}
        BY <1>3 DEF Deallocate
      <3> QED
        BY <1>0, <1>3, <2>1, <3>1, CallsAfterEnter DEF Deallocate
    <2> QED
      BY <1>0, <1>3, <2>2, PoolTypesPreserved, FreeListUntouched
      DEF PoolInv, PoolNext, Deallocate, SweptAway
  <1>4. CASE Destroyed
    <2>1. CallsInProgress'
      <3>1. /\ Returning("destroy") /\ calls' = Tail(calls) /\ cursor' = cursor
            /\ objects' = objects \ {Head(calls).slot}
            /\ occupied' = occupied \ {Head(calls).slot}
        BY <1>4 DEF Destroyed
      <3> QED
        BY <1>0, <3>1, CallsAfterReturn
    <2>2. SweptAway'
      BY <1>0, <1>4 DEF Destroyed, SweptAway
    <2> QED
      BY <1>4, <2>1, <2>2, PoolTypesPreserved, FreeListAfterDestroyed DEF PoolInv, PoolNext
  <1>5. CASE BeginSweep
    <2>1. CallsInProgress' /\ SweptAway'
      BY <1>0, <1>5 DEF BeginSweep, CallsInProgress, SweptAway, PoolTypes, Indices
    <2> QED
      BY <1>5, <2>1, PoolTypesPreserved, FreeListUntouched DEF PoolInv, PoolNext, BeginSweep, kAlive
  <1>6. CASE SweepObject
    <2>1. cursor \in Indices /\ calls = <<>> /\ cursor \in occupied /\ cursor \in objects
      BY <1>0, <1>6 DEF SweepObject, Sweeping, CallsInProgress
    <2>2. CallsInProgress'
      <3>1. occupied' = occupied \cup {cursor}
        BY <1>6, <2>1 DEF SweepObject
      <3> QED
        BY <1>0, <1>6, <2>1, <3>1, CallsAfterEnter DEF SweepObject
    <2> QED
      BY <1>0, <1>6, <2>2, PoolTypesPreserved, FreeListUntouched
      DEF PoolInv, PoolNext, SweepObject, SweptAway
  <1>7. CASE SweptObject
    <2>1. Head(calls).slot = cursor /\ cursor \in Indices
      BY <1>0, <1>7, ReturnFacts DEF SweptObject, CallsInProgress, PoolTypes
    <2>2. cursor # kAlive /\ cursor + 1 # kAlive /\ cursor \in Nat
      BY <2>1 DEF Indices, kAlive
    <2>3. CallsInProgress'
      BY <1>0, <1>7, <2>1, <2>2, CallsAfterReturn DEF SweptObject
    <2>4. SweptAway'
      BY <1>0, <1>7, <2>2 DEF SweptObject, SweptAway, PoolTypes, Indices
    <2> QED
      BY <1>7, <2>2, <2>3, <2>4, PoolTypesPreserved, FreeListUntouched
      DEF PoolInv, PoolNext, SweptObject
  <1>8. CASE SweepPastFree
    <2>1. cursor \in Indices /\ calls = <<>> /\ cursor \notin objects
      BY <1>0, <1>8 DEF SweepPastFree, Sweeping, CallsInProgress
    <2>2. cursor # kAlive /\ cursor + 1 # kAlive /\ cursor \in Nat
      BY <2>1 DEF Indices, kAlive
    <2>3. SweptAway'
      BY <1>0, <1>8, <2>1, <2>2 DEF SweepPastFree, SweptAway, PoolTypes, Indices
    <2>4. CallsInProgress'
      BY <1>0, <1>8, <2>1 DEF SweepPastFree, CallsInProgress
    <2> QED
      BY <1>8, <2>2, <2>3, <2>4, PoolTypesPreserved, FreeListUntouched
      DEF PoolInv, PoolNext, SweepPastFree
  <1>9. CASE UNCHANGED poolVars
    BY <1>9 DEF poolVars, PoolInv, PoolTypes, FreeList, CallsInProgress, SweptAway
  <1> QED
    BY <1>1, <1>2, <1>3, <1>4, <1>5, <1>6, <1>7, <1>8, <1>9 DEF PoolNext

\* A set of naturals that is not empty has a least element.
LEMMA LeastNatural ==
  ASSUME NEW S \in SUBSET Nat, S # {}
  PROVE  \E m \in S : \A k \in S : m <= k
  <1>1. IsWellFoundedOn({ss \in Nat \X Nat : ss[1] < ss[2]}, Nat)
  BY NatLessThanWellFounded DEF OpToRel
  <1>2. PICK m \in S : \A k \in S : ~(<<k, m>> \in {ss \in Nat \X Nat : ss[1] < ss[2]})
  BY <1>1, WFMin, Zenon
  <1>3. ASSUME NEW k \in S PROVE m <= k
  <2>1. <<k, m>> \in Nat \X Nat /\ <<k, m>>[1] = k /\ <<k, m>>[2] = m
    OBVIOUS
  <2>2. ~(k < m)
    BY <1>2, <2>1
  <2> QED BY <2>2
  <1> QED BY <1>3

\* The recursive function of PoolExact follows the path: were it to leave it,
\* there would be a first number of links at which it does.
LEMMA FreeSlotsOnPath ==
    ASSUME PoolTypes, NEW p \in [1 .. free_count -> Indices], FreeList(p)
    PROVE \A n \in Nat : FreeSlot[n] = IF n < free_count THEN p[n + 1] ELSE kInvalidIndex
  <1> DEFINE g == [n \in Nat |-> IF n < free_count THEN p[n + 1] ELSE kInvalidIndex]
  <1>1. \A i \in 1 .. free_count : p[i] \in Indices /\ p[i] # kInvalidIndex
    BY DEF Indices, kInvalidIndex
  <1>2. ASSUME NEW n \in Nat
        PROVE g[n] = IF n = 0 THEN free_head
                     ELSE IF g[n - 1] = kInvalidIndex THEN kInvalidIndex
                     ELSE next_free[g[n - 1]]
    <2>1. CASE n = 0
      BY <2>1 DEF FreeList, PoolTypes
    <2>2. CASE n # 0 /\ n - 1 < free_count
      <3>1. n \in 1 .. free_count /\ n - 1 \in Nat /\ g[n - 1] = p[n]
        BY <2>2 DEF PoolTypes
      <3>2. g[n] = IF n = free_count THEN kInvalidIndex ELSE p[n + 1]
        BY <2>2 DEF PoolTypes
      <3> HIDE DEF g
      <3> QED
        BY <1>1, <2>2, <3>1, <3>2 DEF FreeList
    <2>3. CASE n # 0 /\ ~(n - 1 < free_count)
      BY <2>3 DEF PoolTypes
    <2> QED
      BY <2>1, <2>2, <2>3
  <1>3. g = [n \in Nat |-> IF n = 0 THEN free_head
                            ELSE IF g[n - 1] = kInvalidIndex THEN kInvalidIndex
                            ELSE next_free[g[n - 1]]]
    BY <1>2
  <1>4. \E f : f = [n \in Nat |-> IF n = 0 THEN free_head
                                  ELSE IF f[n - 1] = kInvalidIndex THEN kInvalidIndex
                                  ELSE next_free[f[n - 1]]]
    BY <1>3
  <1>5. FreeSlot = [n \in Nat |-> IF n = 0 THEN free_head
                                  ELSE IF FreeSlot[n - 1] = kInvalidIndex THEN kInvalidIndex
                                  ELSE next_free[FreeSlot[n - 1]]]
    BY <1>4 DEF FreeSlot
  <1>6. \A n \in Nat : FreeSlot[n] = IF n = 0 THEN free_head
                                     ELSE IF FreeSlot[n - 1] = kInvalidIndex THEN kInvalidIndex
                                     ELSE next_free[FreeSlot[n - 1]]
    BY <1>5
  <1> DEFINE Off == {n \in Nat : FreeSlot[n] # g[n]}
  <1>7. Off = {}
    <2> SUFFICES ASSUME Off # {} PROVE FALSE
      OBVIOUS
    <2>1. PICK m \in Off : \A k \in Off : m <= k
      BY LeastNatural
    <2>2. m # 0 /\ m \in Nat
      BY <1>2, <1>6, <2>1
    <2>3. m - 1 \in Nat /\ ~(m <= m - 1)
      BY <2>2
    <2>4. FreeSlot[m - 1] = g[m - 1]
      BY <2>1, <2>3
    <2> HIDE DEF g
    <2> QED
      BY <1>2, <1>6, <2>1, <2>2, <2>4
  <1> QED
    BY <1>7

LEMMA IntervalCount ==
    ASSUME NEW n \in Nat
    PROVE IsFiniteSet(1 .. n) /\ Cardinality(1 .. n) = n
  <1>1. IsFiniteSet(1 .. n) /\ Cardinality(1 .. n) = IF 1 > n THEN 0 ELSE n - 1 + 1
    BY FS_Interval
  <1> QED
    BY <1>1

\* Each call in progress has a slot of its own, so there are as many.
LEMMA CallsCounted ==
    ASSUME PoolTypes, CallsInProgress
    PROVE Cardinality(BeingDestroyed \cup UnderConstruction) = Len(calls)
  <1>0. Len(calls) \in Nat /\ DOMAIN calls = 1 .. Len(calls) /\ \A i \in DOMAIN calls : calls[i] \in Call
    BY LenProperties, ElementOfSeq DEF PoolTypes
  <1> DEFINE S == BeingDestroyed \cup UnderConstruction
             f == [i \in 1 .. Len(calls) |-> calls[i].slot]
  <1>2. S = {calls[i].slot : i \in 1 .. Len(calls)}
    BY <1>0 DEF BeingDestroyed, UnderConstruction
  <1>3. f \in Injection(1 .. Len(calls), S) /\ f \in Surjection(1 .. Len(calls), S)
    BY <1>0, <1>2 DEF Injection, IsInjective, Surjection, CallsInProgress
  <1>4. IsFiniteSet(1 .. Len(calls)) /\ Cardinality(1 .. Len(calls)) = Len(calls)
    BY <1>0, IntervalCount
  <1> HIDE DEF S, f
  <1>5. Cardinality(S) = Len(calls)
    BY <1>3, <1>4, FS_Surjection
  <1> QED
    BY <1>5 DEF S

LEMMA FreeCounted ==
    ASSUME PoolTypes, NEW p \in [1 .. free_count -> Indices], FreeList(p)
    PROVE LET free == {FreeSlot[n] : n \in 0 .. free_count - 1} IN
          /\ free = {p[i] : i \in 1 .. free_count}
          /\ Cardinality(free) = free_count
  <1> DEFINE free == {FreeSlot[n] : n \in 0 .. free_count - 1}
  <1>1. free_count \in Nat
    BY DEF PoolTypes
  <1>2. \A n \in 0 .. free_count - 1 : n + 1 \in 1 .. free_count /\ FreeSlot[n] = p[n + 1]
    BY <1>1, FreeSlotsOnPath
  <1>3. \A i \in 1 .. free_count : i - 1 \in 0 .. free_count - 1 /\ FreeSlot[i - 1] = p[i]
    BY <1>1, FreeSlotsOnPath
  <1>4. free = {p[i] : i \in 1 .. free_count}
    BY <1>2, <1>3
  <1> HIDE DEF free
  <1>5. p \in Injection(1 .. free_count, free) /\ p \in Surjection(1 .. free_count, free)
    <2>1. p \in [1 .. free_count -> free]
      BY <1>4
    <2>2. \A i, j \in 1 .. free_count : p[i] = p[j] => i = j
      BY DEF FreeList
    <2> QED
      BY <1>4, <2>1, <2>2 DEF Injection, IsInjective, Surjection
  <1>6. IsFiniteSet(1 .. free_count) /\ Cardinality(1 .. free_count) = free_count
    BY <1>1, IntervalCount
  <1>7. Cardinality(free) = free_count
    BY <1>5, <1>6, FS_Surjection
  <1> QED
    BY <1>4, <1>7 DEF free

\* PoolExact, checked by the run memory, for any number of slots and any depth
\* of nested calls: the free list runs through every slot that is not occupied,
\* once, and has free_count of them, whatever constructors and destructors do to
\* the pool; every occupied slot is accounted for; ~PoolAllocator leaves no object.
THEOREM PoolStaysExact == PoolSpec => []PoolExact
  <1>1. PoolInv => PoolExact
    <2> SUFFICES ASSUME PoolInv PROVE PoolExact
      OBVIOUS
    <2>0. PoolTypes /\ CallsInProgress /\ SweptAway /\ free_count \in Nat
      BY DEF PoolInv, PoolTypes
    <2>1. PICK p \in [1 .. free_count -> Indices] : FreeList(p)
      BY DEF PoolInv
    <2> DEFINE free == {FreeSlot[n] : n \in 0 .. free_count - 1}
    <2>2. FreeSlot[free_count] = kInvalidIndex
      BY <2>0, <2>1, FreeSlotsOnPath
    <2>3. free = {p[i] : i \in 1 .. free_count} /\ Cardinality(free) = free_count
      BY <2>0, <2>1, FreeCounted
    <2> HIDE DEF free
    <2>4. free \subseteq Indices \ occupied
      BY <2>1, <2>3 DEF FreeList
    <2>5. cursor = kAlive => free = Indices \ occupied
      BY <2>1, <2>3, <2>4 DEF FreeList
    <2>6. occupied = objects \cup UnderConstruction /\ BeingDestroyed \subseteq objects
      BY <2>0 DEF CallsInProgress, UnderConstruction, BeingDestroyed
    <2>7. cursor = Slots => objects = {}
      BY <2>0, PoolAssumption DEF SweptAway, PoolTypes, Indices, kAlive
    <2>8. Cardinality(BeingDestroyed \cup UnderConstruction) = Len(calls)
      BY <2>0, CallsCounted
    <2> QED
      BY <2>2, <2>3, <2>4, <2>5, <2>6, <2>7, <2>8 DEF PoolExact, free
  <1> QED
    BY <1>1, PoolStarts, PoolStepPreserves, PTL DEF PoolSpec

-----------------------------------------------------------------------------
(* The loads of the resource manager.                                      *)

IInv == TypeOK /\ NumbersAgree /\ OneFuture

\* The resource manager starts without a future.
LEMMA LoadsInitEstablishes == Init => IInv
  BY LoadsAssumption
  DEF Init, IInv, TypeOK, NumbersAgree, OneFuture, Futures, NoFuture, NoHandle, Alive, Loading,
      Running, Finished

\* Every step keeps the variables in their ranges.
LEMMA TypePreserved == TypeOK /\ NumbersAgree /\ [Next]_vars => TypeOK'
<1> SUFFICES ASSUME TypeOK, NumbersAgree, [Next]_vars PROVE TypeOK'
  OBVIOUS
<1> USE LoadsAssumption DEF TypeOK, Futures, NoFuture, Running, Finished
<1>1. CASE UNCHANGED vars
  BY <1>1 DEF vars
<1>2. ASSUME NEW c \in Clients, ClientStep(c) PROVE TypeOK'
  <2>1. ASSUME NEW p \in Paths, LoadShared(c, p) PROVE TypeOK'
    BY <2>1 DEF LoadShared, Lock
  <2>2. ASSUME NEW p \in Paths, LoadMissed(c, p) PROVE TypeOK'
    BY <2>2 DEF LoadMissed
  <2>3. CASE ScheduleStages(c)
    BY <2>3 DEF ScheduleStages
  <2>4. CASE Store(c)
    BY <2>4 DEF Store, NumbersAgree
  <2>5. ASSUME NEW f \in Futures, Drop(c, f) PROVE TypeOK'
    BY <2>5 DEF Drop
  <2> QED
    BY <1>2, <2>1, <2>2, <2>3, <2>4, <2>5 DEF ClientStep
<1>3. ASSUME NEW f \in Futures, RunStage(f) PROVE TypeOK'
  <2>1. UNCHANGED <<client, wanted, made, held, cache, path, lookups, raced>>
    BY <1>3 DEF RunStage
  <2>2. stage' \in [Futures -> {"none"} \cup Running \cup Finished]
    BY <1>3 DEF RunStage, Read, Decode, AllocateHandleLocked, UploadFails
  <2>3. \/ UNCHANGED <<id, next_handle_id_>>
        \/ id' = [id EXCEPT ![f] = next_handle_id_] /\ next_handle_id_' = next_handle_id_ + 1
    BY <1>3 DEF RunStage, Read, Decode, AllocateHandleLocked, UploadFails
  <2>4. id' \in [Futures -> Nat] /\ next_handle_id_' \in Nat
    <3>1. CASE UNCHANGED <<id, next_handle_id_>>
      BY <3>1
    <3>2. CASE id' = [id EXCEPT ![f] = next_handle_id_] /\ next_handle_id_' = next_handle_id_ + 1
      BY <3>2
    <3> QED
      BY <2>3, <3>1, <3>2
  <2> QED
    BY <2>1, <2>2, <2>4
<1> QED
  BY <1>1, <1>2, <1>3 DEF Next

\* What running a stage changes: the stage of a future that is running.
LEMMA StageOnly ==
  ASSUME TypeOK, NEW f \in Futures, RunStage(f)
  PROVE  /\ UNCHANGED <<client, wanted, made, held, cache, path, lookups, raced>>
         /\ stage[f] \in Running
         /\ \A g \in Futures : stage'[g] = "none" <=> stage[g] = "none"
         /\ \A g \in Futures : stage'[g] \in Running => stage[g] \in Running
  BY DEF TypeOK, RunStage, Read, Decode, AllocateHandleLocked, UploadFails, Running, Finished

\* Every step keeps the numbering.
LEMMA NumbersPreserved ==
  TypeOK /\ NumbersAgree /\ OneFuture /\ [Next]_vars => NumbersAgree'
<1> SUFFICES ASSUME TypeOK, NumbersAgree, OneFuture, [Next]_vars PROVE NumbersAgree'
  OBVIOUS
<1> USE LoadsAssumption DEF TypeOK, NumbersAgree, Futures, NoFuture
<1>1. CASE UNCHANGED vars
  BY <1>1 DEF vars
<1>2. ASSUME NEW c \in Clients, ClientStep(c) PROVE NumbersAgree'
  <2>1. ASSUME NEW p \in Paths, LoadShared(c, p) PROVE NumbersAgree'
    BY <2>1 DEF LoadShared, Lock
  <2>2. ASSUME NEW p \in Paths, LoadMissed(c, p) PROVE NumbersAgree'
    <3>1. /\ lookups' = lookups + 1 /\ lookups + 1 \in Futures
          /\ UNCHANGED <<held, stage, path>>
          /\ client[c] = "idle"
          /\ client' = [client EXCEPT ![c] = "missed"]
          /\ wanted' = [wanted EXCEPT ![c] = p]
          /\ made' = [made EXCEPT ![c] = lookups + 1]
          /\ cache' = [cache EXCEPT ![p] = NoFuture]
      BY <2>2 DEF LoadMissed
    <3>2. stage[lookups + 1] = "none"
      BY <3>1
    <3>3. \A d \in Clients : d # c => made[d] # lookups + 1
      BY <3>1
    <3> SUFFICES ASSUME NEW d \in Clients
                 PROVE  /\ client'[d] = "idle" => made'[d] = NoFuture
                        /\ client'[d] # "idle" => made'[d] \in 1 .. lookups' /\ wanted'[d] \in Paths
                        /\ client'[d] = "missed" => stage'[made'[d]] = "none"
                        /\ client'[d] = "scheduled" =>
                             stage'[made'[d]] # "none" /\ path'[made'[d]] = wanted'[d]
                        /\ \A e \in Clients : client'[d] # "idle" /\ made'[d] = made'[e] => d = e
                        /\ \A f \in held'[d] : stage'[f] # "none"
      BY <3>1
    <3>4. CASE d = c
      BY <3>1, <3>2, <3>3, <3>4
    <3>5. CASE d # c
      BY <3>1, <3>2, <3>3, <3>5
    <3> QED
      BY <3>4, <3>5
  <2>3. CASE ScheduleStages(c)
    BY <2>3 DEF ScheduleStages
  <2>4. CASE Store(c)
    BY <2>4 DEF Store
  <2>5. ASSUME NEW f \in Futures, Drop(c, f) PROVE NumbersAgree'
    BY <2>5 DEF Drop
  <2> QED
    BY <1>2, <2>1, <2>2, <2>3, <2>4, <2>5 DEF ClientStep
<1>3. ASSUME NEW f \in Futures, RunStage(f) PROVE NumbersAgree'
  <2>1. UNCHANGED <<client, wanted, made, held, cache, path, lookups>>
    BY <1>3, StageOnly
  <2>2. \A g \in Futures : stage'[g] = "none" <=> stage[g] = "none"
    BY <1>3, StageOnly
  <2>3. \A c \in Clients : client[c] # "idle" => made[c] \in Futures
    OBVIOUS
  <2> QED
    BY <2>1, <2>2, <2>3
<1> QED
  BY <1>1, <1>2, <1>3 DEF Next

\* A step that brings no future to life and leaves the calls and the cache alone keeps it.
LEMMA OneFutureStays ==
  ASSUME OneFuture, UNCHANGED <<made, cache, path, raced>>,
         \A f \in Futures : Alive(f)' => Alive(f),
         \A q \in Paths : Loading(q)' = Loading(q)
  PROVE  OneFuture'
  BY DEF OneFuture

\* Every step keeps it: a future can only be made, or come back into use, by the one call
\* that is loading its path.
LEMMA OneFuturePreserved ==
  TypeOK /\ NumbersAgree /\ OneFuture /\ [Next]_vars => OneFuture'
<1> SUFFICES ASSUME TypeOK, NumbersAgree, OneFuture, [Next]_vars PROVE OneFuture'
  OBVIOUS
<1> USE LoadsAssumption DEF TypeOK, Futures, NoFuture
<1>1. CASE UNCHANGED vars
  BY <1>1 DEF vars, OneFuture, Alive, Loading
<1>2. ASSUME NEW c \in Clients, ClientStep(c) PROVE OneFuture'
  <2>1. ASSUME NEW p \in Paths, LoadShared(c, p) PROVE OneFuture'
    <3>1. /\ UNCHANGED <<client, wanted, made, cache, stage, path, raced>>
          /\ Alive(cache[p])
          /\ held' = [held EXCEPT ![c] = @ \cup {cache[p]}]
      BY <2>1 DEF LoadShared, Lock
    <3>2. \A f \in Futures : Alive(f)' => Alive(f)
      BY <3>1 DEF Alive
    <3>3. \A q \in Paths : Loading(q)' = Loading(q)
      BY <3>1 DEF Loading
    <3> QED
      BY <3>1, <3>2, <3>3, OneFutureStays
  <2>2. ASSUME NEW p \in Paths, LoadMissed(c, p) PROVE OneFuture'
    <3>1. /\ UNCHANGED <<held, stage, path>>
          /\ client[c] = "idle" /\ ~Lock(cache[p])
          /\ client' = [client EXCEPT ![c] = "missed"]
          /\ wanted' = [wanted EXCEPT ![c] = p]
          /\ made' = [made EXCEPT ![c] = lookups + 1]
          /\ cache' = [cache EXCEPT ![p] = NoFuture]
          /\ raced' = IF Loading(p) = {} THEN raced ELSE raced \cup {p}
          /\ lookups + 1 \in Futures
      BY <2>2 DEF LoadMissed
    <3>2. stage[lookups + 1] = "none"
      BY <3>1 DEF NumbersAgree
    <3>3. \A f \in Futures : Alive(f)' => Alive(f)
      BY <3>1, <3>2 DEF Alive
    <3>4. \A q \in Paths \ {p} : Loading(q)' = Loading(q)
      BY <3>1 DEF Loading
    <3>5. Loading(p)' = Loading(p) \cup {c}
      BY <3>1 DEF Loading
    <3>6. ASSUME p \notin raced', NEW f \in Futures, Alive(f), path[f] = p PROVE FALSE
      BY <3>1, <3>6 DEF OneFuture, Lock, Alive
    <3> SUFFICES ASSUME NEW q \in Paths, q \notin raced'
                 PROVE  /\ \A d, e \in Loading(q)' : d = e
                        /\ \A f \in Futures : Alive(f)' /\ path'[f] = q =>
                             IF Loading(q)' = {} THEN f = cache'[q]
                             ELSE \A d \in Loading(q)' : f = made'[d]
      BY DEF OneFuture
    <3> DEFINE OneOf ==
          /\ \A d, e \in Loading(q) : d = e
          /\ \A f \in Futures : Alive(f) /\ path[f] = q =>
               IF Loading(q) = {} THEN f = cache[q] ELSE \A d \in Loading(q) : f = made[d]
    <3>o. OneOf
      BY <3>1 DEF OneFuture
    <3>i. \A d \in Loading(q) : d \in Clients /\ client[d] # "idle" /\ wanted[d] = q
      BY DEF Loading
    <3>7. CASE q = p
      <4>1. Loading(p) = {}
        BY <3>1, <3>7
      <4> QED
        BY <3>3, <3>1, <3>5, <3>6, <3>7, <4>1
    <3>8. CASE q # p
      <4>1. c \notin Loading(q)
        BY <3>1, <3>i
      <4> QED
        BY <3>1, <3>3, <3>4, <3>8, <3>o, <3>i, <4>1
    <3> QED
      BY <3>7, <3>8
  <2>3. CASE ScheduleStages(c)
    <3>1. /\ UNCHANGED <<wanted, made, held, cache, raced>>
          /\ client[c] = "missed"
          /\ client' = [client EXCEPT ![c] = "scheduled"]
          /\ stage' = [stage EXCEPT ![made[c]] = "read"]
          /\ path' = [path EXCEPT ![made[c]] = wanted[c]]
          /\ made[c] \in Futures
      BY <2>3 DEF ScheduleStages, NumbersAgree
    <3>2. \A q \in Paths : Loading(q)' = Loading(q)
      BY <3>1 DEF Loading
    <3>3. \A f \in Futures : f # made[c] /\ Alive(f)' => Alive(f) /\ path'[f] = path[f]
      BY <3>1 DEF Alive
    <3>4. c \in Loading(wanted[c])
      BY <3>1 DEF Loading
    <3>5. path'[made[c]] = wanted[c]
      BY <3>1
    <3> SUFFICES ASSUME NEW q \in Paths, q \notin raced'
                 PROVE  /\ \A d, e \in Loading(q)' : d = e
                        /\ \A f \in Futures : Alive(f)' /\ path'[f] = q =>
                             IF Loading(q)' = {} THEN f = cache'[q]
                             ELSE \A d \in Loading(q)' : f = made'[d]
      BY DEF OneFuture
    <3> DEFINE OneOf ==
          /\ \A d, e \in Loading(q) : d = e
          /\ \A f \in Futures : Alive(f) /\ path[f] = q =>
               IF Loading(q) = {} THEN f = cache[q] ELSE \A d \in Loading(q) : f = made[d]
    <3>o. OneOf
      BY <3>1 DEF OneFuture
    <3>i. \A d \in Loading(q) : d \in Clients /\ client[d] # "idle" /\ wanted[d] = q
      BY DEF Loading
    <3>6. ASSUME NEW f \in Futures, Alive(f)', path'[f] = q, NEW d \in Loading(q) PROVE f = made[d]
      <4>1. CASE f = made[c]
        BY <4>1, <3>4, <3>5, <3>6, <3>o
      <4>2. CASE f # made[c]
        BY <4>2, <3>3, <3>6, <3>o
      <4> QED
        BY <4>1, <4>2
    <3>7. ASSUME Loading(q) = {}, NEW f \in Futures, Alive(f)', path'[f] = q PROVE f = cache[q]
      BY <3>3, <3>4, <3>5, <3>7, <3>o
    <3> QED
      BY <3>1, <3>2, <3>6, <3>7, <3>o
  <2>4. CASE Store(c)
    <3>1. /\ UNCHANGED <<stage, path, raced>>
          /\ client[c] = "scheduled"
          /\ client' = [client EXCEPT ![c] = "idle"]
          /\ wanted' = [wanted EXCEPT ![c] = NoPath]
          /\ made' = [made EXCEPT ![c] = NoFuture]
          /\ cache' = [cache EXCEPT ![wanted[c]] = made[c]]
          /\ held' = [held EXCEPT ![c] = @ \cup {made[c]}]
          /\ made[c] \in Futures /\ wanted[c] \in Paths
      BY <2>4 DEF Store, NumbersAgree
    <3>2. \A f \in Futures : Alive(f)' => Alive(f)
      BY <3>1 DEF Alive
    <3>3. \A q \in Paths : Loading(q)' = Loading(q) \ {c}
      BY <3>1 DEF Loading
    <3>4. c \in Loading(wanted[c]) /\ \A q \in Paths : c \in Loading(q) => q = wanted[c]
      BY <3>1 DEF Loading
    <3> SUFFICES ASSUME NEW q \in Paths, q \notin raced'
                 PROVE  /\ \A d, e \in Loading(q)' : d = e
                        /\ \A f \in Futures : Alive(f)' /\ path'[f] = q =>
                             IF Loading(q)' = {} THEN f = cache'[q]
                             ELSE \A d \in Loading(q)' : f = made'[d]
      BY DEF OneFuture
    <3> DEFINE OneOf ==
          /\ \A d, e \in Loading(q) : d = e
          /\ \A f \in Futures : Alive(f) /\ path[f] = q =>
               IF Loading(q) = {} THEN f = cache[q] ELSE \A d \in Loading(q) : f = made[d]
    <3>o. OneOf
      BY <3>1 DEF OneFuture
    <3>i. \A d \in Loading(q) : d \in Clients /\ client[d] # "idle" /\ wanted[d] = q
      BY DEF Loading
    <3>5. CASE q = wanted[c]
      <4>1. Loading(q)' = {}
        BY <3>3, <3>4, <3>5, <3>o
      <4>2. \A f \in Futures : Alive(f)' /\ path'[f] = q => f = made[c]
        BY <3>1, <3>2, <3>4, <3>5, <3>o
      <4> QED
        BY <3>1, <3>5, <4>1, <4>2
    <3>6. CASE q # wanted[c]
      <4>0. c \notin Loading(q)
        BY <3>4, <3>6
      <4>1. Loading(q)' = Loading(q)
        <5>1. Loading(q) \ {c} = Loading(q)
          BY <4>0
        <5> QED
          BY <3>3, <5>1
      <4> QED
        BY <3>1, <3>2, <3>6, <3>o, <3>i, <4>0, <4>1
    <3> QED
      BY <3>5, <3>6
  <2>5. ASSUME NEW g \in Futures, Drop(c, g) PROVE OneFuture'
    <3>1. /\ UNCHANGED <<client, wanted, made, cache, stage, path, raced>>
          /\ held' = [held EXCEPT ![c] = @ \ {g}]
      BY <2>5 DEF Drop
    <3>2. \A f \in Futures : Alive(f)' => Alive(f)
      BY <3>1 DEF Alive
    <3>3. \A q \in Paths : Loading(q)' = Loading(q)
      BY <3>1 DEF Loading
    <3> QED
      BY <3>1, <3>2, <3>3, OneFutureStays
  <2> QED
    BY <1>2, <2>1, <2>2, <2>3, <2>4, <2>5 DEF ClientStep
<1>3. ASSUME NEW g \in Futures, RunStage(g) PROVE OneFuture'
  <2>1. UNCHANGED <<client, wanted, made, held, cache, path, raced>>
    BY <1>3, StageOnly
  <2>2. \A f \in Futures : Alive(f)' => Alive(f)
    BY <1>3, StageOnly, <2>1 DEF Alive
  <2>3. \A q \in Paths : Loading(q)' = Loading(q)
    BY <2>1 DEF Loading
  <2> QED
    BY <2>1, <2>2, <2>3, OneFutureStays
<1> QED
  BY <1>1, <1>2, <1>3 DEF Next

\* The type invariant, the numbering and OneFuture are inductive together.
LEMMA InvariantHolds == Spec => []IInv
<1>1. Init => IInv
  BY LoadsInitEstablishes
<1>2. IInv /\ [Next]_vars => IInv'
  BY TypePreserved, NumbersPreserved, OneFuturePreserved DEF IInv
<1> QED
  BY <1>1, <1>2, PTL DEF Spec

\* Two futures of one path are alive at the same time only if two calls of LoadResource for
\* it have been between their lookup and their store at the same time.
THEOREM LoadsShareUnlessRaced == Spec => []SharedUnlessRaced
<1>1. IInv => SharedUnlessRaced
  <2> SUFFICES ASSUME IInv,
                      NEW f \in Futures, NEW g \in Futures,
                      f # g, Alive(f), Alive(g), path[f] = path[g], path[f] \notin raced
               PROVE  FALSE
    BY DEF SharedUnlessRaced
  <2>1. path[f] \in Paths
    BY DEF IInv, NumbersAgree, Alive
  <2> QED
    BY <2>1 DEF IInv, OneFuture
<1> QED
  BY <1>1, InvariantHolds, PTL

-----------------------------------------------------------------------------
(* Recursive functions and sequences.                                      *)

\* Induction up to a number, for a set.
LEMMA UpTo ==
  ASSUME NEW n \in Nat, NEW Good, 0 \in Good, \A i \in 1 .. n : i - 1 \in Good => i \in Good
  PROVE  0 .. n \subseteq Good
<1> DEFINE Bad == {i \in 0 .. n : i \notin Good}
<1> SUFFICES ASSUME Bad # {} PROVE FALSE
  OBVIOUS
<1>1. Bad \in SUBSET Nat
  OBVIOUS
<1>2. PICK m \in Bad : \A k \in Bad : m <= k
  <2> HIDE DEF Bad
  <2> QED BY <1>1, LeastNatural
<1>3. m # 0 /\ m \in 0 .. n
  BY <1>2
<1>4. m \in 1 .. n /\ m - 1 \in 0 .. n /\ ~(m <= m - 1)
  BY <1>3
<1>5. m - 1 \in Good
  BY <1>2, <1>4
<1> QED BY <1>2, <1>4, <1>5

\* h starts from a and takes n steps, the i-th from x to advance[x][i].
Runs(h, n, a, advance) ==
  /\ h[0] = a
  /\ \A i \in 1 .. n : h[i] = advance[h[i - 1]][i]

\* Such a function exists for any number of steps: what runs for one less can be extended.
LEMMA RunExists ==
  ASSUME NEW n \in Nat, NEW S, NEW a \in S, NEW advance \in [S -> [1 .. n -> S]]
  PROVE  \E h \in [0 .. n -> S] : Runs(h, n, a, advance)
<1> DEFINE Good == {m \in 0 .. n : \E h \in [0 .. m -> S] : Runs(h, m, a, advance)}
<1>1. 0 \in Good
  <2> DEFINE h == [i \in 0 .. 0 |-> a]
  <2>1. h \in [0 .. 0 -> S] /\ Runs(h, 0, a, advance)
    BY DEF Runs
  <2> QED BY <2>1
<1>2. ASSUME NEW m \in 1 .. n, m - 1 \in Good
      PROVE  m \in Good
  <2>1. m - 1 \in 0 .. n /\ m \in 0 .. n /\ m \in 0 .. m /\ m # 0
    OBVIOUS
  <2>2. PICK h \in [0 .. m - 1 -> S] : Runs(h, m - 1, a, advance)
    BY <1>2, <2>1
  <2> DEFINE g == [i \in 0 .. m |-> IF i = m THEN advance[h[m - 1]][m] ELSE h[i]]
  <2>3. h[m - 1] \in S
    BY <2>1
  <2>3a. advance[h[m - 1]][m] \in S
    BY <2>3, <2>1
  <2>3b. \A i \in 0 .. m : i # m => i \in 0 .. m - 1
    BY <2>1
  <2>4. g \in [0 .. m -> S]
    BY <2>3a, <2>3b
  <2>5. g[0] = a
    <3>1. 0 \in 0 .. m /\ 0 # m
      BY <2>1
    <3> QED BY <2>2, <3>1 DEF Runs
  <2>6. ASSUME NEW i \in 1 .. m PROVE g[i] = advance[g[i - 1]][i]
    <3>1. i \in 0 .. m /\ i - 1 \in 0 .. m /\ i - 1 # m /\ i - 1 \in 0 .. m - 1
      BY <2>1
    <3>2. g[i - 1] = h[i - 1]
      BY <3>1
    <3>3. CASE i = m
      BY <3>1, <3>2, <3>3
    <3>4. CASE i # m
      <4>1. i \in 1 .. m - 1
        BY <3>4
      <4>2. h[i] = advance[h[i - 1]][i]
        BY <2>2, <4>1 DEF Runs
      <4>3. g[i] = h[i]
        BY <3>1, <3>4
      <4> HIDE DEF g
      <4> QED BY <3>2, <4>2, <4>3
    <3> QED BY <3>3, <3>4
  <2>7. Runs(g, m, a, advance)
    <3> HIDE DEF g
    <3> QED BY <2>5, <2>6 DEF Runs
  <2> QED BY <2>1, <2>4, <2>7
<1>3. 0 .. n \subseteq Good
  <2> HIDE DEF Good
  <2> QED BY <1>1, <1>2, UpTo
<1> QED BY <1>3

\* The elements of a concatenation.
LEMMA ConcatToSet ==
  ASSUME NEW T, NEW s \in Seq(T), NEW t \in Seq(T)
  PROVE  /\ s \o t \in Seq(T)
         /\ ToSet(s \o t) = ToSet(s) \cup ToSet(t)
<1>1. /\ s \o t \in Seq(T) /\ Len(s \o t) = Len(s) + Len(t)
      /\ \A i \in 1 .. Len(s) + Len(t) : (s \o t)[i] = IF i <= Len(s) THEN s[i] ELSE t[i - Len(s)]
  BY ConcatProperties
<1>2. DOMAIN s = 1 .. Len(s) /\ DOMAIN t = 1 .. Len(t) /\ DOMAIN (s \o t) = 1 .. Len(s) + Len(t)
      /\ Len(s) \in Nat /\ Len(t) \in Nat
  BY <1>1, LenProperties
<1>3. ASSUME NEW y, y \in ToSet(s \o t) PROVE y \in ToSet(s) \cup ToSet(t)
  <2>1. PICK i \in 1 .. Len(s) + Len(t) : y = (s \o t)[i]
    BY <1>2, <1>3 DEF ToSet
  <2>2. CASE i <= Len(s)
    BY <1>1, <1>2, <2>1, <2>2 DEF ToSet
  <2>3. CASE ~(i <= Len(s))
    <3>1. i - Len(s) \in DOMAIN t /\ y = t[i - Len(s)]
      BY <1>1, <1>2, <2>1, <2>3
    <3> QED BY <3>1 DEF ToSet
  <2> QED BY <2>2, <2>3
<1>4. ASSUME NEW y, y \in ToSet(s) PROVE y \in ToSet(s \o t)
  <2>1. PICK i \in 1 .. Len(s) : y = s[i]
    BY <1>2, <1>4 DEF ToSet
  <2>2. i \in 1 .. Len(s) + Len(t) /\ i <= Len(s)
    BY <1>2
  <2> QED BY <1>1, <1>2, <2>1, <2>2 DEF ToSet
<1>5. ASSUME NEW y, y \in ToSet(t) PROVE y \in ToSet(s \o t)
  <2>1. PICK i \in 1 .. Len(t) : y = t[i]
    BY <1>2, <1>5 DEF ToSet
  <2>2. i + Len(s) \in 1 .. Len(s) + Len(t) /\ ~(i + Len(s) <= Len(s)) /\ (i + Len(s)) - Len(s) = i
    BY <1>2
  <2> QED BY <1>1, <1>2, <2>1, <2>2 DEF ToSet
<1> QED BY <1>1, <1>3, <1>4, <1>5

-----------------------------------------------------------------------------
(* Sets of passes.                                                         *)

\* LastOf is the greatest member of a set of passes.
LEMMA LastOfProperties ==
  ASSUME NEW n \in Nat, NEW S \in SUBSET (1 .. n), S # {}
  PROVE  LastOf(S) \in S /\ \A q \in S : q <= LastOf(S)
<1> DEFINE Bounds == {k \in Nat : \A q \in S : q <= k}
<1>1. n \in Bounds
  OBVIOUS
<1>2. PICK m \in Bounds : \A k \in Bounds : m <= k
  <2>1. Bounds \in SUBSET Nat /\ Bounds # {}
    BY <1>1
  <2> HIDE DEF Bounds
  <2> QED BY <2>1, LeastNatural
<1>3. m \in S
  <2> SUFFICES ASSUME m \notin S PROVE FALSE
    OBVIOUS
  <2>1. PICK q \in S : q <= m
    BY <1>2
  <2>2. m \in Nat /\ m # 0
    BY <1>2, <2>1
  <2>3. \A x \in S : x <= m - 1
    BY <1>2
  <2>4. m - 1 \in Bounds
    BY <2>2, <2>3
  <2>5. m <= m - 1
    BY <1>2, <2>4
  <2> QED BY <2>2, <2>5
<1>4. \E p \in S : \A q \in S : q <= p
  BY <1>2, <1>3
<1> QED BY <1>4 DEF LastOf

\* No pass comes last among none.
LEMMA LastOfNone == LastOf({}) = 0
  BY DEF LastOf

\* s lists the members of a set in ascending order.
Increasing(s, set) ==
  /\ s \in [1 .. Cardinality(set) -> set]
  /\ \A i, j \in DOMAIN s : i < j => s[i] < s[j]

\* Any set of passes has such a list.
LEMMA IncreasingExists ==
  ASSUME NEW n \in Nat, NEW S \in SUBSET (1 .. n)
  PROVE  \E s : Increasing(s, S)
<1> DEFINE Good == {k \in 0 .. n : \A T \in SUBSET (1 .. k) : \E s : Increasing(s, T)}
<1>1. 0 \in Good
  <2> SUFFICES ASSUME NEW T \in SUBSET (1 .. 0) PROVE \E s : Increasing(s, T)
    OBVIOUS
  <2>1. T = {}
    OBVIOUS
  <2>1a. Cardinality(T) = 0
    BY <2>1, FS_EmptySet, Zenon
  <2> DEFINE s == [i \in {} |-> 0]
  <2>2. Increasing(s, T)
    BY <2>1, <2>1a DEF Increasing
  <2> QED BY <2>2
<1>2. ASSUME NEW k \in 1 .. n, k - 1 \in Good PROVE k \in Good
  <2> SUFFICES ASSUME NEW T \in SUBSET (1 .. k) PROVE \E s : Increasing(s, T)
    OBVIOUS
  <2>1. CASE k \notin T
    <3>1. T \in SUBSET (1 .. k - 1)
      BY <2>1
    <3> QED BY <1>2, <3>1
  <2>2. CASE k \in T
    <3> DEFINE U == T \ {k}
    <3>1. U \in SUBSET (1 .. k - 1)
      OBVIOUS
    <3>2. PICK t : Increasing(t, U)
      BY <1>2, <3>1
    <3>3. IsFiniteSet(T)
      <4>1. IsFiniteSet(1 .. k)
        BY FS_Interval
      <4> QED BY <4>1, FS_Subset
    <3>4. IsFiniteSet(U) /\ Cardinality(U) = Cardinality(T) - 1
      BY <2>2, <3>3, FS_RemoveElement
    <3> DEFINE c == Cardinality(T)
    <3>5. c \in Nat /\ Cardinality(U) \in Nat /\ Cardinality(U) = c - 1
      BY <3>3, <3>4, FS_CardinalityType
    <3> DEFINE s == [i \in 1 .. c |-> IF i = c THEN k ELSE t[i]]
    <3>6. t \in [1 .. c - 1 -> U] /\ \A i, j \in 1 .. c - 1 : i < j => t[i] < t[j]
      BY <3>2, <3>5 DEF Increasing
    <3> HIDE DEF U
    <3>7. ASSUME NEW i \in 1 .. c, i # c PROVE i \in 1 .. c - 1 /\ s[i] = t[i] /\ t[i] \in U
      BY <3>5, <3>6, <3>7
    <3>8. s \in [1 .. c -> T]
      BY <2>2, <3>7 DEF U
    <3>9. ASSUME NEW i \in 1 .. c, NEW j \in 1 .. c, i < j PROVE s[i] < s[j]
      <4>1. i # c
        BY <3>5, <3>9
      <4>2. i \in 1 .. c - 1 /\ s[i] = t[i] /\ t[i] \in U
        BY <3>7, <4>1
      <4>3. CASE j = c
        <5>1. s[j] = k
          BY <4>3
        <5>2. t[i] \in 1 .. k - 1
          BY <3>1, <4>2
        <5> HIDE DEF s
        <5> QED BY <4>2, <5>1, <5>2
      <4>4. CASE j # c
        <5>1. j \in 1 .. c - 1 /\ s[j] = t[j]
          BY <3>7, <4>4
        <5> HIDE DEF s
        <5> QED BY <3>6, <3>9, <4>2, <5>1
      <4> QED BY <4>3, <4>4
    <3>10. DOMAIN s = 1 .. c
      OBVIOUS
    <3>11. Increasing(s, T)
      <4> HIDE DEF s
      <4> QED BY <3>8, <3>9, <3>10 DEF Increasing
    <3> QED BY <3>11
  <2> QED BY <2>1, <2>2
<1>3. 0 .. n \subseteq Good
  <2> HIDE DEF Good
  <2> QED BY <1>1, <1>2, UpTo
<1>4. n \in Good
  BY <1>3
<1> QED BY <1>4

\* Ascending lists every member of a set of passes, and none twice.
LEMMA AscendingProperties ==
  ASSUME NEW n \in Nat, NEW S \in SUBSET (1 .. n)
  PROVE  /\ Ascending(S) \in Seq(S)
         /\ ToSet(Ascending(S)) = S
         /\ \A i, j \in 1 .. Len(Ascending(S)) : Ascending(S)[i] = Ascending(S)[j] => i = j
<1> DEFINE s == Ascending(S)
<1> DEFINE c == Cardinality(S)
<1>1. Increasing(s, S)
  <2>1. \E t \in [1 .. Cardinality(S) -> S] : \A i, j \in DOMAIN t : i < j => t[i] < t[j]
    BY IncreasingExists DEF Increasing
  <2> QED BY <2>1 DEF Ascending, Increasing
<1>2. IsFiniteSet(S) /\ c \in Nat
  <2>1. IsFiniteSet(1 .. n)
    BY FS_Interval
  <2>2. IsFiniteSet(S)
    BY <2>1, FS_Subset
  <2> QED BY <2>2, FS_CardinalityType
<1> HIDE DEF s
<1>3. s \in [1 .. c -> S] /\ DOMAIN s = 1 .. c /\ Len(s) = c /\ s \in Seq(S)
  BY <1>1, <1>2 DEF Increasing
<1>4. \A i, j \in 1 .. c : i < j => s[i] < s[j]
  BY <1>1, <1>3 DEF Increasing
<1> HIDE DEF c
<1>5. ASSUME NEW i \in 1 .. c, NEW j \in 1 .. c, s[i] = s[j] PROVE i = j
  <2>1. s[i] \in S /\ s[j] \in S
    BY <1>3
  <2>2. s[i] \in Int /\ s[j] \in Int
    <3>1. S \subseteq Int
      OBVIOUS
    <3> QED BY <2>1, <3>1
  <2>3. ~(i < j) /\ ~(j < i)
    BY <1>4, <1>5, <2>2
  <2> QED BY <2>3, <1>2
<1>6. s \in Injection(1 .. c, S)
  BY <1>3, <1>5 DEF Injection, IsInjective
<1>7. Cardinality(1 .. c) = c
  BY <1>2, FS_Interval
<1>8. s \in Surjection(1 .. c, S)
  BY <1>2, <1>6, <1>7, FS_Injection DEF c
<1>9. \A x \in S : \E i \in 1 .. c : s[i] = x
  BY <1>8 DEF Surjection
<1>10. ToSet(s) = S
  BY <1>3, <1>9 DEF ToSet
<1> QED BY <1>3, <1>5, <1>10 DEF s

-----------------------------------------------------------------------------
(* What Compile computes.                                                  *)

\* What a pass is.
PassRecords == [queue : Queues, reads : SUBSET ResourceIds, writes : SUBSET ResourceIds]

GraphTypes ==
  /\ resources \in Seq({"imported", "transient", "output"})
  /\ passes \in Seq(PassRecords)

\* What the types say of a pass.
LEMMA GraphFacts ==
  ASSUME GraphTypes
  PROVE  /\ Len(passes) \in Nat /\ Len(resources) \in Nat
         /\ \A p \in PassIds : passes[p] \in PassRecords
         /\ \A p \in PassIds : /\ passes[p].queue \in Queues
                               /\ passes[p].reads \subseteq ResourceIds
                               /\ passes[p].writes \subseteq ResourceIds
<1>1. Len(passes) \in Nat /\ Len(resources) \in Nat
  BY LenProperties DEF GraphTypes
<1>2. \A p \in PassIds : passes[p] \in PassRecords
  BY ElementOfSeq DEF GraphTypes, PassIds
<1> QED BY <1>1, <1>2 DEF PassRecords

\* A producer is a pass that writes the resource, if there is one.
LEMMA ProducerFacts ==
  ASSUME GraphTypes, NEW r
  PROVE  /\ Writers(r) \subseteq PassIds
         /\ Writers(r) = {} => Producer(r) = 0
         /\ Writers(r) # {} => Producer(r) \in Writers(r)
         /\ Producer(r) \in PassIds \cup {0}
<1>1. Writers(r) \subseteq PassIds
  BY DEF Writers
<1>2. CASE Writers(r) = {}
  BY <1>1, <1>2, LastOfNone DEF Producer
<1>3. CASE Writers(r) # {}
  <2>1. Writers(r) \in SUBSET (1 .. Len(passes))
    BY <1>1 DEF PassIds
  <2>2. LastOf(Writers(r)) \in Writers(r)
    BY <1>3, <2>1, GraphFacts, LastOfProperties
  <2> QED BY <1>1, <1>3, <2>2 DEF Producer
<1> QED BY <1>1, <1>2, <1>3

\* The latest writer before p is the last of the live writers before it.
LEMMA LatestWriterFacts ==
  ASSUME GraphTypes, NEW live \in SUBSET PassIds, NEW p \in PassIds, NEW r
  PROVE  LET earlier == {q \in Writers(r) \cap live : q < p}
         IN  /\ earlier = {} => LatestWriter(p, r, live) = 0
             /\ earlier # {} => LatestWriter(p, r, live) \in earlier
             /\ \A q \in earlier : q <= LatestWriter(p, r, live)
<1> DEFINE earlier == {q \in Writers(r) \cap live : q < p}
<1>1. earlier \in SUBSET (1 .. Len(passes))
  BY DEF PassIds
<1>2. LatestWriter(p, r, live) = LastOf(earlier)
  BY DEF LatestWriter
<1>3. Len(passes) \in Nat
  BY GraphFacts
<1>6. /\ earlier = {} => LatestWriter(p, r, live) = 0
      /\ earlier # {} => LatestWriter(p, r, live) \in earlier
      /\ \A q \in earlier : q <= LatestWriter(p, r, live)
  <2> HIDE DEF earlier
  <2>1. CASE earlier = {}
    BY <1>2, <2>1, LastOfNone
  <2>2. CASE earlier # {}
    BY <1>1, <1>2, <1>3, <2>2, LastOfProperties
  <2> QED BY <2>1, <2>2
<1> QED BY <1>6 DEF earlier

\* Dependencies point backwards, to live passes.
LEMMA DependenciesBefore ==
  ASSUME GraphTypes, NEW live \in SUBSET PassIds, NEW p \in PassIds
  PROVE  Dependencies(p, live) \subseteq {q \in live : q < p}
<1> SUFFICES ASSUME NEW d \in Dependencies(p, live) PROVE d \in live /\ d < p
  OBVIOUS
<1>1. PICK r \in Uses(p) : d = LatestWriter(p, r, live)
  BY DEF Dependencies
<1>2. d # 0
  BY DEF Dependencies
<1> DEFINE earlier == {q \in Writers(r) \cap live : q < p}
<1>3. d \in earlier
  <2>1. /\ earlier = {} => LatestWriter(p, r, live) = 0
        /\ earlier # {} => LatestWriter(p, r, live) \in earlier
    BY LatestWriterFacts
  <2> HIDE DEF earlier
  <2> QED BY <1>1, <1>2, <2>1
<1> QED BY <1>3

\* A round adds passes.
LEMMA NeededByFacts ==
  ASSUME GraphTypes, NEW live \in SUBSET PassIds
  PROVE  NeededBy(live) \in SUBSET PassIds /\ live \subseteq NeededBy(live)
<1>1. \A r : Producer(r) \in PassIds \cup {0}
  BY ProducerFacts
<1> QED BY <1>1 DEF NeededBy

\* The rounds of which the last is Live.
IsLiveRun(h) ==
  /\ h \in [0 .. Len(passes) -> SUBSET PassIds]
  /\ h[0] = {Producer(r) : r \in Visible} \ {0}
  /\ \A i \in 1 .. Len(passes) : h[i] = NeededBy(h[i - 1])
  /\ Live = h[Len(passes)]

\* There are such rounds: the recursive function in Live is one.
LEMMA LiveRun == ASSUME GraphTypes PROVE \E h : IsLiveRun(h)
<1> PICK n \in Nat : n = Len(passes)
  BY GraphFacts
<1> DEFINE S == SUBSET PassIds
<1> DEFINE first == {Producer(r) : r \in Visible} \ {0}
<1> DEFINE advance == [m \in S |-> [i \in 1 .. n |-> NeededBy(m)]]
<1>1. first \in S
  <2>1. \A r : Producer(r) \in PassIds \cup {0}
    BY ProducerFacts
  <2> QED BY <2>1
<1>2. advance \in [S -> [1 .. n -> S]]
  BY NeededByFacts
<1> HIDE DEF first
<1>3. PICK h \in [0 .. n -> S] : Runs(h, n, first, advance)
  <2> HIDE DEF advance, S
  <2> QED BY <1>1, <1>2, RunExists
<1>4. h[0] = first
  BY <1>3 DEF Runs
<1>5. ASSUME NEW i \in 1 .. n PROVE h[i] = NeededBy(h[i - 1]) /\ h[i - 1] \in S
  <2>1. h[i] = advance[h[i - 1]][i]
    <3> HIDE DEF advance
    <3> QED BY <1>3 DEF Runs
  <2>2. h[i - 1] \in S
    <3> HIDE DEF S
    <3>1. i - 1 \in 0 .. n
      OBVIOUS
    <3> QED BY <3>1
  <2> QED BY <2>1, <2>2
<1> HIDE DEF S
<1>6. h = [i \in 0 .. n |-> IF i = 0 THEN first ELSE NeededBy(h[i - 1])]
  <2>1. ASSUME NEW i \in 0 .. n
        PROVE  h[i] = IF i = 0 THEN first ELSE NeededBy(h[i - 1])
    <3>1. CASE i = 0
      BY <1>4, <3>1
    <3>2. CASE i # 0
      <4>1. i \in 1 .. n
        BY <3>2
      <4> QED BY <1>5, <3>2, <4>1
    <3> QED BY <3>1, <3>2
  <2> QED BY <2>1
<1> DEFINE rounds == CHOOSE f : f = [i \in 0 .. n |-> IF i = 0 THEN first ELSE NeededBy(f[i - 1])]
<1>7. rounds = [i \in 0 .. n |-> IF i = 0 THEN first ELSE NeededBy(rounds[i - 1])]
  BY <1>6
<1>8. Live = rounds[n]
  BY DEF Live, first
<1> HIDE DEF rounds
<1> DEFINE Same == {i \in 0 .. n : rounds[i] = h[i]}
<1>9. 0 \in Same
  BY <1>4, <1>7
<1>10. ASSUME NEW i \in 1 .. n, i - 1 \in Same PROVE i \in Same
  <2>1. i \in 0 .. n /\ i # 0 /\ rounds[i - 1] = h[i - 1]
    BY <1>10
  <2>2. rounds[i] = NeededBy(rounds[i - 1])
    BY <1>7, <2>1
  <2> QED BY <1>5, <2>1, <2>2
<1>11. n \in Same
  <2>1. n \in 0 .. n
    OBVIOUS
  <2> HIDE DEF Same
  <2>2. 0 .. n \subseteq Same
    BY <1>9, <1>10, UpTo
  <2> QED BY <2>1, <2>2
<1>12. Live = h[n]
  BY <1>8, <1>11
<1> QED BY <1>4, <1>5, <1>12 DEF IsLiveRun, first, S

\* What is live is a set of passes.
LEMMA LiveFacts == ASSUME GraphTypes PROVE Live \in SUBSET PassIds
<1>1. PICK h : IsLiveRun(h)
  BY LiveRun
<1>2. Len(passes) \in 0 .. Len(passes)
  BY GraphFacts
<1> QED BY <1>1, <1>2 DEF IsLiveRun

\* A sequence over a set is one over any larger set.
LEMMA SeqOfMore ==
  ASSUME NEW T, NEW S \in SUBSET T, NEW s \in Seq(S)
  PROVE  s \in Seq(T)
  OBVIOUS

\* A run of Kahn's algorithm: what is done, and what waits for its turn.
RunRecords(live) == [queue : Seq(live), done : Seq(live)]

\* Ready lists, once each, those of a set whose dependencies are done.
LEMMA ReadyFacts ==
  ASSUME GraphTypes, NEW live \in SUBSET PassIds, NEW set \in SUBSET live, NEW done
  PROVE  /\ Ready(set, done, live) \in Seq(live)
         /\ \A p : p \in ToSet(Ready(set, done, live))
                     <=> p \in set /\ Dependencies(p, live) \subseteq done
         /\ \A i, j \in 1 .. Len(Ready(set, done, live)) :
              Ready(set, done, live)[i] = Ready(set, done, live)[j] => i = j
<1> DEFINE ready == {p \in set : Dependencies(p, live) \subseteq done}
<1>1. ready \in SUBSET (1 .. Len(passes)) /\ ready \subseteq live
  BY DEF PassIds
<1>2. Ready(set, done, live) = Ascending(ready)
  BY DEF Ready
<1>3. Len(passes) \in Nat
  BY GraphFacts
<1> HIDE DEF ready
<1>4. /\ Ascending(ready) \in Seq(ready)
      /\ ToSet(Ascending(ready)) = ready
      /\ \A i, j \in 1 .. Len(Ascending(ready)) : Ascending(ready)[i] = Ascending(ready)[j] => i = j
  BY <1>1, <1>3, AscendingProperties
<1>5. Ascending(ready) \in Seq(live)
  BY <1>1, <1>4, SeqOfMore
<1>6. /\ Ready(set, done, live) \in Seq(live)
      /\ \A p : p \in ToSet(Ready(set, done, live)) <=> p \in ready
      /\ \A i, j \in 1 .. Len(Ready(set, done, live)) :
           Ready(set, done, live)[i] = Ready(set, done, live)[j] => i = j
  BY <1>2, <1>4, <1>5
<1> QED BY <1>6 DEF ready

\* What a visit does to a run whose queue is not empty.
Visited(run, live) ==
  \E ready \in Seq(live) :
    /\ Visit(run, live) =
         [queue |-> Tail(run.queue) \o ready, done |-> Append(run.done, Head(run.queue))]
    /\ \A s : s \in ToSet(ready) <=>
         /\ s \in live /\ Head(run.queue) \in Dependencies(s, live)
         /\ Dependencies(s, live) \subseteq ToSet(Append(run.done, Head(run.queue)))
    /\ \A i, j \in 1 .. Len(ready) : ready[i] = ready[j] => i = j

\* A visit of an empty queue changes nothing, any other does what Visited says.
LEMMA VisitFacts ==
  ASSUME GraphTypes, NEW live \in SUBSET PassIds, NEW run \in RunRecords(live)
  PROVE  /\ Visit(run, live) \in RunRecords(live)
         /\ run.queue = <<>> => Visit(run, live) = run
         /\ run.queue # <<>> => Visited(run, live)
<1>1. CASE run.queue = <<>>
  BY <1>1 DEF Visit
<1>2. CASE run.queue # <<>>
  <2> DEFINE p == Head(run.queue)
  <2> DEFINE done == Append(run.done, p)
  <2> DEFINE successors == {s \in live : p \in Dependencies(s, live)}
  <2> DEFINE ready == Ready(successors, ToSet(done), live)
  <2>1. run.queue \in Seq(live) /\ run.done \in Seq(live)
    BY DEF RunRecords
  <2>2. p \in live /\ Tail(run.queue) \in Seq(live)
    BY <1>2, <2>1, HeadTailProperties
  <2>3. done \in Seq(live)
    BY <2>1, <2>2, AppendProperties
  <2>4. Visit(run, live) = [queue |-> Tail(run.queue) \o ready, done |-> done]
    BY <1>2 DEF Visit
  <2>5. successors \in SUBSET live
    OBVIOUS
  <2>6. \A s : s \in ToSet(ready) <=>
          s \in live /\ p \in Dependencies(s, live) /\ Dependencies(s, live) \subseteq ToSet(done)
    <3>1. \A s : s \in ToSet(ready) <=>
            s \in successors /\ Dependencies(s, live) \subseteq ToSet(done)
      <4> HIDE DEF successors, done
      <4> QED BY <2>5, ReadyFacts
    <3> QED BY <3>1
  <2>7. ready \in Seq(live) /\ \A i, j \in 1 .. Len(ready) : ready[i] = ready[j] => i = j
    <3> HIDE DEF successors, done
    <3> QED BY <2>5, ReadyFacts
  <2>8. Tail(run.queue) \o ready \in Seq(live)
    <3> HIDE DEF ready
    <3> QED BY <2>2, <2>7, ConcatProperties
  <2>9. Visit(run, live) \in RunRecords(live)
    <3> HIDE DEF ready, done
    <3> QED BY <2>3, <2>4, <2>8 DEF RunRecords
  <2> HIDE DEF ready
  <2>10. Visited(run, live)
    BY <2>4, <2>6, <2>7 DEF Visited
  <2> QED BY <1>2, <2>9, <2>10
<1> QED BY <1>1, <1>2

\* No member of s is in it twice.
Once(s) == \A i, j \in 1 .. Len(s) : s[i] = s[j] => i = j

\* What is appended is in the sequence, and once if it was not before.
LEMMA AppendOnce ==
  ASSUME NEW T, NEW s \in Seq(T), NEW x \in T
  PROVE  /\ Append(s, x) \in Seq(T) /\ Len(Append(s, x)) = Len(s) + 1
         /\ \A i \in 1 .. Len(s) : Append(s, x)[i] = s[i]
         /\ Append(s, x)[Len(s) + 1] = x
         /\ \A y : y \in ToSet(Append(s, x)) <=> y = x \/ y \in ToSet(s)
         /\ Once(s) /\ x \notin ToSet(s) => Once(Append(s, x))
<1> DEFINE t == Append(s, x)
<1> DEFINE n == Len(s)
<1>1. n \in Nat /\ DOMAIN s = 1 .. n
  BY LenProperties
<1>2. t \in Seq(T) /\ Len(t) = n + 1 /\ DOMAIN t = 1 .. n + 1
      /\ (\A i \in 1 .. n : t[i] = s[i]) /\ t[n + 1] = x
  BY AppendProperties, LenProperties
<1> HIDE DEF t
<1>2a. \A i \in 1 .. n + 1 : i = n + 1 \/ i \in 1 .. n
  BY <1>1
<1>2b. n + 1 \in 1 .. n + 1 /\ \A i \in 1 .. n : i \in 1 .. n + 1
  BY <1>1
<1> HIDE DEF n
<1>3. \A y : y \in ToSet(t) <=> \E i \in 1 .. n + 1 : t[i] = y
  BY <1>2 DEF ToSet
<1>4. \A y : y \in ToSet(s) <=> \E i \in 1 .. n : s[i] = y
  BY <1>1 DEF ToSet
<1>5. \A y : y \in ToSet(t) <=> y = x \/ y \in ToSet(s)
  BY <1>2, <1>2a, <1>2b, <1>3, <1>4
<1>6. ASSUME Once(s), x \notin ToSet(s) PROVE Once(t)
  <2> SUFFICES ASSUME NEW i \in 1 .. n + 1, NEW j \in 1 .. n + 1, t[i] = t[j] PROVE i = j
    BY <1>2 DEF Once
  <2>1. \A k \in 1 .. n : t[k] # x
    BY <1>2, <1>4, <1>6
  <2>2. CASE i \in 1 .. n /\ j \in 1 .. n
    BY <1>2, <1>6, <2>2 DEF Once, n
  <2> QED BY <1>2, <1>2a, <2>1, <2>2
<1> QED BY <1>2, <1>5, <1>6 DEF t, n

\* Without its head, a sequence has all other members.
LEMMA TailOnce ==
  ASSUME NEW T, NEW s \in Seq(T), s # <<>>, Once(s)
  PROVE  /\ Head(s) \in T /\ Tail(s) \in Seq(T) /\ Once(Tail(s))
         /\ Head(s) \in ToSet(s)
         /\ \A y : y \in ToSet(Tail(s)) <=> y \in ToSet(s) /\ y # Head(s)
<1> DEFINE t == Tail(s)
<1> DEFINE n == Len(s)
<1>1. n \in Nat /\ DOMAIN s = 1 .. n /\ n # 0
  BY LenProperties, EmptySeq
<1>2. t \in Seq(T) /\ Len(t) = n - 1 /\ (\A i \in 1 .. n - 1 : t[i] = s[i + 1])
      /\ Head(s) \in T /\ Head(s) = s[1]
  BY HeadTailProperties
<1>3. DOMAIN t = 1 .. n - 1
  BY <1>2, LenProperties
<1> HIDE DEF t
<1>4. \A y : y \in ToSet(t) <=> \E i \in 1 .. n - 1 : t[i] = y
  BY <1>3 DEF ToSet
<1>5. \A y : y \in ToSet(s) <=> \E i \in 1 .. n : s[i] = y
  BY <1>1 DEF ToSet
<1>6. 1 \in 1 .. n
  BY <1>1
<1>7. ASSUME NEW y, y \in ToSet(t) PROVE y \in ToSet(s) /\ y # Head(s)
  <2>1. PICK i \in 1 .. n - 1 : t[i] = y
    BY <1>4, <1>7
  <2>2. i + 1 \in 1 .. n /\ i + 1 # 1 /\ s[i + 1] = y
    BY <1>1, <1>2, <2>1
  <2>3. s[i + 1] # s[1]
    BY <1>6, <2>2 DEF Once
  <2> QED BY <1>2, <1>5, <2>2, <2>3
<1>8. ASSUME NEW y, y \in ToSet(s), y # Head(s) PROVE y \in ToSet(t)
  <2>1. PICK i \in 1 .. n : s[i] = y
    BY <1>5, <1>8
  <2>2. i # 1
    BY <1>2, <1>8, <2>1
  <2>3. i - 1 \in 1 .. n - 1 /\ (i - 1) + 1 = i
    BY <2>2
  <2> QED BY <1>2, <1>4, <2>1, <2>3
<1>9. Once(t)
  <2> SUFFICES ASSUME NEW i \in 1 .. n - 1, NEW j \in 1 .. n - 1, t[i] = t[j] PROVE i = j
    BY <1>2 DEF Once
  <2>1. i + 1 \in 1 .. n /\ j + 1 \in 1 .. n /\ s[i + 1] = s[j + 1]
    BY <1>1, <1>2
  <2>2. i + 1 = j + 1
    BY <2>1 DEF Once
  <2> QED BY <2>2
<1>10. Head(s) \in ToSet(s)
  BY <1>2, <1>5, <1>6
<1> QED BY <1>2, <1>7, <1>8, <1>9, <1>10 DEF t

\* Sequences without common members have each member once together.
LEMMA ConcatOnce ==
  ASSUME NEW T, NEW s \in Seq(T), NEW t \in Seq(T), Once(s), Once(t),
         \A y \in ToSet(s) : y \notin ToSet(t)
  PROVE  Once(s \o t)
<1> DEFINE u == s \o t
<1> DEFINE m == Len(s)
<1> DEFINE n == Len(t)
<1>1. m \in Nat /\ n \in Nat /\ DOMAIN s = 1 .. m /\ DOMAIN t = 1 .. n
  BY LenProperties
<1>2. Len(u) = m + n /\ \A i \in 1 .. m + n : u[i] = IF i <= m THEN s[i] ELSE t[i - m]
  BY ConcatProperties
<1> HIDE DEF u
<1>3. ASSUME NEW i \in 1 .. m + n
      PROVE  \/ i <= m /\ i \in 1 .. m /\ u[i] = s[i] /\ u[i] \in ToSet(s)
             \/ ~(i <= m) /\ i - m \in 1 .. n /\ u[i] = t[i - m] /\ u[i] \in ToSet(t)
  <2>1. CASE i <= m
    <3>1. i \in 1 .. m /\ u[i] = s[i]
      BY <1>1, <1>2, <2>1
    <3> QED BY <1>1, <2>1, <3>1 DEF ToSet
  <2>2. CASE ~(i <= m)
    <3>1. i - m \in 1 .. n /\ u[i] = t[i - m]
      BY <1>1, <1>2, <2>2
    <3> QED BY <1>1, <2>2, <3>1 DEF ToSet
  <2> QED BY <2>1, <2>2
<1> SUFFICES ASSUME NEW i \in 1 .. m + n, NEW j \in 1 .. m + n, u[i] = u[j] PROVE i = j
  BY <1>2 DEF Once, u
<1>4. CASE i <= m /\ j <= m
  <2>1. i \in 1 .. m /\ j \in 1 .. m /\ s[i] = s[j]
    BY <1>3, <1>4
  <2> QED BY <2>1 DEF Once
<1>5. CASE ~(i <= m) /\ ~(j <= m)
  <2>1. i - m \in 1 .. n /\ j - m \in 1 .. n /\ t[i - m] = t[j - m]
    BY <1>3, <1>5
  <2>2. i - m = j - m
    BY <2>1 DEF Once
  <2> QED BY <1>1, <2>2
<1>6. ~(i <= m /\ ~(j <= m)) /\ ~(~(i <= m) /\ j <= m)
  BY <1>3
<1> QED BY <1>4, <1>5, <1>6

\* What a run of Kahn's algorithm keeps true: nothing is visited twice, exactly the passes
\* whose dependencies are done have been queued, and they were done before.
GoodRun(run, live) ==
  /\ run \in RunRecords(live)
  /\ Once(run.done) /\ Once(run.queue)
  /\ \A p \in ToSet(run.done) : p \notin ToSet(run.queue)
  /\ \A p \in live : p \in ToSet(run.done) \/ p \in ToSet(run.queue)
                       <=> Dependencies(p, live) \subseteq ToSet(run.done)
  /\ \A j \in 1 .. Len(run.done) : \A d \in Dependencies(run.done[j], live) :
       \E i \in 1 .. j - 1 : run.done[i] = d

\* A visit keeps this, and does one pass more.
LEMMA VisitKeeps ==
  ASSUME GraphTypes, NEW live \in SUBSET PassIds, NEW run, GoodRun(run, live), run.queue # <<>>
  PROVE  GoodRun(Visit(run, live), live) /\ Len(Visit(run, live).done) = Len(run.done) + 1
<1> DEFINE p == Head(run.queue)
<1> DEFINE done == Append(run.done, p)
<1> DEFINE rest == Tail(run.queue)
<1>1. run \in RunRecords(live) /\ run.queue \in Seq(live) /\ run.done \in Seq(live)
  BY DEF GoodRun, RunRecords
<1>2. Once(run.done) /\ Once(run.queue)
  BY DEF GoodRun
<1>3. PICK ready \in Seq(live) :
        /\ Visit(run, live) = [queue |-> rest \o ready, done |-> done]
        /\ \A s : s \in ToSet(ready) <=>
             /\ s \in live /\ p \in Dependencies(s, live)
             /\ Dependencies(s, live) \subseteq ToSet(done)
        /\ \A i, j \in 1 .. Len(ready) : ready[i] = ready[j] => i = j
  <2>1. Visited(run, live)
    BY <1>1, VisitFacts
  <2> QED BY <2>1 DEF Visited
<1>4. /\ p \in live /\ rest \in Seq(live) /\ Once(rest) /\ p \in ToSet(run.queue)
      /\ \A y : y \in ToSet(rest) <=> y \in ToSet(run.queue) /\ y # p
  BY <1>1, <1>2, TailOnce
<1>5. p \notin ToSet(run.done)
  BY <1>4 DEF GoodRun
<1>6. /\ done \in Seq(live) /\ Len(done) = Len(run.done) + 1
      /\ \A i \in 1 .. Len(run.done) : done[i] = run.done[i]
      /\ done[Len(run.done) + 1] = p
      /\ \A y : y \in ToSet(done) <=> y = p \/ y \in ToSet(run.done)
      /\ Once(done)
  BY <1>1, <1>2, <1>4, <1>5, AppendOnce
<1>7. Visit(run, live) \in RunRecords(live)
  BY <1>1, VisitFacts
<1> HIDE DEF p, done, rest
<1> DEFINE queue == rest \o ready
<1>8. queue \in Seq(live) /\ \A y : y \in ToSet(queue) <=> y \in ToSet(rest) \/ y \in ToSet(ready)
  BY <1>4, ConcatToSet
<1>9. \A y : y \in ToSet(ready) => y \notin ToSet(run.queue) /\ y \notin ToSet(run.done)
  <2> SUFFICES ASSUME NEW y \in ToSet(ready), y \in ToSet(run.queue) \/ y \in ToSet(run.done)
               PROVE  FALSE
    OBVIOUS
  <2>1. y \in live /\ p \in Dependencies(y, live)
    BY <1>3
  <2>2. Dependencies(y, live) \subseteq ToSet(run.done)
    BY <2>1 DEF GoodRun
  <2> QED BY <1>5, <2>1, <2>2
<1>10. Once(queue)
  <2>1. Once(ready)
    BY <1>3 DEF Once
  <2>2. \A y \in ToSet(rest) : y \notin ToSet(ready)
    BY <1>4, <1>9
  <2> QED BY <1>4, <2>1, <2>2, ConcatOnce
<1> HIDE DEF queue
<1>11. \A y \in ToSet(done) : y \notin ToSet(queue)
  <2> SUFFICES ASSUME NEW y \in ToSet(done), y \in ToSet(queue) PROVE FALSE
    OBVIOUS
  <2>1. y = p \/ y \in ToSet(run.done)
    BY <1>6
  <2>2. y \in ToSet(rest) \/ y \in ToSet(ready)
    BY <1>8
  <2>3. y \notin ToSet(ready)
    BY <1>4, <1>9, <2>1
  <2>4. y \in ToSet(run.queue) /\ y # p
    BY <1>4, <2>2, <2>3
  <2> QED BY <2>1, <2>4 DEF GoodRun
<1>12. ASSUME NEW s \in live
       PROVE  s \in ToSet(done) \/ s \in ToSet(queue)
                <=> Dependencies(s, live) \subseteq ToSet(done)
  <2>1. s \in ToSet(run.done) \/ s \in ToSet(run.queue)
          <=> Dependencies(s, live) \subseteq ToSet(run.done)
    BY DEF GoodRun
  <2>2. s \in ToSet(done) \/ s \in ToSet(queue)
          <=> \/ s \in ToSet(run.done) \/ s \in ToSet(run.queue)
              \/ s \in ToSet(ready)
    BY <1>4, <1>6, <1>8
  <2>3. Dependencies(s, live) \subseteq ToSet(done)
          <=> \/ Dependencies(s, live) \subseteq ToSet(run.done)
              \/ p \in Dependencies(s, live) /\ Dependencies(s, live) \subseteq ToSet(done)
    BY <1>6
  <2> QED BY <1>3, <2>1, <2>2, <2>3
<1>13. ASSUME NEW j \in 1 .. Len(done), NEW d \in Dependencies(done[j], live)
       PROVE  \E i \in 1 .. j - 1 : done[i] = d
  <2>1. Len(run.done) \in Nat
    BY <1>1, LenProperties
  <2>2. CASE j \in 1 .. Len(run.done)
    <3>1. d \in Dependencies(run.done[j], live)
      BY <1>6, <2>2
    <3>2. PICK i \in 1 .. j - 1 : run.done[i] = d
      BY <2>2, <3>1 DEF GoodRun
    <3>3. i \in 1 .. Len(run.done)
      BY <2>1, <2>2
    <3> QED BY <1>6, <3>2, <3>3
  <2>3. CASE j = Len(run.done) + 1
    <3>1. d \in Dependencies(p, live)
      BY <1>6, <2>3
    <3>2. Dependencies(p, live) \subseteq ToSet(run.done)
      BY <1>4 DEF GoodRun
    <3>3. PICK i \in 1 .. Len(run.done) : run.done[i] = d
      <4>1. DOMAIN run.done = 1 .. Len(run.done)
        BY <1>1, LenProperties
      <4> QED BY <3>1, <3>2, <4>1 DEF ToSet
    <3>4. i \in 1 .. j - 1
      BY <2>1, <2>3
    <3> QED BY <1>6, <3>3, <3>4
  <2> QED BY <1>6, <2>1, <2>2, <2>3
<1>14. Visit(run, live).queue = queue /\ Visit(run, live).done = done
  BY <1>3 DEF queue
<1>15. GoodRun(Visit(run, live), live)
  <2> DEFINE after == Visit(run, live)
  <2>1. after \in RunRecords(live) /\ after.queue = queue /\ after.done = done
    BY <1>7, <1>14
  <2> HIDE DEF after
  <2>2. Once(after.done) /\ Once(after.queue)
    BY <1>6, <1>10, <2>1
  <2>3. \A x \in ToSet(after.done) : x \notin ToSet(after.queue)
    BY <1>11, <2>1
  <2>4. \A s \in live : s \in ToSet(after.done) \/ s \in ToSet(after.queue)
                         <=> Dependencies(s, live) \subseteq ToSet(after.done)
    BY <1>12, <2>1
  <2>5. \A j \in 1 .. Len(after.done) : \A d \in Dependencies(after.done[j], live) :
          \E i \in 1 .. j - 1 : after.done[i] = d
    BY <1>13, <2>1
  <2>6. GoodRun(after, live)
    BY <2>1, <2>2, <2>3, <2>4, <2>5 DEF GoodRun
  <2> QED BY <2>6 DEF after
<1> QED BY <1>6, <1>14, <1>15

\* Before anything is visited, the passes without dependencies are queued.
FirstRun == [queue |-> Ready(Live, {}, Live), done |-> <<>>]

\* It holds before the first visit.
LEMMA FirstRunFacts == ASSUME GraphTypes PROVE GoodRun(FirstRun, Live)
<1>1. Live \in SUBSET PassIds /\ Live \in SUBSET Live
  BY LiveFacts
<1> DEFINE queue == Ready(Live, {}, Live)
<1>2. /\ queue \in Seq(Live)
      /\ \A p : p \in ToSet(queue) <=> p \in Live /\ Dependencies(p, Live) \subseteq {}
      /\ \A i, j \in 1 .. Len(queue) : queue[i] = queue[j] => i = j
  BY <1>1, ReadyFacts, Zenon
<1>3. FirstRun.queue = queue /\ FirstRun.done = <<>>
  BY DEF FirstRun
<1>4. <<>> \in Seq(Live) /\ ToSet(<<>>) = {} /\ Len(<<>>) = 0
  BY EmptySeq DEF ToSet
<1>5. FirstRun \in RunRecords(Live)
  BY <1>2, <1>4 DEF FirstRun, RunRecords
<1> HIDE DEF queue
<1>6. Once(queue) /\ Once(<<>>)
  BY <1>2, <1>4 DEF Once
<1>7. \A p \in Live : p \in ToSet(<<>>) \/ p \in ToSet(queue)
                        <=> Dependencies(p, Live) \subseteq ToSet(<<>>)
  BY <1>2, <1>4
<1>8. \A j \in 1 .. Len(<<>>) : FALSE
  BY <1>4
<1> QED BY <1>3, <1>4, <1>5, <1>6, <1>7, <1>8 DEF GoodRun

\* The runs of which the last has the order.
IsOrderRun(h) ==
  /\ h \in [0 .. Len(passes) -> RunRecords(Live)]
  /\ h[0] = FirstRun
  /\ \A i \in 1 .. Len(passes) : h[i] = Visit(h[i - 1], Live)
  /\ ExecutionOrder = h[Len(passes)].done

\* There are such runs: the recursive function in ExecutionOrder is one.
LEMMA OrderRun == ASSUME GraphTypes PROVE \E h : IsOrderRun(h)
<1> PICK n \in Nat : n = Len(passes)
  BY GraphFacts
<1> PICK live \in SUBSET PassIds : live = Live
  BY LiveFacts
<1> DEFINE S == RunRecords(live)
<1> DEFINE first == [queue |-> Ready(live, {}, live), done |-> <<>>]
<1> DEFINE advance == [m \in S |-> [i \in 1 .. n |-> Visit(m, live)]]
<1>1. first \in S
  BY FirstRunFacts DEF FirstRun, GoodRun
<1>2. advance \in [S -> [1 .. n -> S]]
  BY VisitFacts
<1> HIDE DEF first
<1>3. PICK h \in [0 .. n -> S] : Runs(h, n, first, advance)
  <2> HIDE DEF advance, S
  <2> QED BY <1>1, <1>2, RunExists
<1>4. h[0] = first
  BY <1>3 DEF Runs
<1>5. ASSUME NEW i \in 1 .. n PROVE h[i] = Visit(h[i - 1], live) /\ h[i - 1] \in S
  <2>1. h[i] = advance[h[i - 1]][i]
    <3> HIDE DEF advance
    <3> QED BY <1>3 DEF Runs
  <2>2. h[i - 1] \in S
    <3> HIDE DEF S
    <3>1. i - 1 \in 0 .. n
      OBVIOUS
    <3> QED BY <3>1
  <2> QED BY <2>1, <2>2
<1> HIDE DEF S
<1>6. h = [i \in 0 .. n |-> IF i = 0 THEN first ELSE Visit(h[i - 1], live)]
  <2>1. ASSUME NEW i \in 0 .. n
        PROVE  h[i] = IF i = 0 THEN first ELSE Visit(h[i - 1], live)
    <3>1. CASE i = 0
      BY <1>4, <3>1
    <3>2. CASE i # 0
      <4>1. i \in 1 .. n
        BY <3>2
      <4> QED BY <1>5, <3>2, <4>1
    <3> QED BY <3>1, <3>2
  <2> QED BY <2>1
<1> DEFINE runs == CHOOSE f : f = [i \in 0 .. n |-> IF i = 0 THEN first ELSE Visit(f[i - 1], live)]
<1>7. runs = [i \in 0 .. n |-> IF i = 0 THEN first ELSE Visit(runs[i - 1], live)]
  BY <1>6
<1>8. ExecutionOrder = runs[n].done
  BY DEF ExecutionOrder, first
<1> HIDE DEF runs
<1> DEFINE Same == {i \in 0 .. n : runs[i] = h[i]}
<1>9. 0 \in Same
  BY <1>4, <1>7
<1>10. ASSUME NEW i \in 1 .. n, i - 1 \in Same PROVE i \in Same
  <2>1. i \in 0 .. n /\ i # 0 /\ runs[i - 1] = h[i - 1]
    BY <1>10
  <2>2. runs[i] = Visit(runs[i - 1], live)
    BY <1>7, <2>1
  <2> QED BY <1>5, <2>1, <2>2
<1>11. n \in Same
  <2>1. n \in 0 .. n
    OBVIOUS
  <2> HIDE DEF Same
  <2>2. 0 .. n \subseteq Same
    BY <1>9, <1>10, UpTo
  <2> QED BY <2>1, <2>2
<1>12. ExecutionOrder = h[n].done
  BY <1>8, <1>11
<1>13. first = FirstRun
  BY DEF first, FirstRun
<1> QED BY <1>4, <1>5, <1>12, <1>13 DEF IsOrderRun, S

\* Every live pass is in the order once, after its dependencies.
LEMMA OrderFacts ==
  ASSUME GraphTypes
  PROVE  /\ ExecutionOrder \in Seq(Live)
         /\ Once(ExecutionOrder)
         /\ ToSet(ExecutionOrder) = Live
         /\ \A j \in 1 .. Len(ExecutionOrder) : \A d \in Dependencies(ExecutionOrder[j], Live) :
              \E i \in 1 .. j - 1 : ExecutionOrder[i] = d
<1> PICK n \in Nat : n = Len(passes)
  BY GraphFacts
<1> PICK live \in SUBSET PassIds : live = Live
  BY LiveFacts
<1>1. PICK h : IsOrderRun(h)
  BY OrderRun
<1> DEFINE Good == {i \in 0 .. n : GoodRun(h[i], live) /\ (h[i].queue = <<>> \/ Len(h[i].done) = i)}
<1>2. 0 \in Good
  <2>1. h[0] = FirstRun /\ GoodRun(h[0], live)
    BY <1>1, FirstRunFacts DEF IsOrderRun
  <2>2. Len(h[0].done) = 0
    BY <2>1 DEF FirstRun
  <2> QED BY <2>1, <2>2
<1>3. ASSUME NEW i \in 1 .. n, i - 1 \in Good PROVE i \in Good
  <2> DEFINE m == h[i - 1]
  <2>1. GoodRun(m, live) /\ (m.queue = <<>> \/ Len(m.done) = i - 1)
    BY <1>3
  <2>2. h[i] = Visit(m, live)
    BY <1>1 DEF IsOrderRun
  <2>3. m \in RunRecords(live)
    BY <2>1 DEF GoodRun
  <2> HIDE DEF m
  <2>4. CASE m.queue = <<>>
    <3>1. h[i] = m
      BY <2>2, <2>3, <2>4, VisitFacts
    <3> QED BY <2>1, <2>4, <3>1
  <2>5. CASE m.queue # <<>>
    <3>1. GoodRun(h[i], live) /\ Len(h[i].done) = Len(m.done) + 1
      BY <2>1, <2>2, <2>5, VisitKeeps
    <3>2. Len(h[i].done) = i
      BY <2>1, <2>5, <3>1
    <3> QED BY <3>1, <3>2
  <2> QED BY <2>4, <2>5
<1>4. 0 .. n \subseteq Good
  <2> HIDE DEF Good
  <2> QED BY <1>2, <1>3, UpTo
<1> PICK last : last = h[n]
  OBVIOUS
<1>5. GoodRun(last, live) /\ (last.queue = <<>> \/ Len(last.done) = n) /\ ExecutionOrder = last.done
  <2>1. n \in Good
    BY <1>4
  <2> QED BY <1>1, <2>1 DEF IsOrderRun
<1>6. last \in RunRecords(live) /\ last.done \in Seq(live) /\ last.queue \in Seq(live) /\ Once(last.done)
  BY <1>5 DEF GoodRun, RunRecords
<1>7. DOMAIN last.done = 1 .. Len(last.done)
  BY <1>6, LenProperties
<1>8. last.queue = <<>>
  <2> SUFFICES ASSUME last.queue # <<>> PROVE FALSE
    OBVIOUS
  <2>1. Len(last.done) = n
    BY <1>5
  <2> DEFINE others == 1 .. n \ {Head(last.queue)}
  <2>2. Head(last.queue) \in live /\ Head(last.queue) \in ToSet(last.queue)
    BY <1>5, <1>6, TailOnce DEF GoodRun
  <2>3. Head(last.queue) \in 1 .. n /\ Head(last.queue) \notin ToSet(last.done)
    BY <1>5, <2>2 DEF GoodRun, PassIds
  <2>4. ASSUME NEW i \in 1 .. n PROVE last.done[i] \in others
    <3>1. last.done[i] \in live
      BY <1>6, <2>1, ElementOfSeq
    <3>2. last.done[i] \in ToSet(last.done)
      BY <1>7, <2>1 DEF ToSet
    <3> QED BY <2>3, <3>1, <3>2 DEF PassIds
  <2> DEFINE f == [i \in 1 .. n |-> last.done[i]]
  <2>5. f \in Injection(1 .. n, others)
    <3>1. f \in [1 .. n -> others]
      BY <2>4
    <3>2. \A i, j \in 1 .. n : f[i] = f[j] => i = j
      BY <1>6, <2>1 DEF Once
    <3> HIDE DEF f
    <3> QED BY <3>1, <3>2 DEF Injection, IsInjective
  <2>6. IsFiniteSet(1 .. n) /\ Cardinality(1 .. n) = n
    BY IntervalCount
  <2>7. IsFiniteSet(others) /\ Cardinality(others) = n - 1
    <3>1. IsFiniteSet(others)
            /\ Cardinality(others) = IF Head(last.queue) \in 1 .. n THEN Cardinality(1 .. n) - 1
                                                                  ELSE Cardinality(1 .. n)
      BY <2>6, FS_RemoveElement, Zenon
    <3> HIDE DEF others
    <3> QED BY <2>3, <2>6, <3>1
  <2> HIDE DEF f, others
  <2>8. Cardinality(1 .. n) <= Cardinality(others)
    BY <2>5, <2>7, FS_Injection
  <2> QED BY <2>6, <2>7, <2>8
<1>9. ToSet(last.queue) = {}
  BY <1>8 DEF ToSet
<1>10. \A p \in live : p \in ToSet(last.done) <=> Dependencies(p, live) \subseteq ToSet(last.done)
  BY <1>5, <1>9 DEF GoodRun
<1>11. ToSet(last.done) \subseteq live
  BY <1>6, <1>7, ElementOfSeq DEF ToSet
<1>12. live \subseteq ToSet(last.done)
  <2> DEFINE Left == {p \in live : p \notin ToSet(last.done)}
  <2> SUFFICES ASSUME Left # {} PROVE FALSE
    OBVIOUS
  <2>1. Left \in SUBSET Nat
    <3>1. PassIds \subseteq Nat
      BY DEF PassIds
    <3> QED BY <3>1
  <2>2. PICK p \in Left : \A q \in Left : p <= q
    <3> HIDE DEF Left
    <3> QED BY <2>1, LeastNatural
  <2>3. Dependencies(p, live) \subseteq {q \in live : q < p}
    BY DependenciesBefore
  <2>4. ASSUME NEW d \in Dependencies(p, live) PROVE d \in ToSet(last.done)
    <3>1. d \in live /\ d < p
      BY <2>3
    <3>2. d \in Nat /\ p \in Nat
      BY <3>1 DEF PassIds
    <3>3. ~(p <= d)
      BY <3>1, <3>2
    <3> QED BY <2>2, <3>1, <3>3
  <2> QED BY <1>10, <2>4
<1>13. \A j \in 1 .. Len(last.done) : \A d \in Dependencies(last.done[j], live) :
         \E i \in 1 .. j - 1 : last.done[i] = d
  BY <1>5 DEF GoodRun
<1>14. ToSet(last.done) = live
  BY <1>11, <1>12
<1>15. last.done \in Seq(live) /\ Once(last.done) /\ ExecutionOrder = last.done /\ live = Live
  BY <1>5, <1>6
<1> DEFINE Earlier(s, set) ==
      \A j \in 1 .. Len(s) : \A d \in Dependencies(s[j], set) : \E i \in 1 .. j - 1 : s[i] = d
<1>16. Earlier(last.done, live)
  BY <1>13
<1>17. Earlier(ExecutionOrder, Live)
  <2> HIDE DEF Earlier
  <2> QED BY <1>15, <1>16
<1>18. ExecutionOrder \in Seq(Live) /\ Once(ExecutionOrder) /\ ToSet(ExecutionOrder) = Live
  BY <1>14, <1>15
<1> QED BY <1>17, <1>18

-----------------------------------------------------------------------------
(* What the order guarantees.                                              *)

\* A live pass has one position.
LEMMA PositionFacts ==
  ASSUME GraphTypes, order = ExecutionOrder, NEW p \in Live
  PROVE  /\ Position(p) \in 1 .. Len(order) /\ order[Position(p)] = p
         /\ \A i \in 1 .. Len(order) : order[i] = p => i = Position(p)
<1>1. order \in Seq(Live) /\ Once(order) /\ ToSet(order) = Live
  BY OrderFacts
<1>2. \E i \in 1 .. Len(order) : order[i] = p
  BY <1>1, LenProperties DEF ToSet
<1>3. Position(p) \in 1 .. Len(order) /\ order[Position(p)] = p
  BY <1>2 DEF Position
<1> QED BY <1>1, <1>3 DEF Once

\* What a pass depends on is live and comes before it.
LEMMA DependenciesFirst ==
  ASSUME GraphTypes, order = ExecutionOrder, NEW p \in Live, NEW d \in Dependencies(p, Live)
  PROVE  d \in Live /\ Position(d) < Position(p)
<1>1. Live \in SUBSET PassIds
  BY LiveFacts
<1>2. d \in Live
  BY <1>1, DependenciesBefore
<1> DEFINE j == Position(p)
<1>3. j \in 1 .. Len(order) /\ order[j] = p
  BY PositionFacts
<1>4. \A k \in 1 .. Len(order) : \A e \in Dependencies(order[k], Live) :
        \E i \in 1 .. k - 1 : order[i] = e
  BY OrderFacts
<1> HIDE DEF j
<1>5. PICK i \in 1 .. j - 1 : order[i] = d
  BY <1>3, <1>4
<1>6. i \in 1 .. Len(order) /\ i < j
  <2>1. Len(order) \in Nat
    BY OrderFacts, LenProperties
  <2> QED BY <1>3, <2>1
<1>7. i = Position(d)
  BY <1>2, <1>5, <1>6, PositionFacts
<1> QED BY <1>2, <1>6, <1>7 DEF j

\* The latest writer is a dependency.
LEMMA LatestWriterIsDependency ==
  ASSUME NEW live, NEW p, NEW r \in Uses(p), LatestWriter(p, r, live) # 0
  PROVE  LatestWriter(p, r, live) \in Dependencies(p, live)
  BY DEF Dependencies

\* Live writers of one resource keep their order: each depends on the one before it.
LEMMA WritersKeepOrder ==
  ASSUME GraphTypes, order = ExecutionOrder, NEW p \in Live, NEW r \in passes[p].writes
  PROVE  \A q \in Live : r \in passes[q].writes /\ p < q => Position(p) < Position(q)
<1> DEFINE Wrong == {q \in Live : r \in passes[q].writes /\ p < q /\ ~(Position(p) < Position(q))}
<1> SUFFICES ASSUME Wrong # {} PROVE FALSE
  OBVIOUS
<1>1. Live \in SUBSET PassIds /\ PassIds \subseteq Nat
  BY LiveFacts DEF PassIds
<1>2. PICK q \in Wrong : \A s \in Wrong : q <= s
  <2>1. Wrong \in SUBSET Nat
    BY <1>1
  <2> HIDE DEF Wrong
  <2> QED BY <2>1, LeastNatural
<1>3. q \in Live /\ r \in passes[q].writes /\ p < q /\ ~(Position(p) < Position(q))
  BY <1>2
<1> DEFINE w == LatestWriter(q, r, Live)
<1> DEFINE earlier == {s \in Writers(r) \cap Live : s < q}
<1>4. p \in earlier
  BY <1>1, <1>3 DEF Writers
<1>5. w \in earlier /\ p <= w
  <2>1. /\ earlier # {} => w \in earlier
        /\ \A s \in earlier : s <= w
    BY <1>1, <1>3, LatestWriterFacts
  <2> HIDE DEF earlier, w
  <2> QED BY <1>4, <2>1
<1>6. w \in Live /\ w < q /\ r \in passes[w].writes /\ w \in Nat /\ q \in Nat /\ p \in Nat
  <2> HIDE DEF w
  <2> QED BY <1>1, <1>3, <1>5 DEF Writers
<1> HIDE DEF w, earlier
<1>7. w # 0
  BY <1>1, <1>6 DEF PassIds
<1>8. w \in Dependencies(q, Live)
  <2>1. r \in Uses(q)
    BY <1>3 DEF Uses
  <2> QED BY <1>7, <2>1, LatestWriterIsDependency DEF w
<1>9. Position(w) < Position(q)
  BY <1>3, <1>8, DependenciesFirst
<1>10. Position(w) \in Int /\ Position(p) \in Int /\ Position(q) \in Int
  BY <1>3, <1>6, PositionFacts
<1>11. CASE p = w
  BY <1>3, <1>9, <1>11
<1>12. CASE p # w
  <2>1. p < w
    BY <1>5, <1>6, <1>12
  <2>2. w \notin Wrong
    <3> HIDE DEF Wrong
    <3> QED BY <1>2, <1>6
  <2>3. Position(p) < Position(w)
    BY <1>6, <2>1, <2>2
  <2> QED BY <1>3, <1>9, <1>10, <2>3
<1> QED BY <1>11, <1>12

\* The order is as long as there are live passes.
LEMMA LengthOfOrder ==
  ASSUME GraphTypes
  PROVE  Len(ExecutionOrder) = Cardinality(Live)
<1> DEFINE s == ExecutionOrder
<1> DEFINE n == Len(s)
<1>1. s \in Seq(Live) /\ Once(s) /\ ToSet(s) = Live
  BY OrderFacts
<1> HIDE DEF s
<1>2. n \in Nat /\ DOMAIN s = 1 .. n /\ s \in [1 .. n -> Live]
  BY <1>1, LenProperties
<1>3. s \in Injection(1 .. n, Live)
  BY <1>1, <1>2 DEF Injection, IsInjective, Once
<1>4. s \in Surjection(1 .. n, Live)
  BY <1>1, <1>2 DEF Surjection, ToSet
<1>5. IsFiniteSet(1 .. n) /\ Cardinality(1 .. n) = n
  BY <1>2, IntervalCount
<1> HIDE DEF n
<1>6. Cardinality(Live) = n
  BY <1>3, <1>4, <1>5, FS_Surjection
<1> QED BY <1>6 DEF n, s

\* The order is that of the graph as it is.
OrderIsCurrent == Current => order = ExecutionOrder

\* So the order follows the declarations.
LEMMA OrderFollows ==
  ASSUME GraphTypes, OrderIsCurrent
  PROVE  OrderFollowsDeclarations
<1> SUFFICES ASSUME Current
             PROVE  /\ ToSet(order) = Live /\ Len(order) = Cardinality(Live)
                    /\ \A p \in Live : \A r \in passes[p].reads :
                         LatestWriter(p, r, Live) # 0
                           => Position(LatestWriter(p, r, Live)) < Position(p)
                    /\ \A p, q \in Live :
                         passes[p].writes \cap passes[q].writes # {} /\ p < q
                           => Position(p) < Position(q)
  BY Zenon DEF OrderFollowsDeclarations
<1>1. order = ExecutionOrder
  BY DEF OrderIsCurrent
<1>2. ToSet(order) = Live /\ Len(order) = Cardinality(Live)
  BY <1>1, OrderFacts, LengthOfOrder
<1>3. ASSUME NEW p \in Live, NEW r \in passes[p].reads, LatestWriter(p, r, Live) # 0
      PROVE  Position(LatestWriter(p, r, Live)) < Position(p)
  <2>1. r \in Uses(p)
    BY DEF Uses
  <2>2. LatestWriter(p, r, Live) \in Dependencies(p, Live)
    BY <1>3, <2>1, LatestWriterIsDependency
  <2> QED BY <1>1, <2>2, DependenciesFirst
<1>4. ASSUME NEW p \in Live, NEW q \in Live, passes[p].writes \cap passes[q].writes # {}, p < q
      PROVE  Position(p) < Position(q)
  <2>1. PICK r \in passes[p].writes : r \in passes[q].writes
    BY <1>4
  <2> QED BY <1>1, <1>4, <2>1, WritersKeepOrder
<1> QED BY <1>2, <1>3, <1>4

-----------------------------------------------------------------------------
(* What is culled.                                                         *)

\* As many rounds as there are passes are enough: each adds a pass until one adds none.
LEMMA LiveIsClosed == ASSUME GraphTypes PROVE NeededBy(Live) = Live
<1> PICK n \in Nat : n = Len(passes)
  BY GraphFacts
<1>1. PICK h : IsLiveRun(h)
  BY LiveRun
<1>2. ASSUME NEW i \in 0 .. n PROVE h[i] \in SUBSET PassIds
  BY <1>1 DEF IsLiveRun
<1>3. ASSUME NEW S \in SUBSET PassIds
      PROVE  IsFiniteSet(S) /\ Cardinality(S) \in Nat
  <2>1. IsFiniteSet(PassIds)
    BY IntervalCount DEF PassIds
  <2>2. IsFiniteSet(S)
    BY <2>1, FS_Subset
  <2> QED BY <2>2, FS_CardinalityType
<1> DEFINE Good == {i \in 0 .. n : NeededBy(h[i]) = h[i] \/ Cardinality(h[i]) >= i}
<1>4. 0 \in Good
  <2>1. 0 \in 0 .. n
    OBVIOUS
  <2>2. Cardinality(h[0]) \in Nat
    BY <1>2, <1>3, <2>1
  <2> QED BY <2>1, <2>2
<1>5. ASSUME NEW i \in 1 .. n, i - 1 \in Good PROVE i \in Good
  <2>1. i \in 0 .. n /\ i - 1 \in 0 .. n
    OBVIOUS
  <2> PICK m \in SUBSET PassIds : m = h[i - 1]
    BY <1>2, <2>1
  <2>2. h[i] = NeededBy(m) /\ h[i] \in SUBSET PassIds /\ m \subseteq h[i]
    BY <1>1, NeededByFacts DEF IsLiveRun
  <2>3. CASE h[i] = m
    BY <2>1, <2>2, <2>3
  <2>4. CASE h[i] # m
    <3>1. Cardinality(m) >= i - 1
      BY <1>5, <2>2, <2>4
    <3>2. /\ Cardinality(m) <= Cardinality(h[i])
          /\ Cardinality(h[i]) # Cardinality(m)
      BY <1>3, <2>2, <2>4, FS_Subset
    <3>3. Cardinality(m) \in Nat /\ Cardinality(h[i]) \in Nat
      BY <1>3, <2>2
    <3>4. Cardinality(h[i]) >= i
      BY <3>1, <3>2, <3>3
    <3> QED BY <2>1, <3>4
  <2> QED BY <2>3, <2>4
<1>6. 0 .. n \subseteq Good
  <2> HIDE DEF Good
  <2> QED BY <1>4, <1>5, UpTo
<1>7. Live = h[n] /\ Live \in SUBSET PassIds
  BY <1>1, LiveFacts DEF IsLiveRun
<1>8. NeededBy(Live) = Live \/ Cardinality(Live) >= n
  BY <1>6, <1>7
<1>9. CASE Cardinality(Live) >= n
  <2>1. IsFiniteSet(PassIds) /\ Cardinality(PassIds) = n
    BY IntervalCount DEF PassIds
  <2>2. Cardinality(Live) <= Cardinality(PassIds)
    BY <1>7, <2>1, FS_Subset
  <2>3. Cardinality(Live) = Cardinality(PassIds)
    BY <1>3, <1>7, <1>9, <2>1, <2>2
  <2>4. Live = PassIds
    BY <1>7, <2>1, <2>3, FS_Subset
  <2> QED BY <1>7, <2>4, NeededByFacts
<1> QED BY <1>8, <1>9

\* What holds the producers of the visible resources and of all that its passes read
\* holds every live pass.
LEMMA LiveIsLeast ==
  ASSUME GraphTypes, NEW closed \in SUBSET PassIds,
         {Producer(r) : r \in Visible} \ {0} \subseteq closed,
         \A q \in closed : \A r \in passes[q].reads : Producer(r) \in closed \cup {0}
  PROVE  Live \subseteq closed
<1> PICK n \in Nat : n = Len(passes)
  BY GraphFacts
<1>1. PICK h : IsLiveRun(h)
  BY LiveRun
<1> DEFINE Good == {i \in 0 .. n : h[i] \subseteq closed}
<1>2. 0 \in Good
  BY <1>1 DEF IsLiveRun
<1>3. ASSUME NEW i \in 1 .. n, i - 1 \in Good PROVE i \in Good
  <2>1. i \in 0 .. n /\ h[i - 1] \subseteq closed /\ h[i] = NeededBy(h[i - 1])
    BY <1>1, <1>3 DEF IsLiveRun
  <2>2. NeededBy(h[i - 1]) \subseteq closed
    BY <2>1 DEF NeededBy
  <2> QED BY <2>1, <2>2
<1>4. 0 .. n \subseteq Good
  <2> HIDE DEF Good
  <2> QED BY <1>2, <1>3, UpTo
<1> QED BY <1>1, <1>4 DEF IsLiveRun

\* Where every resource has one writer, that is its producer.
LEMMA OneWriter ==
  ASSUME GraphTypes, WrittenOnceFirst, NEW r \in ResourceIds, NEW p \in PassIds,
         r \in passes[p].writes
  PROVE  Writers(r) = {p} /\ Producer(r) = p
<1>1. Writers(r) \in SUBSET PassIds /\ p \in Writers(r)
  BY DEF Writers
<1>2. IsFiniteSet(PassIds)
  BY GraphFacts, IntervalCount DEF PassIds
<1>3. IsFiniteSet(Writers(r))
  BY <1>1, <1>2, FS_Subset
<1>4. Cardinality(Writers(r)) \in Nat /\ Cardinality(Writers(r)) <= 1
  BY <1>3, FS_CardinalityType DEF WrittenOnceFirst
<1>5. Cardinality(Writers(r)) # 0
  BY <1>1, <1>3, FS_EmptySet
<1>6. Cardinality(Writers(r)) = 1
  BY <1>4, <1>5
<1>7. \E x : Writers(r) = {x}
  BY <1>3, <1>6, FS_Singleton
<1>8. Writers(r) = {p}
  BY <1>1, <1>7
<1> QED BY <1>8, ProducerFacts

\* Live is what the visible resources depend on.
LEMMA LiveIsDependedOn ==
  ASSUME GraphTypes, WrittenOnceFirst
  PROVE  Live = DependedOn({p \in PassIds : passes[p].writes \cap Visible # {}})
<1> DEFINE outputs == {p \in PassIds : passes[p].writes \cap Visible # {}}
<1>1. Live \in SUBSET PassIds /\ Visible \subseteq ResourceIds
  BY LiveFacts DEF Visible
<1>2. ASSUME NEW p \in outputs PROVE p \in Live
  <2>1. PICK r \in Visible : r \in passes[p].writes
    OBVIOUS
  <2>2. p = Producer(r) /\ p # 0
    <3>1. p \in PassIds /\ r \in ResourceIds
      BY <1>1
    <3> QED BY <2>1, <3>1, OneWriter DEF PassIds
  <2>3. PICK h : IsLiveRun(h)
    BY LiveRun
  <2> DEFINE Good == {i \in 0 .. Len(passes) : p \in h[i]}
  <2>4. Len(passes) \in Nat
    BY GraphFacts
  <2>5. 0 \in Good
    BY <2>2, <2>3, <2>4 DEF IsLiveRun
  <2>6. ASSUME NEW i \in 1 .. Len(passes), i - 1 \in Good PROVE i \in Good
    <3>1. i \in 0 .. Len(passes) /\ p \in h[i - 1] /\ h[i] = NeededBy(h[i - 1])
      BY <2>3, <2>4, <2>6 DEF IsLiveRun
    <3> QED BY <3>1 DEF NeededBy
  <2>7. 0 .. Len(passes) \subseteq Good
    <3> HIDE DEF Good
    <3> QED BY <2>4, <2>5, <2>6, UpTo
  <2> QED BY <2>3, <2>4, <2>7 DEF IsLiveRun
<1>3. ASSUME NEW p \in Live, NEW q \in ReadsFrom(p) PROVE q \in Live
  <2>1. PICK r \in passes[p].reads : r \in passes[q].writes
    BY DEF ReadsFrom
  <2>2. q \in PassIds /\ p \in PassIds /\ r \in ResourceIds
    BY <1>1, <2>1, GraphFacts DEF ReadsFrom
  <2>3. q = Producer(r) /\ q # 0
    BY <2>1, <2>2, OneWriter DEF PassIds
  <2>4. q \in NeededBy(Live)
    BY <2>1, <2>3 DEF NeededBy
  <2> QED BY <2>4, LiveIsClosed
<1>4. DependedOn(outputs) \subseteq Live
  <2>1. outputs \subseteq Live /\ \A q \in Live : ReadsFrom(q) \subseteq Live
    BY <1>2, <1>3
  <2> HIDE DEF outputs
  <2> QED BY <1>1, <2>1 DEF DependedOn
<1>5. ASSUME NEW closed \in SUBSET PassIds, outputs \subseteq closed,
             \A q \in closed : ReadsFrom(q) \subseteq closed
      PROVE  Live \subseteq closed
  <2>1. ASSUME NEW r \in Visible, Producer(r) # 0 PROVE Producer(r) \in closed
    <3>1. Producer(r) \in Writers(r) /\ Producer(r) \in PassIds
      BY <2>1, ProducerFacts
    <3>2. Producer(r) \in outputs
      BY <3>1 DEF Writers
    <3> QED BY <1>5, <3>2
  <2>2. ASSUME NEW q \in closed, NEW r \in passes[q].reads, Producer(r) # 0
        PROVE  Producer(r) \in closed
    <3>1. Producer(r) \in Writers(r) /\ Producer(r) \in PassIds
      BY <2>2, ProducerFacts
    <3>2. Producer(r) \in ReadsFrom(q)
      BY <3>1 DEF Writers, ReadsFrom
    <3> QED BY <1>5, <3>2
  <2> HIDE DEF outputs
  <2> QED BY <2>1, <2>2, LiveIsLeast
<1>6. Live \subseteq DependedOn(outputs)
  <2> HIDE DEF outputs
  <2> QED BY <1>1, <1>5 DEF DependedOn
<1> QED BY <1>4, <1>6

\* A pass reads what the one writer wrote.
LEMMA ReadsDeclared ==
  ASSUME GraphTypes, order = ExecutionOrder, WrittenOnceFirst, NEW p \in Live,
         NEW r \in passes[p].reads
  PROVE  WriterInOrder(p, r) = DeclaredWriter(p, r)
<1>1. Live \in SUBSET PassIds /\ p \in PassIds /\ r \in ResourceIds /\ PassIds \subseteq Nat
  BY LiveFacts, GraphFacts DEF PassIds
<1>2. order \in Seq(Live) /\ Len(order) \in Nat /\ \A i \in 1 .. Len(order) : order[i] \in Live
  <2>1. order \in Seq(Live)
    BY OrderFacts
  <2> QED BY <2>1, LenProperties, ElementOfSeq
<1> DEFINE before == {i \in 1 .. Position(p) - 1 : r \in passes[order[i]].writes}
<1> DEFINE declared == {q \in Writers(r) : q < p}
<1>3. WriterInOrder(p, r) = IF before = {} THEN 0 ELSE order[LastOf(before)]
  BY DEF WriterInOrder
<1>4. DeclaredWriter(p, r) = LastOf(declared)
  BY DEF DeclaredWriter
<1>5. Position(p) \in 1 .. Len(order)
  BY <1>2, PositionFacts
<1>6. \A i \in before : i \in 1 .. Len(order) /\ order[i] \in Live /\ order[i] \in Writers(r)
  <2> SUFFICES ASSUME NEW i \in before
               PROVE  i \in 1 .. Len(order) /\ order[i] \in Live /\ order[i] \in Writers(r)
    OBVIOUS
  <2>1. i \in 1 .. Position(p) - 1 /\ r \in passes[order[i]].writes
    OBVIOUS
  <2>2. i \in 1 .. Len(order)
    BY <1>2, <1>5, <2>1
  <2>3. order[i] \in Live /\ order[i] \in PassIds
    BY <1>1, <1>2, <2>2
  <2> QED BY <2>1, <2>2, <2>3 DEF Writers
<1>7. CASE Writers(r) = {}
  <2>1. before = {} /\ declared = {}
    <3> HIDE DEF before
    <3> QED BY <1>6, <1>7
  <2> HIDE DEF before, declared
  <2> QED BY <1>3, <1>4, <2>1, LastOfNone
<1>8. CASE Writers(r) # {}
  <2>1. PICK w \in PassIds : r \in passes[w].writes
    BY <1>8 DEF Writers
  <2>2. Writers(r) = {w} /\ Producer(r) = w /\ w < p
    BY <1>1, <2>1, OneWriter DEF WrittenOnceFirst
  <2>3. declared = {w}
    BY <2>2
  <2>4. LastOf(declared) = w
    <3>1. declared \in SUBSET (1 .. Len(passes)) /\ declared # {}
      BY <2>1, <2>3 DEF PassIds
    <3> HIDE DEF declared
    <3>2. LastOf(declared) \in declared
      BY <3>1, GraphFacts, LastOfProperties
    <3> QED BY <2>3, <3>2
  <2>5. w \in Live
    <3>1. w \in NeededBy(Live)
      BY <1>1, <2>1, <2>2 DEF NeededBy, PassIds
    <3> QED BY <3>1, LiveIsClosed
  <2>6. LatestWriter(p, r, Live) = w
    <3>1. {q \in Writers(r) \cap Live : q < p} = {w}
      BY <2>2, <2>5
    <3> QED BY <2>3, <2>4, <3>1 DEF LatestWriter
  <2>7. Position(w) < Position(p)
    <3>1. w # 0 /\ r \in Uses(p)
      BY <2>1 DEF PassIds, Uses
    <3>2. w \in Dependencies(p, Live)
      BY <2>6, <3>1, LatestWriterIsDependency
    <3> QED BY <3>2, DependenciesFirst
  <2>8. Position(w) \in 1 .. Len(order) /\ order[Position(w)] = w
    BY <2>5, PositionFacts
  <2>9. Position(w) \in before
    BY <1>5, <2>1, <2>7, <2>8
  <2>10. \A i \in before : i = Position(w)
    <3> HIDE DEF before
    <3>1. \A i \in before : i \in 1 .. Len(order) /\ order[i] = w
      BY <1>6, <2>2
    <3> QED BY <2>5, <3>1, PositionFacts
  <2>11. LastOf(before) = Position(w)
    <3>1. before \in SUBSET (1 .. Len(order)) /\ before # {}
      BY <1>6, <2>9
    <3> HIDE DEF before
    <3>2. LastOf(before) \in before
      BY <1>2, <3>1, LastOfProperties
    <3> QED BY <2>10, <3>2
  <2> HIDE DEF before, declared
  <2> QED BY <1>3, <1>4, <2>4, <2>8, <2>9, <2>11
<1> QED BY <1>7, <1>8

\* So culling is exact.
LEMMA Culls ==
  ASSUME GraphTypes, OrderIsCurrent
  PROVE  CullsExactly
<1> SUFFICES ASSUME Current, WrittenOnceFirst
             PROVE  /\ ToSet(order) = DependedOn({p \in PassIds : passes[p].writes \cap Visible # {}})
                    /\ \A p \in ToSet(order) : ReadsWhatWasDeclared(p)
  BY DEF CullsExactly
<1>1. order = ExecutionOrder
  BY DEF OrderIsCurrent
<1>2. ToSet(order) = Live
  BY <1>1, OrderFacts
<1>3. \A p \in Live : ReadsWhatWasDeclared(p)
  BY <1>1, ReadsDeclared DEF ReadsWhatWasDeclared
<1> QED BY <1>2, <1>3, LiveIsDependedOn

-----------------------------------------------------------------------------
(* The steps of the graph.                                                 *)

\* What Compile computes is a matter of the resources and the passes.
LEMMA SameOrder ==
  ASSUME UNCHANGED <<resources, passes>>
  PROVE  UNCHANGED ExecutionOrder
<1>1. UNCHANGED Live
  BY DEF Live, NeededBy, Producer, Writers, Visible, ResourceIds, PassIds
<1> QED BY <1>1 DEF ExecutionOrder, Visit, Ready, Dependencies, LatestWriter, Writers, PassIds, Uses

\* What was used last is all that is unsynchronised.
OnlyLastUsage == pc = "execute" => \A r \in ResourceIds : unsynced[r] \subseteq {usage[r]}

\* The queues whose list was begun are those that were submitted or are about to be.
BatchesAgree ==
  /\ order \in Seq(PassIds) /\ next \in Nat \ {0}
  /\ batch \subseteq Queues
  /\ recordings \in [Queues -> 0 .. 1]
  /\ \A q \in Queues : recordings[q] = 1 <=> q \in submitted \cup batch
  /\ submitted \subseteq Queues
  /\ pc = "build" => created = {} /\ batch = {}

GraphInv == GraphTypes /\ OrderIsCurrent /\ OnlyLastUsage /\ BatchesAgree

\* An empty graph satisfies the invariant.
LEMMA GraphStarts == GraphInit => GraphInv
<1> SUFFICES ASSUME GraphInit PROVE GraphInv
  OBVIOUS
<1>1. GraphTypes
  BY EmptySeq DEF GraphInit, GraphTypes
<1>2. OrderIsCurrent /\ OnlyLastUsage
  BY DEF GraphInit, OrderIsCurrent, Current, OnlyLastUsage
<1>3. BatchesAgree
  BY EmptySeq DEF GraphInit, BatchesAgree
<1> QED BY <1>1, <1>2, <1>3 DEF GraphInv

\* Declarations keep their types; resources are added before passes.
LEMMA GraphTypesPreserved ==
  ASSUME GraphTypes, GraphNext PROVE GraphTypes'
<1> USE DEF GraphTypes
<1>1. ASSUME NEW kind \in {"imported", "transient"}, AddResource(kind) PROVE GraphTypes'
  <2>1. passes = <<>> /\ passes' = passes /\ resources' = Append(resources, kind)
    BY <1>1 DEF AddResource
  <2>2. passes' \in Seq(PassRecords')
    BY <2>1, EmptySeq
  <2>3. resources' \in Seq({"imported", "transient", "output"})
    BY <2>1, AppendProperties
  <2> QED BY <2>2, <2>3
<1>2. ASSUME NEW r \in ResourceIds, MarkOutput(r) PROVE GraphTypes'
  <2>1. passes = <<>> /\ passes' = passes /\ resources' = [resources EXCEPT ![r] = "output"]
    BY <1>2 DEF MarkOutput
  <2>2. passes' \in Seq(PassRecords')
    BY <2>1, EmptySeq
  <2>3. resources' \in Seq({"imported", "transient", "output"})
    BY <2>1, ExceptSeq DEF ResourceIds
  <2> QED BY <2>2, <2>3
<1>3. ASSUME NEW queue \in Queues, NEW reads \in SUBSET ResourceIds, NEW writes \in SUBSET ResourceIds,
             AddPass(queue, reads, writes)
      PROVE  GraphTypes'
  <2> DEFINE pass == [queue |-> queue, reads |-> reads, writes |-> writes]
  <2>1. passes' = Append(passes, pass) /\ resources' = resources
    BY <1>3 DEF AddPass
  <2>2. pass \in PassRecords
    BY DEF PassRecords
  <2>3. passes' \in Seq(PassRecords)
    <3> HIDE DEF pass
    <3> QED BY <2>1, <2>2, AppendProperties
  <2>4. PassRecords' = PassRecords
    BY <2>1 DEF PassRecords, ResourceIds
  <2> QED BY <2>1, <2>3, <2>4
<1>4. ASSUME UNCHANGED <<resources, passes>> PROVE GraphTypes'
  BY <1>4 DEF PassRecords, ResourceIds
<1>5. CASE Reset
  BY <1>5, EmptySeq DEF Reset
<1>6. CASE Compile \/ Execute \/ RecordPass \/ BeginBatch \/ SkipPass \/ Abort \/ Finish
  BY <1>4, <1>6 DEF Compile, Execute, RecordPass, BeginBatch, SkipPass, Abort, Finish, graphVars
<1> QED BY <1>1, <1>2, <1>3, <1>5, <1>6 DEF GraphNext, BuildStep

\* A change of the graph makes its order stale until it is compiled again.
LEMMA OrderIsCurrentPreserved ==
  ASSUME OrderIsCurrent, GraphNext PROVE OrderIsCurrent'
<1> USE DEF OrderIsCurrent, Current
<1>1. CASE BuildStep
  <2>1. stale' = compiled /\ compiled' = compiled
    BY <1>1 DEF BuildStep, AddResource, MarkOutput, AddPass, Build
  <2> QED BY <2>1, Zenon
<1>2. CASE Reset
  BY <1>2 DEF Reset
<1>3. CASE Compile \/ Execute
  <2>1. /\ UNCHANGED <<resources, passes>>
        /\ order' = ExecutionOrder \/ UNCHANGED <<order, compiled, stale>>
    BY <1>3 DEF Compile, Execute
  <2>2. ExecutionOrder' = ExecutionOrder
    BY <2>1, SameOrder
  <2> QED BY <2>1, <2>2
<1>4. CASE RecordPass \/ BeginBatch \/ SkipPass \/ Abort \/ Finish
  <2>1. UNCHANGED <<resources, passes, order, compiled, stale>>
    BY <1>4 DEF RecordPass, BeginBatch, SkipPass, Abort, Finish, graphVars
  <2>2. ExecutionOrder' = ExecutionOrder
    BY <2>1, SameOrder
  <2> QED BY <2>1, <2>2
<1> QED BY <1>1, <1>2, <1>3, <1>4 DEF GraphNext

\* A pass that does not go on with the last usage of a resource has a transition.
LEMMA OnlyLastUsagePreserved ==
  ASSUME OnlyLastUsage, GraphNext PROVE OnlyLastUsage'
<1> USE DEF OnlyLastUsage
<1>1. CASE BuildStep
  BY <1>1 DEF BuildStep, AddResource, MarkOutput, AddPass, Build, recordVars
<1>2. CASE Compile \/ Reset \/ Abort \/ Finish
  BY <1>2 DEF Compile, Reset, Abort, Finish, Leave, recordVars
<1>3. CASE Execute
  BY <1>3 DEF Execute, ResourceIds
<1>4. CASE RecordPass
  BY <1>4 DEF RecordPass, Recording, RecordUsage, Transitions, Access, ResourceIds, graphVars
<1>5. CASE BeginBatch
  BY <1>5 DEF BeginBatch, Recording, RecordUsage, Transitions, Access, ResourceIds, graphVars
<1>6. CASE SkipPass
  BY <1>6 DEF SkipPass, Recording, ResourceIds, graphVars
<1> QED BY <1>1, <1>2, <1>3, <1>4, <1>5, <1>6 DEF GraphNext

\* The order has positions of passes only.
LEMMA OrderTyped ==
  ASSUME GraphTypes, BatchesAgree, GraphNext PROVE (order \in Seq(PassIds))'
<1>1. order \in Seq(PassIds) /\ Len(passes) \in Nat
  BY GraphFacts DEF BatchesAgree
<1>2. ExecutionOrder \in Seq(PassIds)
  BY OrderFacts, LiveFacts, SeqOfMore
<1>3. CASE Compile \/ Execute
  <2>1. UNCHANGED passes /\ (order' = ExecutionOrder \/ order' = order)
    BY <1>3 DEF Compile, Execute
  <2> QED BY <1>1, <1>2, <2>1 DEF PassIds
<1>4. CASE Reset
  BY <1>4, EmptySeq DEF Reset
<1>5. ASSUME NEW queue \in Queues, NEW reads \in SUBSET ResourceIds, NEW writes \in SUBSET ResourceIds,
             AddPass(queue, reads, writes)
      PROVE  (order \in Seq(PassIds))'
  <2> DEFINE pass == [queue |-> queue, reads |-> reads, writes |-> writes]
  <2>1. passes' = Append(passes, pass) /\ order' = order
    BY <1>5 DEF AddPass, Build
  <2>2. Len(passes') = Len(passes) + 1
    <3> HIDE DEF pass
    <3>1. passes \in Seq(PassRecords)
      BY DEF GraphTypes
    <3> QED BY <2>1, <3>1, AppendProperties
  <2>3. PassIds \in SUBSET (1 .. Len(passes'))
    BY <1>1, <2>2 DEF PassIds
  <2>4. order \in Seq(1 .. Len(passes'))
    BY <1>1, <2>3, SeqOfMore
  <2> QED BY <2>1, <2>4 DEF PassIds
<1>6. ASSUME UNCHANGED <<passes, order>> PROVE (order \in Seq(PassIds))'
  BY <1>1, <1>6 DEF PassIds
<1>7. CASE \/ \E kind \in {"imported", "transient"} : AddResource(kind)
           \/ \E r \in ResourceIds : MarkOutput(r)
           \/ RecordPass \/ BeginBatch \/ SkipPass \/ Abort \/ Finish
  BY <1>6, <1>7 DEF AddResource, MarkOutput, Build, RecordPass, BeginBatch, SkipPass, Abort, Finish,
                    graphVars
<1> QED BY <1>3, <1>4, <1>5, <1>7 DEF GraphNext, BuildStep

\* A list is begun only if its queue is neither submitted nor open.
LEMMA BatchesPreserved ==
  ASSUME GraphTypes, BatchesAgree, GraphNext PROVE BatchesAgree'
<1>1. order' \in Seq(PassIds')
  BY OrderTyped
<1>2. ASSUME UNCHANGED recordVars PROVE BatchesAgree'
  BY <1>1, <1>2 DEF BatchesAgree, recordVars
<1>3. CASE BuildStep \/ Compile
  BY <1>2, <1>3 DEF BuildStep, AddResource, MarkOutput, AddPass, Build, Compile
<1>4. CASE Reset
  BY <1>1, <1>4 DEF Reset, BatchesAgree
<1>5. CASE Execute
  BY <1>1, <1>5 DEF Execute, BatchesAgree
<1>6. CASE RecordPass
  BY <1>1, <1>6 DEF RecordPass, Recording, BatchesAgree
<1>7. CASE BeginBatch
  <2> DEFINE queue == NextPass.queue
  <2>1. /\ pc = "execute" /\ pc' = pc /\ queue \notin submitted \cup batch
        /\ submitted' = submitted \cup batch /\ batch' = {queue}
        /\ recordings' = [recordings EXCEPT ![queue] = @ + 1]
    BY <1>7 DEF BeginBatch, Recording, CanBegin
  <2>2. queue \in Queues
    <3>1. next \in 1 .. Len(order)
      BY <1>7 DEF BeginBatch, Recording, BatchesAgree
    <3>2. order[next] \in PassIds
      BY <3>1, ElementOfSeq DEF BatchesAgree
    <3> QED BY <3>2, GraphFacts DEF NextPass
  <2> HIDE DEF queue
  <2>3. recordings[queue] = 0
    BY <2>1, <2>2 DEF BatchesAgree
  <2>4. /\ recordings' \in [Queues -> 0 .. 1]
        /\ \A q \in Queues : recordings'[q] = IF q = queue THEN 1 ELSE recordings[q]
    BY <2>1, <2>2, <2>3 DEF BatchesAgree
  <2>5. batch' \subseteq Queues /\ submitted' \subseteq Queues
    BY <2>1, <2>2 DEF BatchesAgree
  <2>6. ASSUME NEW q \in Queues PROVE recordings'[q] = 1 <=> q \in submitted' \cup batch'
    BY <2>1, <2>4 DEF BatchesAgree
  <2>7. pc' # "build" /\ next' \in Nat \ {0}
    BY <1>7, <2>1 DEF BeginBatch, BatchesAgree
  <2> QED BY <1>1, <2>4, <2>5, <2>6, <2>7 DEF BatchesAgree
<1>8. CASE SkipPass
  BY <1>1, <1>8 DEF SkipPass, Recording, BatchesAgree
<1>9. CASE Abort \/ Finish
  BY <1>1, <1>9 DEF Abort, Finish, Leave, BatchesAgree
<1> QED BY <1>3, <1>4, <1>5, <1>6, <1>7, <1>8, <1>9 DEF GraphNext

\* Every step keeps the invariant.
LEMMA GraphStepPreserves == GraphInv /\ [GraphNext]_<<graphVars, recordVars>> => GraphInv'
<1> SUFFICES ASSUME GraphInv, [GraphNext]_<<graphVars, recordVars>> PROVE GraphInv'
  OBVIOUS
<1>1. CASE GraphNext
  BY <1>1, GraphTypesPreserved, OrderIsCurrentPreserved, OnlyLastUsagePreserved, BatchesPreserved
     DEF GraphInv
<1>2. CASE UNCHANGED <<graphVars, recordVars>>
  <2>1. UNCHANGED <<resources, passes, order, compiled, stale>> /\ UNCHANGED recordVars
    BY <1>2 DEF graphVars
  <2>2. ExecutionOrder' = ExecutionOrder
    BY <2>1, SameOrder
  <2>3. GraphTypes' /\ OrderIsCurrent'
    BY <2>1, <2>2 DEF GraphInv, GraphTypes, PassRecords, ResourceIds, OrderIsCurrent, Current
  <2>4. OnlyLastUsage' /\ BatchesAgree'
    BY <2>1 DEF GraphInv, OnlyLastUsage, BatchesAgree, ResourceIds, PassIds, recordVars
  <2> QED BY <2>3, <2>4 DEF GraphInv
<1> QED BY <1>1, <1>2

\* The graph's invariant holds in every state.
LEMMA GraphInvariant == GraphSpec => []GraphInv
  BY GraphStarts, GraphStepPreserves, PTL DEF GraphSpec

\* Compile orders every live pass once, after the live pass that wrote last, before it, what
\* it reads, and keeps live writers of one resource in the order they were declared in: for
\* every graph, of any number of passes.
THEOREM OrderIsSound == GraphSpec => []OrderFollowsDeclarations
<1>1. GraphInv => OrderFollowsDeclarations
  BY OrderFollows DEF GraphInv
<1> QED BY <1>1, GraphInvariant, PTL

\* In a graph that writes every resource once and first, Compile keeps exactly the passes that
\* an output or an imported resource depends on, and each reads what was declared: the
\* rounds of live_pass_queue reach all of them, and no other.
THEOREM CullingIsExact == GraphSpec => []CullsExactly
<1>1. GraphInv => CullsExactly
  BY Culls DEF GraphInv
<1> QED BY <1>1, GraphInvariant, PTL

\* Execute never records a read and a write of one resource without a barrier or a submission
\* between them, whatever order and batches the passes are recorded in.
THEOREM AccessesStaySynchronised == GraphSpec => []AccessesSynchronised
<1>1. GraphInv => AccessesSynchronised
  BY DEF GraphInv, OnlyLastUsage, AccessesSynchronised
<1> QED BY <1>1, GraphInvariant, PTL

\* Execute begins the list of a queue once, and however it ends every list it has begun is
\* submitted and every transient resource destroyed.
THEOREM NothingIsLeft == GraphSpec => []ExecuteLeavesNothing
<1>1. GraphInv => ExecuteLeavesNothing
  <2> SUFFICES ASSUME BatchesAgree PROVE ExecuteLeavesNothing
    BY DEF GraphInv
  <2>1. \A q \in Queues : recordings[q] \in 0 .. 1
    BY DEF BatchesAgree
  <2>2. \A q \in Queues : recordings[q] <= 1 /\ (recordings[q] > 0 <=> recordings[q] = 1)
    BY <2>1
  <2> QED BY <2>2 DEF BatchesAgree, ExecuteLeavesNothing
<1> QED BY <1>1, GraphInvariant, PTL
=============================================================================

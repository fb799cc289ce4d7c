--------------------------- MODULE RendererProofs ---------------------------
(***************************************************************************)
(* Theorems about Renderer, for any number of frames in flight, images,    *)
(* submissions, handles, generations and events.                           *)
(*                                                                         *)
(* The invariant is built in layers.  Types holds for every variable.      *)
(* ObjectsInv compares what exists with the step of the initialisation.    *)
(* SyncInv describes each operation in flight by its form (Legal) and says *)
(* which operation will wait for each semaphore and signal each fence;     *)
(* Phases says where the client and the renderer can be.  On top of them   *)
(* UsesInv says who keeps a handle that is in use, that the lists of a     *)
(* frame in flight are left alone, and that the slots of the renderer turn *)
(* with the frames.                                                        *)
(***************************************************************************)
EXTENDS Renderer, Integers, FiniteSetTheorems, SequenceTheorems, TLAPS

-----------------------------------------------------------------------------
(* Semaphores, fences and pairs.                                           *)

\* The semaphore of the n-th submission of frame f, and the one that frame f signals for the
\* application's fence.
SubmissionOf(f, n) == <<"submission", f, n>>
UserFenceOf(f) == <<"user_fence", f>>

\* Each semaphore is of one kind, frame, number and image.
LEMMA SemaphoresDiffer ==
  ASSUME NEW f, NEW g, NEW n, NEW m
  PROVE  /\ SubmissionOf(f, n) = SubmissionOf(g, m) => f = g /\ n = m
         /\ UserFenceOf(f) = UserFenceOf(g) => f = g
         /\ ImageAvailable(f) = ImageAvailable(g) => f = g
         /\ RenderFinished(f) = RenderFinished(g) => f = g
         /\ SubmissionOf(f, n) # UserFenceOf(g)
         /\ SubmissionOf(f, n) # ImageAvailable(g)
         /\ SubmissionOf(f, n) # RenderFinished(g)
         /\ UserFenceOf(f) # ImageAvailable(g)
         /\ UserFenceOf(f) # RenderFinished(g)
         /\ ImageAvailable(f) # RenderFinished(g)
  BY DEF SubmissionOf, UserFenceOf, ImageAvailable, RenderFinished

\* Each fence is of one kind and frame.
LEMMA FencesDiffer ==
  ASSUME NEW f, NEW g
  PROVE  /\ FrameFence(f) = FrameFence(g) => f = g
         /\ FrameFence(f) # UploadFence
         /\ FrameFence(f) # UserFence
         /\ FrameFence(f) # NoFence
         /\ UploadFence # UserFence
         /\ UploadFence # NoFence
         /\ UserFence # NoFence
  BY DEF FrameFence, UploadFence, UserFence, NoFence

\* A pair is what it is made of, and is not a tuple without elements.
LEMMA PairsDiffer ==
  ASSUME NEW f, NEW g, NEW a, NEW b
  PROVE  /\ <<f, a>> = <<g, b>> => f = g /\ a = b
         /\ <<f, a>> # NoList
         /\ <<f, a>> # NoImage
         /\ <<f, a>> # NoSlot
  BY DEF NoList, NoImage, NoSlot

-----------------------------------------------------------------------------
(* Recursive functions.                                                    *)

\* A set of naturals that is not empty has a least element.
LEMMA LeastNatural ==
  ASSUME NEW S \in SUBSET Nat, S # {}
  PROVE  \E m \in S : \A k \in S : m <= k
<1>1. IsWellFoundedOn({ss \in Nat \X Nat : ss[1] < ss[2]}, Nat)
  BY NatLessThanWellFounded DEF OpToRel
<1>2. PICK m \in S : \A k \in S : ~(<<k, m>> \in {ss \in Nat \X Nat : ss[1] < ss[2]})
  BY <1>1, WFMin, Zenon
<1>3. ASSUME NEW k \in S PROVE m <= k
  <2>1. <<k, m>> \in Nat \X Nat /\ <<k, m>>[1] = k /\ <<k, m>>[2] = m
    OBVIOUS
  <2>2. ~(k < m)
    BY <1>2, <2>1
  <2> QED BY <2>2
<1> QED BY <1>3

\* Induction up to a number, for a set.
LEMMA UpTo ==
  ASSUME NEW n \in Nat, NEW Good, 0 \in Good, \A i \in 1 .. n : i - 1 \in Good => i \in Good
  PROVE  0 .. n \subseteq Good
<1> DEFINE Bad == {i \in 0 .. n : i \notin Good}
<1> SUFFICES ASSUME Bad # {} PROVE FALSE
  OBVIOUS
<1>1. Bad \in SUBSET Nat
  OBVIOUS
<1>2. PICK m \in Bad : \A k \in Bad : m <= k
  <2> HIDE DEF Bad
  <2> QED BY <1>1, LeastNatural
<1>3. m # 0 /\ m \in 0 .. n
  BY <1>2
<1>4. m \in 1 .. n /\ m - 1 \in 0 .. n /\ ~(m <= m - 1)
  BY <1>3
<1>5. m - 1 \in Good
  BY <1>2, <1>4
<1> QED BY <1>2, <1>4, <1>5

\* h starts from a and takes n steps, the i-th from x to advance[x][i].
Runs(h, n, a, advance) ==
  /\ h[0] = a
  /\ \A i \in 1 .. n : h[i] = advance[h[i - 1]][i]

\* Such a function exists for any number of steps: what runs for one less can be extended.
LEMMA RunExists ==
  ASSUME NEW n \in Nat, NEW S, NEW a \in S, NEW advance \in [S -> [1 .. n -> S]]
  PROVE  \E h \in [0 .. n -> S] : Runs(h, n, a, advance)
<1> DEFINE Good == {m \in 0 .. n : \E h \in [0 .. m -> S] : Runs(h, m, a, advance)}
<1>1. 0 \in Good
  <2> DEFINE h == [i \in 0 .. 0 |-> a]
  <2>1. h \in [0 .. 0 -> S] /\ Runs(h, 0, a, advance)
    BY DEF Runs
  <2> QED BY <2>1
<1>2. ASSUME NEW m \in 1 .. n, m - 1 \in Good
      PROVE  m \in Good
  <2>1. m - 1 \in 0 .. n /\ m \in 0 .. n /\ m \in 0 .. m /\ m # 0
    OBVIOUS
  <2>2. PICK h \in [0 .. m - 1 -> S] : Runs(h, m - 1, a, advance)
    BY <1>2, <2>1
  <2> DEFINE g == [i \in 0 .. m |-> IF i = m THEN advance[h[m - 1]][m] ELSE h[i]]
  <2>3. h[m - 1] \in S
    BY <2>1
  <2>3a. advance[h[m - 1]][m] \in S
    BY <2>3, <2>1
  <2>3b. \A i \in 0 .. m : i # m => i \in 0 .. m - 1
    BY <2>1
  <2>4. g \in [0 .. m -> S]
    BY <2>3a, <2>3b
  <2>5. g[0] = a
    <3>1. 0 \in 0 .. m /\ 0 # m
      BY <2>1
    <3> QED BY <2>2, <3>1 DEF Runs
  <2>6. ASSUME NEW i \in 1 .. m PROVE g[i] = advance[g[i - 1]][i]
    <3>1. i \in 0 .. m /\ i - 1 \in 0 .. m /\ i - 1 # m /\ i - 1 \in 0 .. m - 1
      BY <2>1
    <3>2. g[i - 1] = h[i - 1]
      BY <3>1
    <3>3. CASE i = m
      BY <3>1, <3>2, <3>3
    <3>4. CASE i # m
      <4>1. i \in 1 .. m - 1
        BY <3>4
      <4>2. h[i] = advance[h[i - 1]][i]
        BY <2>2, <4>1 DEF Runs
      <4>3. g[i] = h[i]
        BY <3>1, <3>4
      <4> HIDE DEF g
      <4> QED BY <3>2, <4>2, <4>3
    <3> QED BY <3>3, <3>4
  <2>7. Runs(g, m, a, advance)
    <3> HIDE DEF g
    <3> QED BY <2>5, <2>6 DEF Runs
  <2> QED BY <2>1, <2>4, <2>7
<1>3. 0 .. n \subseteq Good
  <2> HIDE DEF Good
  <2> QED BY <1>1, <1>2, UpTo
<1> QED BY <1>3

\* The elements of a concatenation.
LEMMA ConcatToSet ==
  ASSUME NEW T, NEW s \in Seq(T), NEW t \in Seq(T)
  PROVE  /\ s \o t \in Seq(T)
         /\ ToSet(s \o t) = ToSet(s) \cup ToSet(t)
<1>1. /\ s \o t \in Seq(T) /\ Len(s \o t) = Len(s) + Len(t)
      /\ \A i \in 1 .. Len(s) + Len(t) : (s \o t)[i] = IF i <= Len(s) THEN s[i] ELSE t[i - Len(s)]
  BY ConcatProperties
<1>2. DOMAIN s = 1 .. Len(s) /\ DOMAIN t = 1 .. Len(t) /\ DOMAIN (s \o t) = 1 .. Len(s) + Len(t)
      /\ Len(s) \in Nat /\ Len(t) \in Nat
  BY <1>1, LenProperties
<1>3. ASSUME NEW y, y \in ToSet(s \o t) PROVE y \in ToSet(s) \cup ToSet(t)
  <2>1. PICK i \in 1 .. Len(s) + Len(t) : y = (s \o t)[i]
    BY <1>2, <1>3 DEF ToSet
  <2>2. CASE i <= Len(s)
    BY <1>1, <1>2, <2>1, <2>2 DEF ToSet
  <2>3. CASE ~(i <= Len(s))
    <3>1. i - Len(s) \in DOMAIN t /\ y = t[i - Len(s)]
      BY <1>1, <1>2, <2>1, <2>3
    <3> QED BY <3>1 DEF ToSet
  <2> QED BY <2>2, <2>3
<1>4. ASSUME NEW y, y \in ToSet(s) PROVE y \in ToSet(s \o t)
  <2>1. PICK i \in 1 .. Len(s) : y = s[i]
    BY <1>2, <1>4 DEF ToSet
  <2>2. i \in 1 .. Len(s) + Len(t) /\ i <= Len(s)
    BY <1>2
  <2> QED BY <1>1, <1>2, <2>1, <2>2 DEF ToSet
<1>5. ASSUME NEW y, y \in ToSet(t) PROVE y \in ToSet(s \o t)
  <2>1. PICK i \in 1 .. Len(t) : y = t[i]
    BY <1>2, <1>5 DEF ToSet
  <2>2. i + Len(s) \in 1 .. Len(s) + Len(t) /\ ~(i + Len(s) <= Len(s)) /\ (i + Len(s)) - Len(s) = i
    BY <1>2
  <2> QED BY <1>1, <1>2, <2>1, <2>2 DEF ToSet
<1> QED BY <1>1, <1>3, <1>4, <1>5

\* FlattenSeq is a sequence of what the sequences it is given consist of.
LEMMA FlattenProperties ==
  ASSUME NEW n \in Nat \ {0}, NEW T, NEW ss \in [1 .. n -> Seq(T)]
  PROVE  /\ FlattenSeq(ss) \in Seq(T)
         /\ \A y \in T : y \in ToSet(FlattenSeq(ss)) <=> \E i \in 1 .. n : y \in ToSet(ss[i])
<1>1. Len(ss) = n /\ n # 0 /\ n \in 1 .. n
  OBVIOUS
<1> DEFINE advance == [x \in Seq(T) |-> [i \in 1 .. n |-> x \o ss[i]]]
<1>2. advance \in [Seq(T) -> [1 .. n -> Seq(T)]]
  <2>1. ASSUME NEW x \in Seq(T), NEW i \in 1 .. n PROVE x \o ss[i] \in Seq(T)
    BY ConcatProperties
  <2> QED BY <2>1
<1>3. <<>> \in Seq(T)
  BY EmptySeq
<1>4. PICK h \in [0 .. n -> Seq(T)] : Runs(h, n, <<>>, advance)
  <2> HIDE DEF advance
  <2> QED BY <1>2, <1>3, RunExists
<1>5. \A i \in 1 .. n : h[i] = h[i - 1] \o ss[i]
  <2> SUFFICES ASSUME NEW i \in 1 .. n PROVE h[i] = h[i - 1] \o ss[i]
    OBVIOUS
  <2>1. h[i - 1] \in Seq(T)
    OBVIOUS
  <2>2. h[i] = advance[h[i - 1]][i]
    <3> HIDE DEF advance
    <3> QED BY <1>4 DEF Runs
  <2> QED BY <2>1, <2>2
<1>6. h[1] = ss[1]
  <2>1. h[0] = <<>> /\ 1 \in 1 .. n /\ 1 - 1 = 0
    BY <1>1, <1>4 DEF Runs
  <2>2. h[1] = h[0] \o ss[1]
    BY <1>5, <2>1
  <2>3. <<>> \o ss[1] = ss[1]
    BY <2>1, ConcatEmptySeq
  <2> QED BY <2>1, <2>2, <2>3
<1> DEFINE flat == [i \in 1 .. n |-> h[i]]
<1>7. flat = [i \in 1 .. n |-> IF i = 1 THEN ss[i] ELSE flat[i - 1] \o ss[i]]
  <2>1. ASSUME NEW i \in 1 .. n
        PROVE  flat[i] = IF i = 1 THEN ss[i] ELSE flat[i - 1] \o ss[i]
    <3>1. CASE i = 1
      BY <1>6, <3>1
    <3>2. CASE i # 1
      <4>1. i - 1 \in 1 .. n
        BY <3>2
      <4> QED BY <1>5, <3>2, <4>1
    <3> QED BY <3>1, <3>2
  <2> QED BY <2>1
<1>8. PICK f : /\ FlattenSeq(ss) = f[n]
               /\ f = [i \in 1 .. n |-> IF i = 1 THEN ss[i] ELSE f[i - 1] \o ss[i]]
  <2>1. \E f : f = [i \in 1 .. n |-> IF i = 1 THEN ss[i] ELSE f[i - 1] \o ss[i]]
    BY <1>7
  <2> DEFINE c == CHOOSE f : f = [i \in 1 .. n |-> IF i = 1 THEN ss[i] ELSE f[i - 1] \o ss[i]]
  <2>2. c = [i \in 1 .. n |-> IF i = 1 THEN ss[i] ELSE c[i - 1] \o ss[i]]
    BY <2>1
  <2>3. FlattenSeq(ss) = c[n]
    BY <1>1 DEF FlattenSeq
  <2> HIDE DEF c
  <2> QED BY <2>2, <2>3
<1> DEFINE Good == [i \in 0 .. n |-> {s \in Seq(T) :
                       \A y \in T : y \in ToSet(s) <=> \E j \in 1 .. i : y \in ToSet(ss[j])}]
<1> DEFINE g == [i \in 0 .. n |-> IF i = 0 THEN <<>> ELSE f[i]]
<1>9. \A i \in 1 .. n : f[i] = IF i = 1 THEN ss[i] ELSE f[i - 1] \o ss[i]
  BY <1>8
<1>10. \A i \in 1 .. n : g[i] = g[i - 1] \o ss[i] /\ i \in 0 .. n /\ i - 1 \in 0 .. n
  <2> SUFFICES ASSUME NEW i \in 1 .. n
               PROVE  g[i] = g[i - 1] \o ss[i] /\ i \in 0 .. n /\ i - 1 \in 0 .. n
    OBVIOUS
  <2>1. CASE i = 1
    <3>1. <<>> \o ss[1] = ss[1]
      BY <1>1, ConcatEmptySeq
    <3> QED BY <1>9, <2>1, <3>1
  <2>2. CASE i # 1
    <3>1. i - 1 \in 0 .. n /\ i - 1 # 0 /\ i \in 0 .. n /\ i # 0
      BY <2>2
    <3>2. g[i] = f[i] /\ g[i - 1] = f[i - 1]
      BY <3>1
    <3> HIDE DEF g
    <3> QED BY <1>9, <2>2, <3>1, <3>2
  <2> QED BY <2>1, <2>2
<1> DEFINE Right == {i \in 0 .. n : g[i] \in Good[i]}
<1>11a. 0 \in Right
  <2>1. ToSet(<<>>) = {}
    BY DEF ToSet
  <2> QED BY <1>3, <2>1
<1>11b. ASSUME NEW m \in 1 .. n, m - 1 \in Right PROVE m \in Right
  <2>1. m - 1 \in 0 .. n /\ m \in 0 .. n
    OBVIOUS
  <2>2. g[m - 1] \in Good[m - 1]
    <3> HIDE DEF g, Good
    <3> QED BY <1>11b
  <2>3. PICK s : s = g[m - 1]
    OBVIOUS
  <2>4. s \in Seq(T) /\ \A y \in T : y \in ToSet(s) <=> \E j \in 1 .. m - 1 : y \in ToSet(ss[j])
    BY <2>1, <2>2, <2>3
  <2>5. ss[m] \in Seq(T)
    OBVIOUS
  <2>6. s \o ss[m] \in Seq(T) /\ ToSet(s \o ss[m]) = ToSet(s) \cup ToSet(ss[m])
    BY <2>4, <2>5, ConcatToSet
  <2>7. \A j : j \in 1 .. m <=> j \in 1 .. m - 1 \/ j = m
    OBVIOUS
  <2>8. s \o ss[m] \in Good[m]
    BY <2>1, <2>4, <2>6, <2>7
  <2>9. g[m] = s \o ss[m]
    BY <1>10, <2>3
  <2> HIDE DEF g, Good
  <2> QED BY <2>1, <2>8, <2>9
<1>11. 0 .. n \subseteq Right
  <2> HIDE DEF Right
  <2> QED BY <1>11a, <1>11b, UpTo
<1>12. g[n] \in Good[n] /\ g[n] = f[n]
  <2>1. n \in 0 .. n /\ n # 0
    BY <1>1
  <2>2. n \in Right
    <3> HIDE DEF Right
    <3> QED BY <1>11, <2>1
  <2> QED BY <2>1, <2>2
<1>13. f[n] \in Seq(T) /\ \A y \in T : y \in ToSet(f[n]) <=> \E i \in 1 .. n : y \in ToSet(ss[i])
  BY <1>12
<1> QED BY <1>8, <1>13

-----------------------------------------------------------------------------
(* Types.                                                                  *)

\* Semaphores and fences.
Semaphores ==
  ({"submission"} \X Frames \X Nat) \cup ({"user_fence", "image_available"} \X Frames)
    \cup ({"render_finished"} \X Images)
FenceIds == {NoFence, UploadFence, UserFence} \cup {FrameFence(f) : f \in Frames}

\* What operations use, and operations.
Uses == [handles : SUBSET Handles, list : {NoList} \cup (Frames \X ListQueues),
         slot : {NoSlot} \cup (Handles \X Frames), image : {NoImage} \cup ((0 .. 1) \X Images)]
Operations ==
  [waits : SUBSET Semaphores, signals : SUBSET Semaphores, fence : FenceIds, uses : Uses]

\* The slot maps of the context.
SlotMaps == [generation : [Indices -> 1 .. MaxGeneration], occupied : SUBSET Indices,
             free : Seq(Indices)]

\* The invariant.
Types ==
  /\ TypeOK
  /\ slots \in SlotMaps
  /\ pending \in [DeviceQueues -> Seq(Operations)]

\* The frames and images, and what is made from them.
LEMMA ConstantFacts ==
  /\ kFramesInFlight \in Nat \ {0} /\ ImageCount \in Nat \ {0}
  /\ kMaxSubmittedCommandLists \in Nat \ {0}
  /\ Capacity \in Nat \ {0} /\ MaxGeneration \in Nat \ {0}
  /\ 0 \in Frames /\ 0 \in Images /\ NullHandle \in Handles
  BY SlotMapAssumption, ImageAssumption, FramesAssumption, SubmissionAssumption
  DEF Frames, Images, Handles

\* The next of the frames in their ring.
LEMMA NextInRing ==
  ASSUME NEW f \in Frames
  PROVE  /\ (f + 1) % kFramesInFlight \in Frames
         /\ (f + 1) % kFramesInFlight = IF f + 1 = kFramesInFlight THEN 0 ELSE f + 1
<1>1. kFramesInFlight \in Nat /\ kFramesInFlight > 0 /\ f \in Nat /\ f < kFramesInFlight
  BY ConstantFacts DEF Frames
<1>2. CASE f + 1 = kFramesInFlight
  <2>1. kFramesInFlight % kFramesInFlight = 0
    BY <1>1
  <2> QED BY <1>1, <1>2, <2>1 DEF Frames
<1>3. CASE f + 1 # kFramesInFlight
  <2>1. f + 1 \in 0 .. kFramesInFlight - 1
    BY <1>1, <1>3
  <2>2. (f + 1) % kFramesInFlight = f + 1
    BY <1>1, <2>1
  <2> QED BY <1>3, <2>1, <2>2 DEF Frames
<1> QED BY <1>2, <1>3

\* Semaphores and fences are of these kinds.
LEMMA SemaphoreTypes ==
  ASSUME NEW f \in Frames, NEW n \in Nat, NEW i \in Images
  PROVE  /\ {SubmissionOf(f, n), UserFenceOf(f), ImageAvailable(f), RenderFinished(i)} \subseteq Semaphores
         /\ FrameFence(f) \in FenceIds
  BY DEF Semaphores, FenceIds, SubmissionOf, UserFenceOf, ImageAvailable, RenderFinished

\* A slot map stays one.
LEMMA SlotMapTypes ==
  ASSUME NEW map \in SlotMaps
  PROVE  /\ NextHandle(map) \in Handles /\ Allocate(map) \in SlotMaps
         /\ \A h \in Handles : DestroyHandle(map, h) \in SlotMaps
         /\ DestroyAll(map) \in SlotMaps
<1>1. /\ map.generation \in [Indices -> 1 .. MaxGeneration] /\ map.occupied \subseteq Indices
      /\ map.free \in Seq(Indices)
  BY DEF SlotMaps
<1>2. \A g \in 1 .. MaxGeneration : NextGeneration(g) \in 1 .. MaxGeneration
  BY ConstantFacts DEF NextGeneration
<1>3. NextHandle(map) \in Handles /\ Allocate(map) \in SlotMaps
  <2>1. CASE map.free = <<>>
    BY <2>1, ConstantFacts DEF NextHandle, Allocate
  <2>2. CASE map.free # <<>>
    <3>1. Head(map.free) \in Indices /\ Tail(map.free) \in Seq(Indices)
      BY <1>1, <2>2, HeadTailProperties
    <3>2. <<Head(map.free), map.generation[Head(map.free)]>> \in Handles
      BY <1>1, <3>1 DEF Handles
    <3>3. Allocate(map) = [map EXCEPT !.free = Tail(map.free), !.occupied = map.occupied \cup {Head(map.free)}]
      BY <2>2 DEF Allocate
    <3>4. Allocate(map) \in SlotMaps
      BY <1>1, <3>1, <3>3 DEF SlotMaps
    <3> QED BY <2>2, <3>2, <3>4 DEF NextHandle
  <2> QED BY <2>1, <2>2
<1>4. ASSUME NEW h \in Handles PROVE DestroyHandle(map, h) \in SlotMaps
  <2>1. CASE ~IsValid(map, h)
    BY <2>1 DEF DestroyHandle
  <2>2. CASE IsValid(map, h)
    <3>1. PICK i : i = h[1]
      OBVIOUS
    <3>2. i \in Indices
      BY <1>1, <2>2, <3>1 DEF IsValid
    <3>3. <<i>> \o map.free \in Seq(Indices)
      BY <1>1, <3>2, ConcatProperties
    <3>4. [map.generation EXCEPT ![i] = NextGeneration(@)] \in [Indices -> 1 .. MaxGeneration]
      BY <1>1, <1>2, <3>2
    <3> QED BY <1>1, <2>2, <3>1, <3>3, <3>4 DEF DestroyHandle, SlotMaps
  <2> QED BY <2>1, <2>2
<1>5. DestroyAll(map) \in SlotMaps
  <2>1. [i \in Indices |-> i] \in Seq(Indices)
    BY ConstantFacts DEF Indices
  <2>2. [i \in Indices |-> IF i \in map.occupied THEN NextGeneration(map.generation[i])
                           ELSE map.generation[i]] \in [Indices -> 1 .. MaxGeneration]
    BY <1>1, <1>2
  <2> QED BY <2>1, <2>2 DEF DestroyAll, SlotMaps
<1> QED BY <1>3, <1>4, <1>5

\* The maps that DestroyInTurn makes are all in a set that the first is in and that no
\* destruction leaves.
LEMMA InTurnStays ==
  ASSUME NEW Good, NEW map \in Good, NEW T, NEW handles \in Seq(T),
         \A m \in Good : \A i \in 1 .. Len(handles) : DestroyHandle(m, handles[i]) \in Good
  PROVE  DestroyInTurn(map, handles) \in Good
<1> PICK n \in Nat : n = Len(handles)
  BY LenProperties
<1> DEFINE advance == [m \in Good |-> [i \in 1 .. n |-> DestroyHandle(m, handles[i])]]
<1>1. advance \in [Good -> [1 .. n -> Good]]
  OBVIOUS
<1>2. PICK h \in [0 .. n -> Good] : Runs(h, n, map, advance)
  <2> HIDE DEF advance
  <2> QED BY <1>1, RunExists
<1>3. h = [i \in 0 .. n |-> IF i = 0 THEN map ELSE DestroyHandle(h[i - 1], handles[i])]
  <2>1. ASSUME NEW i \in 0 .. n
        PROVE  h[i] = IF i = 0 THEN map ELSE DestroyHandle(h[i - 1], handles[i])
    <3>1. CASE i = 0
      BY <1>2, <3>1 DEF Runs
    <3>2. CASE i # 0
      <4>1. i \in 1 .. n /\ i - 1 \in 0 .. n
        BY <3>2
      <4>2. h[i] = advance[h[i - 1]][i]
        <5> HIDE DEF advance
        <5> QED BY <1>2, <4>1 DEF Runs
      <4>3. h[i - 1] \in Good
        BY <4>1
      <4> QED BY <3>2, <4>1, <4>2, <4>3
    <3> QED BY <3>1, <3>2
  <2> QED BY <2>1
<1> DEFINE after == CHOOSE f : f = [i \in 0 .. n |-> IF i = 0 THEN map
                                                     ELSE DestroyHandle(f[i - 1], handles[i])]
<1>4. after = [i \in 0 .. n |-> IF i = 0 THEN map ELSE DestroyHandle(after[i - 1], handles[i])]
  BY <1>3
<1>5. DestroyInTurn(map, handles) = after[n]
  BY DEF DestroyInTurn
<1> HIDE DEF after
<1> DEFINE Right == {i \in 0 .. n : after[i] \in Good}
<1>6. 0 \in Right
  BY <1>4
<1>7. ASSUME NEW i \in 1 .. n, i - 1 \in Right PROVE i \in Right
  <2>1. i \in 0 .. n /\ i # 0 /\ after[i - 1] \in Good
    BY <1>7
  <2>2. after[i] = DestroyHandle(after[i - 1], handles[i])
    BY <1>4, <2>1
  <2> QED BY <2>1, <2>2
<1>8. 0 .. n \subseteq Right
  <2> HIDE DEF Right
  <2> QED BY <1>6, <1>7, UpTo
<1> QED BY <1>5, <1>8

-----------------------------------------------------------------------------
(* Steps.                                                                  *)

\* What a step of the context is, inside which the renderer does nothing.
ContextStep ==
  \/ Initialize \/ InitializeDevice \/ InitializeFails \/ Initialized
  \/ ShutdownIdle \/ Teardown \/ TornDown
  \/ BeginFrame \/ ReuseFrame \/ (Drawn /\ Present)
  \/ \E image \in Images : Acquire(image)
  \/ AcquireFails \/ AcquireOutOfDate \/ Resize \/ Recreate \/ RecreateFails
  \/ SubmitCompute \/ SubmitComputeWithFence \/ Upload \/ UploadDone

\* Every step is one of the context, of the renderer, or of the device.
LEMMA NextForms ==
  ASSUME [Next]_vars
  PROVE  \/ ContextStep /\ Outside /\ UNCHANGED rendererVars
         \/ RendererInitialize \/ RendererInitializeFails \/ RendererBeginFrame \/ RendererRecord
         \/ RendererSubmit \/ RendererShutdown \/ Quit
         \/ \E q \in DeviceQueues : DeviceStep(q)
         \/ UNCHANGED vars
<1>1. CASE Step(Outside /\ FrameStep /\ UNCHANGED rendererVars)
  BY <1>1 DEF Step, FrameStep, ContextStep
<1>2. CASE Event(Outside /\ ContextEvent /\ UNCHANGED rendererVars)
  BY <1>2 DEF Event, ContextEvent, ContextStep
<1>3. CASE Step(RendererStep) \/ Event(RendererEvent)
  BY <1>3 DEF Step, Event, RendererStep, RendererEvent
<1> QED BY <1>1, <1>2, <1>3 DEF Next

-----------------------------------------------------------------------------
(* Types are kept.                                                         *)

\* The flags of a frame.
FrameTypes ==
  [acquired : BOOLEAN, consumed : BOOLEAN,
   count : 0 .. kMaxSubmittedCommandLists, last : 0 .. kMaxSubmittedCommandLists]

\* A submission without commands uses nothing.
LEMMA NothingTypes ==
  /\ Nothing \in Uses
  /\ \A waits, signals \in SUBSET Semaphores : \A fence \in FenceIds, uses \in Uses :
       Operation(waits, signals, fence, uses) \in Operations
  BY DEF Nothing, Uses, Operation, Operations

\* The queues and the flags after a submission.
LEMMA SubmitTypes ==
  ASSUME Types, NEW queue \in ListQueues, NEW uses \in Uses, NEW signals \in SUBSET Semaphores,
         NEW after \in Seq(Operations), SubmitList(queue, uses, signals, after)
  PROVE  /\ frame' \in FrameTypes
         /\ pending' \in [DeviceQueues -> Seq(Operations)]
<1>1. /\ frame \in FrameTypes /\ current_frame \in Frames
      /\ pending \in [DeviceQueues -> Seq(Operations)] /\ queue \in DeviceQueues
  BY DEF Types, TypeOK, FrameTypes, ListQueues, DeviceQueues
<1>2. CASE frame.count >= kMaxSubmittedCommandLists
  BY <1>1, <1>2 DEF SubmitList
<1>3. CASE ~(frame.count >= kMaxSubmittedCommandLists)
  <2>1. frame.count + 1 \in 0 .. kMaxSubmittedCommandLists /\ frame.last \in Nat
    BY <1>1, <1>3, ConstantFacts DEF FrameTypes
  <2>2. PICK n : n = frame.count + 1
    OBVIOUS
  <2>3. PICK image : image = IF queue = "graphics" THEN ImageWait ELSE {}
    OBVIOUS
  <2>4. image \subseteq Semaphores /\ ChainWait \subseteq Semaphores /\ Submission(n) \in Semaphores
    <3>1. \A f \in Frames : \A m \in Nat : SubmissionOf(f, m) \in Semaphores /\ ImageAvailable(f) \in Semaphores
      BY DEF Semaphores, SubmissionOf, ImageAvailable
    <3> QED BY <1>1, <2>1, <2>2, <2>3, <3>1 DEF ImageWait, ChainWait, Submission, SubmissionOf
  <2>5. PICK waits : waits = ChainWait \cup image
    OBVIOUS
  <2>6. PICK all : all = {Submission(n)} \cup signals
    OBVIOUS
  <2>7. PICK used : used = [uses EXCEPT !.list = <<current_frame, queue>>]
    OBVIOUS
  <2>8. used \in Uses
    BY <1>1, <2>7 DEF Uses
  <2>9. PICK operation : operation = Operation(waits, all, NoFence, used)
    OBVIOUS
  <2>10. operation \in Operations
    BY <2>4, <2>5, <2>6, <2>8, <2>9, NothingTypes DEF FenceIds
  <2>11. /\ pending' = [pending EXCEPT ![queue] = Append(pending[queue], operation) \o after]
         /\ frame' = [frame EXCEPT !.count = n, !.last = n, !.consumed = frame.consumed \/ image # {}]
    BY <1>3, <2>2, <2>3, <2>5, <2>6, <2>7, <2>9 DEF SubmitList
  <2>12. Append(pending[queue], operation) \o after \in Seq(Operations)
    BY <1>1, <2>10, AppendProperties, ConcatProperties
  <2> QED BY <1>1, <2>1, <2>2, <2>11, <2>12 DEF FrameTypes
<1> QED BY <1>2, <1>3

\* The life of a context.
LEMMA LifeTypes ==
  ASSUME Types, UNCHANGED rendererVars,
         \/ Initialize \/ InitializeDevice \/ InitializeFails \/ Initialized
         \/ ShutdownIdle \/ Teardown \/ TornDown
  PROVE  Types'
<1> USE ConstantFacts DEF contextVars, initVars, deviceVars, swapChainVars, rendererVars
<1>1. EmptyMap \in SlotMaps /\ \A f \in Frames : <<>> \in Seq(Handles)
  <2>1. [i \in Indices |-> i] \in Seq(Indices)
    BY DEF Indices
  <2> QED BY <2>1 DEF EmptyMap, SlotMaps
<1>2. NoFlags \in FrameTypes /\ InitialLists \in [ListQueues -> {"initial", "recording", "executable"}]
  BY DEF NoFlags, InitialLists, FrameTypes
<1>3. CASE Fresh /\ pc' \in {"create", "off"} /\ UNCHANGED swapChainVars
        /\ pending' \in [DeviceQueues -> Seq(Operations)]
  BY <1>1, <1>2, <1>3 DEF Fresh, Types, TypeOK, FrameTypes
<1>4. CASE Initialize
  BY <1>3, <1>4 DEF Initialize, Types
<1>5. CASE TornDown
  <2>1. \A q \in DeviceQueues : <<>> \in Seq(Operations)
    OBVIOUS
  <2> QED BY <1>3, <1>5, <2>1 DEF TornDown, Types
<1>6. CASE InitializeDevice \/ Teardown
  BY <1>6 DEF InitializeDevice, Teardown, Types, TypeOK
<1>7. CASE InitializeFails
  BY <1>7 DEF InitializeFails, Types, TypeOK
<1>8. CASE Initialized
  BY <1>8 DEF Initialized, Types, TypeOK
<1>9. CASE ShutdownIdle
  <2>1. slots' \in SlotMaps
    BY <1>9, SlotMapTypes DEF ShutdownIdle, Types
  <2>2. 0 \in 0 .. 1 /\ FALSE \in BOOLEAN
    OBVIOUS
  <2> QED BY <1>9, <2>1, <2>2 DEF ShutdownIdle, DestroySwapChainResources, Types, TypeOK
<1> QED BY <1>4, <1>5, <1>6, <1>7, <1>8, <1>9

\* The steps of a frame, of the swap chain and of an upload.
LEMMA FrameTypesKept ==
  ASSUME Types, UNCHANGED rendererVars,
         \/ BeginFrame \/ ReuseFrame \/ Present
         \/ \E image \in Images : Acquire(image)
         \/ AcquireFails \/ AcquireOutOfDate \/ Resize \/ Recreate \/ RecreateFails
         \/ SubmitCompute \/ SubmitComputeWithFence \/ Upload \/ UploadDone
  PROVE  Types'
<1> USE ConstantFacts DEF contextVars, initVars, deviceVars, swapChainVars, rendererVars
<1>1. CASE BeginFrame
  BY <1>1 DEF BeginFrame, Types, TypeOK
<1>2. CASE ReuseFrame
  <2>1. slots' \in SlotMaps
    <3>1. slots \in SlotMaps /\ deferred[current_frame] \in Seq(Handles)
      BY DEF Types, TypeOK
    <3>2. \A m \in SlotMaps : \A i \in 1 .. Len(deferred[current_frame]) :
            DestroyHandle(m, deferred[current_frame][i]) \in SlotMaps
      BY <3>1, SlotMapTypes, ElementOfSeq
    <3>3. DestroyInTurn(slots, deferred[current_frame]) \in SlotMaps
      BY <3>1, <3>2, InTurnStays
    <3> QED BY <1>2, <3>3 DEF ReuseFrame, ProcessDeferredDestroy
  <2>2. deferred' \in [Frames -> Seq(Handles)]
    BY <1>2 DEF ReuseFrame, ProcessDeferredDestroy, Types, TypeOK
  <2>3. lists' \in [Frames -> [ListQueues -> {"initial", "recording", "executable"}]]
    BY <1>2 DEF ReuseFrame, InitialLists, Types, TypeOK
  <2> QED BY <1>2, <2>1, <2>2, <2>3 DEF ReuseFrame, NoFlags, Types, TypeOK
<1>3. CASE Present
  <2>1. \A m \in Nat : SubmissionOf(current_frame, m) \in Semaphores /\ ImageAvailable(current_frame) \in Semaphores
    BY DEF Types, TypeOK, Semaphores, SubmissionOf, ImageAvailable
  <2>2. RenderFinished(current_image) \in Semaphores /\ FrameFence(current_frame) \in FenceIds
        /\ current_frame \in Frames /\ current_image \in Images /\ NoFence \in FenceIds
        /\ chain \in 0 .. 1 /\ frame.last \in Nat
    BY SemaphoreTypes DEF Types, TypeOK, FenceIds
  <2>3. ChainWait \cup ImageWait \subseteq Semaphores
    BY <2>1, <2>2 DEF ChainWait, ImageWait, Submission, SubmissionOf
  <2>4. PICK waits : waits = ChainWait \cup ImageWait
    OBVIOUS
  <2>5. PICK signals : signals = IF frame.acquired THEN {CurrentRenderFinished(current_frame)} ELSE {}
    OBVIOUS
  <2>6. PICK closing : closing = Operation(waits, signals, PresentFence, Nothing)
    OBVIOUS
  <2>7. waits \subseteq Semaphores /\ signals \subseteq Semaphores /\ PresentFence \in FenceIds
    BY <2>2, <2>3, <2>4, <2>5 DEF CurrentRenderFinished, PresentFence
  <2>8. closing \in Operations
    BY <2>6, <2>7, NothingTypes
  <2>9. PICK uses : uses = [Nothing EXCEPT !.image = BackBuffer]
    OBVIOUS
  <2>10. uses \in Uses
    BY <2>2, <2>9 DEF Uses, Nothing, BackBuffer
  <2>11. PresentImage(current_frame) \in Operations
    BY <2>2, <2>9, <2>10, NothingTypes DEF PresentImage, CurrentRenderFinished
  <2>12. pending' \in [DeviceQueues -> Seq(Operations)]
    <3>1. /\ Append(pending["graphics"], closing) \in Seq(Operations)
          /\ Append(pending["present"], PresentImage(current_frame)) \in Seq(Operations)
          /\ pending \in [DeviceQueues -> Seq(Operations)]
      BY <2>8, <2>11, AppendProperties DEF Types, DeviceQueues
    <3>2. pending' = [pending EXCEPT !["graphics"] = Append(pending["graphics"], closing),
                       !["present"] = IF frame.acquired
                         THEN Append(pending["present"], PresentImage(current_frame))
                         ELSE pending["present"]]
      BY <1>3, <2>4, <2>5, <2>6 DEF Present, Types, DeviceQueues
    <3> QED BY <3>1, <3>2 DEF DeviceQueues
  <2>13. current_frame' \in Frames
    BY <1>3, <2>2, NextInRing DEF Present
  <2>14. frame' \in FrameTypes /\ pc' = "idle"
    BY <1>3 DEF Present, NoFlags, FrameTypes
  <2>15. UNCHANGED <<resume, deferred, slots, staging, lists, chain, retired, current_image, owned,
                    renderer, frame_slot, resources, hdr>>
    BY <1>3 DEF Present
  <2> QED BY <2>12, <2>13, <2>14, <2>15 DEF FrameTypes, Types, TypeOK
<1>4. CASE \E image \in Images : Acquire(image)
  BY <1>4 DEF Acquire, AcquireNextImage, Types, TypeOK
<1>5. CASE AcquireFails \/ AcquireOutOfDate \/ Resize
  BY <1>5 DEF AcquireFails, AcquireOutOfDate, Resize, Types, TypeOK
<1>6. CASE Recreate \/ RecreateFails
  <2>1. chain' \in 0 .. 1 /\ retired' \in BOOLEAN /\ owned' \subseteq Images
    <3>1. chain \in 0 .. 1 /\ owned \subseteq Images
      BY DEF Types, TypeOK
    <3>2. CASE Recreate
      <4>1. chain' = 1 - chain /\ retired' = FALSE /\ owned' = {}
        BY <3>2 DEF Recreate, CreateSwapChain
      <4>2. chain = 0 \/ chain = 1
        BY <3>1
      <4>3. chain' \in 0 .. 1
        BY <4>1, <4>2
      <4> QED BY <4>1, <4>3
    <3>3. CASE RecreateFails
      BY <3>1, <3>3 DEF RecreateFails, CreateSwapChainFails
    <3> QED BY <1>6, <3>2, <3>3
  <2> QED BY <1>6, <2>1 DEF Recreate, RecreateFails, CreateSwapChain, CreateSwapChainFails, Types, TypeOK
<1>7. CASE SubmitCompute \/ SubmitComputeWithFence
  <2>1. lists' \in [Frames -> [ListQueues -> {"initial", "recording", "executable"}]]
    <3>1. lists' = [lists EXCEPT ![current_frame]["compute"] = "executable"]
      BY <1>7 DEF SubmitCompute, SubmitComputeWithFence, ListBecomes
    <3> QED BY <3>1 DEF Types, TypeOK
  <2>2. current_frame \in Frames /\ "compute" \in ListQueues /\ Nothing \in Uses
    BY NothingTypes DEF Types, TypeOK, ListQueues
  <2>3. UserFenceSemaphore \in Semaphores /\ UserFence \in FenceIds
    BY <2>2 DEF UserFenceSemaphore, Semaphores, FenceIds
  <2>4. Operation({UserFenceSemaphore}, {}, UserFence, Nothing) \in Operations
    BY <2>2, <2>3, NothingTypes
  <2>5. PICK forward : forward = Operation({UserFenceSemaphore}, {}, UserFence, Nothing)
    OBVIOUS
  <2>6. <<forward>> \in Seq(Operations) /\ <<>> \in Seq(Operations)
    BY <2>4, <2>5
  <2>7. frame' \in FrameTypes /\ pending' \in [DeviceQueues -> Seq(Operations)]
    <3>1. CASE SubmitCompute
      BY <2>2, <2>6, <3>1, SubmitTypes DEF SubmitCompute
    <3>2. CASE SubmitComputeWithFence
      BY <2>2, <2>3, <2>5, <2>6, <3>2, SubmitTypes DEF SubmitComputeWithFence
    <3> QED BY <1>7, <3>1, <3>2
  <2> QED BY <1>7, <2>1, <2>7 DEF SubmitCompute, SubmitComputeWithFence, FrameTypes, Types, TypeOK
<1>8. CASE Upload
  <2>1. slots \in SlotMaps /\ NextHandle(slots) \in Handles /\ Allocate(slots) \in SlotMaps
    BY SlotMapTypes DEF Types
  <2>2. PICK operation : operation = Operation({}, {}, UploadFence, [Nothing EXCEPT !.handles = {NextHandle(slots)}])
    OBVIOUS
  <2>3. [Nothing EXCEPT !.handles = {NextHandle(slots)}] \in Uses
    BY <2>1 DEF Nothing, Uses
  <2>4. operation \in Operations
    BY <2>2, <2>3, NothingTypes DEF FenceIds
  <2>5. pending' = [pending EXCEPT !["graphics"] = Append(pending["graphics"], operation)]
    BY <1>8, <2>2 DEF Upload, ExecuteImmediate, Types
  <2>6. pending' \in [DeviceQueues -> Seq(Operations)]
    BY <2>4, <2>5, AppendProperties DEF Types, DeviceQueues
  <2> QED BY <1>8, <2>1, <2>6 DEF Upload, CreateResource, Types, TypeOK
<1>9. CASE UploadDone
  BY <1>9, SlotMapTypes DEF UploadDone, Types, TypeOK
<1> QED BY <1>1, <1>2, <1>3, <1>4, <1>5, <1>6, <1>7, <1>8, <1>9

\* What the renderer does.
LEMMA RendererTypes ==
  ASSUME Types,
         \/ RendererInitialize \/ RendererInitializeFails \/ RendererBeginFrame \/ RendererRecord
         \/ RendererSubmit \/ RendererShutdown \/ Quit
  PROVE  Types'
<1> USE ConstantFacts DEF contextVars, initVars, deviceVars, swapChainVars, rendererVars
<1>1. slots \in SlotMaps /\ NextHandle(slots) \in Handles /\ Allocate(slots) \in SlotMaps
  BY SlotMapTypes DEF Types
<1>2. ASSUME NEW h \in Handles PROVE Defer(h) \in [Frames -> Seq(Handles)]
  <2>1. deferred \in [Frames -> Seq(Handles)] /\ current_frame \in Frames
    BY DEF Types, TypeOK
  <2>2. Append(deferred[current_frame], h) \in Seq(Handles)
    BY <2>1, AppendProperties
  <2> QED BY <2>1, <2>2 DEF Defer
<1>3. ASSUME NEW queue \in ListQueues, NEW state \in {"initial", "recording", "executable"},
             ListBecomes(queue, state)
      PROVE  lists' \in [Frames -> [ListQueues -> {"initial", "recording", "executable"}]]
  BY <1>3 DEF ListBecomes, Types, TypeOK
<1>4. CASE RendererInitialize
  BY <1>1, <1>4 DEF RendererInitialize, CreateResource, Types, TypeOK
<1>5. CASE RendererInitializeFails
  <2>1. deferred' \in [Frames -> Seq(Handles)]
    BY <1>1, <1>2, <1>5 DEF RendererInitializeFails
  <2> QED BY <1>1, <1>5, <2>1 DEF RendererInitializeFails, CreateResource, Types, TypeOK
<1>6. CASE RendererBeginFrame
  BY <1>6 DEF RendererBeginFrame, Types, TypeOK
<1>7. CASE RendererRecord
  <2>1. lists' \in [Frames -> [ListQueues -> {"initial", "recording", "executable"}]]
    BY <1>3, <1>7 DEF RendererRecord, ListQueues
  <2> QED BY <1>1, <1>7, <2>1 DEF RendererRecord, CreateResource, Types, TypeOK
<1>8. CASE RendererSubmit
  <2>1. lists' \in [Frames -> [ListQueues -> {"initial", "recording", "executable"}]]
    BY <1>3, <1>8 DEF RendererSubmit, ListQueues
  <2>2. deferred' \in [Frames -> Seq(Handles)]
    BY <1>2, <1>8 DEF RendererSubmit, Types, TypeOK
  <2>3. PICK uses : uses = [Nothing EXCEPT !.handles = {resources, hdr} \ {NullHandle},
                                           !.slot = FrameSlot, !.image = BackBuffer]
    OBVIOUS
  <2>4. uses \in Uses
    BY <2>3 DEF Nothing, Uses, FrameSlot, BackBuffer, Types, TypeOK
  <2>5. <<>> \in Seq(Operations) /\ {} \in SUBSET Semaphores /\ "graphics" \in ListQueues
    BY DEF ListQueues
  <2>6. frame' \in FrameTypes /\ pending' \in [DeviceQueues -> Seq(Operations)]
    BY <1>8, <2>3, <2>4, <2>5, SubmitTypes DEF RendererSubmit
  <2>7. frame_slot' \in Frames
    BY <1>8, NextInRing DEF RendererSubmit, NextSlot, Types, TypeOK
  <2>8. /\ UNCHANGED <<resources, pc, resume, current_frame, slots, staging, chain, retired,
                       current_image, owned>>
        /\ hdr' = NullHandle /\ renderer' = "ready"
    BY <1>8 DEF RendererSubmit
  <2> QED BY <2>1, <2>2, <2>6, <2>7, <2>8 DEF FrameTypes, Types, TypeOK
<1>9. CASE RendererShutdown \/ Quit
  <2>1. deferred' \in [Frames -> Seq(Handles)]
    BY <1>2, <1>9 DEF RendererShutdown, Quit, RendererOff, Types, TypeOK
  <2> QED BY <1>9, <2>1 DEF RendererShutdown, Quit, RendererOff, Types, TypeOK
<1> QED BY <1>4, <1>5, <1>6, <1>7, <1>8, <1>9

\* A step of the device.
LEMMA DeviceTypes ==
  ASSUME Types, NEW q \in DeviceQueues, DeviceStep(q)
  PROVE  Types'
<1> USE ConstantFacts DEF contextVars, initVars, deviceVars, swapChainVars, rendererVars
<1>1. pending' \in [DeviceQueues -> Seq(Operations)]
  <2>1. pending' = [pending EXCEPT ![q] = Tail(pending[q])] /\ pending[q] # <<>>
    BY DEF DeviceStep, Complete, CanComplete, Types
  <2>2. Tail(pending[q]) \in Seq(Operations)
    BY <2>1, HeadTailProperties DEF Types
  <2> QED BY <2>1, <2>2 DEF Types
<1>2. owned' \subseteq Images
  BY DEF DeviceStep, Presented, Types, TypeOK
<1> QED BY <1>1, <1>2 DEF DeviceStep, Complete, Types, TypeOK

\* The types are an invariant.
LEMMA TypesKept == Types /\ [Next]_vars => Types'
<1> SUFFICES ASSUME Types, [Next]_vars PROVE Types'
  OBVIOUS
<1>1. CASE ContextStep /\ UNCHANGED rendererVars
  BY <1>1, LifeTypes, FrameTypesKept DEF ContextStep
<1>2. CASE UNCHANGED vars
  BY <1>2 DEF vars, contextVars, initVars, deviceVars, swapChainVars, rendererVars, Types, TypeOK
<1> QED BY <1>1, <1>2, NextForms, RendererTypes, DeviceTypes

\* Everything has its type to begin with.
LEMMA InitTypes == Init => Types
<1> SUFFICES ASSUME Init PROVE Types
  OBVIOUS
<1>1. [i \in Indices |-> i] \in Seq(Indices)
  BY ConstantFacts DEF Indices
<1>2. EmptyMap \in SlotMaps
  BY <1>1, ConstantFacts DEF EmptyMap, SlotMaps
<1>3. pending \in [DeviceQueues -> Seq(Operations)] /\ deferred \in [Frames -> Seq(Handles)]
  BY DEF Init, ContextInit, DeviceInit
<1>4. frame \in FrameTypes
  BY ConstantFacts DEF Init, ContextInit, NoFlags, FrameTypes
<1>5. lists \in [Frames -> [ListQueues -> {"initial", "recording", "executable"}]]
  BY DEF Init, ContextInit, InitialLists
<1>6. /\ pc = "off" /\ resume = "idle" /\ current_frame = 0 /\ slots = EmptyMap
      /\ staging = NullHandle /\ chain = 0 /\ retired = FALSE /\ current_image = 0 /\ owned = {}
      /\ renderer = "off" /\ frame_slot = 0 /\ resources = NullHandle /\ hdr = NullHandle
  BY DEF Init, ContextInit, SwapChainInit
<1>7. chain \in 0 .. 1
  BY <1>6
<1>8. retired \in BOOLEAN
  BY <1>6
<1>9. owned \subseteq Images
  BY <1>6
<1> QED BY <1>2, <1>3, <1>4, <1>5, <1>6, <1>7, <1>8, <1>9, ConstantFacts DEF FrameTypes, Types, TypeOK

-----------------------------------------------------------------------------
(* Objects: what exists at each step of the initialisation and the         *)
(* teardown, and why the order of the two is right.                        *)

\* Objects there is one of per frame, and objects there is one of.
FrameKinds == {"command_pools", "submission_semaphores", "frame_semaphores", "frame_fence"}
OneOfAKind ==
  {<<"instance">>, <<"debug_messenger">>, <<"surface">>, <<"device">>, <<"allocator">>,
   <<"pipeline_cache">>, <<"immediate_pool">>, <<"swapchain">>, <<"resources">>,
   <<"descriptor_pools">>, <<"pipelines">>, <<"layouts">>}
AllObjects == OneOfAKind \cup (FrameKinds \X Frames)

\* What all frames have, in the order of ObjectsOf: each of it is of a frame, and that of
\* each frame is there.
OfFrames == OfAllFrames(FrameObjects)
TornOfFrames == OfAllFrames(FrameTeardown)

\* The objects of the frames, in the order in which all frames make and destroy them.
LEMMA FramesHaveTheirOwn ==
  /\ OfFrames \in Seq(FrameKinds \X Frames) /\ TornOfFrames \in Seq(FrameKinds \X Frames)
  /\ \A o \in FrameKinds \X Frames : o \in ToSet(TornOfFrames)
<1> DEFINE made == [n \in 1 .. kFramesInFlight |-> FrameObjects(n - 1)]
<1> DEFINE torn == [n \in 1 .. kFramesInFlight |-> FrameTeardown(n - 1)]
<1>1. ASSUME NEW f \in Frames
      PROVE  /\ FrameObjects(f) \in Seq(FrameKinds \X Frames)
             /\ FrameTeardown(f) \in Seq(FrameKinds \X Frames)
             /\ \A k \in FrameKinds : <<k, f>> \in ToSet(FrameTeardown(f))
  <2>1. \A k \in FrameKinds : <<k, f>> \in FrameKinds \X Frames
    OBVIOUS
  <2>2. FrameObjects(f) \in Seq(FrameKinds \X Frames) /\ FrameTeardown(f) \in Seq(FrameKinds \X Frames)
    BY <2>1 DEF FrameObjects, FrameTeardown, FrameKinds
  <2>3. PICK s : s = FrameTeardown(f)
    OBVIOUS
  <2>4. /\ DOMAIN s = 1 .. 4 /\ s[1] = <<"submission_semaphores", f>>
        /\ s[2] = <<"frame_semaphores", f>> /\ s[3] = <<"frame_fence", f>>
        /\ s[4] = <<"command_pools", f>>
    BY <2>3 DEF FrameTeardown
  <2>5. {s[1], s[2], s[3], s[4]} \subseteq ToSet(s)
    BY <2>4 DEF ToSet
  <2>6. \A k \in FrameKinds : <<k, f>> \in {s[1], s[2], s[3], s[4]}
    BY <2>4 DEF FrameKinds
  <2> QED BY <2>2, <2>3, <2>5, <2>6
<1>2. \A n \in 1 .. kFramesInFlight : n - 1 \in Frames
  BY ConstantFacts DEF Frames
<1>3. /\ made \in [1 .. kFramesInFlight -> Seq(FrameKinds \X Frames)]
      /\ torn \in [1 .. kFramesInFlight -> Seq(FrameKinds \X Frames)]
  BY <1>1, <1>2
<1>4. OfFrames = FlattenSeq(made) /\ TornOfFrames = FlattenSeq(torn)
  BY DEF OfFrames, TornOfFrames, OfAllFrames
<1>5. ASSUME NEW k \in FrameKinds, NEW f \in Frames PROVE <<k, f>> \in ToSet(FlattenSeq(torn))
  <2>1. f + 1 \in 1 .. kFramesInFlight /\ (f + 1) - 1 = f
    BY ConstantFacts DEF Frames
  <2>2. torn[f + 1] = FrameTeardown(f)
    BY <2>1
  <2>3. <<k, f>> \in ToSet(torn[f + 1]) /\ <<k, f>> \in FrameKinds \X Frames
    BY <1>1, <2>2
  <2> HIDE DEF torn
  <2> QED BY <1>3, <2>1, <2>3, FlattenProperties, ConstantFacts
<1> HIDE DEF made, torn
<1> QED BY <1>3, <1>4, <1>5, FlattenProperties, ConstantFacts

\* The order of creation: the instance first, then the device.
LEMMA CreationFacts ==
  /\ Len(CreationOrder) \in Nat /\ Len(CreationOrder) >= 7
  /\ CreationOrder[1] = <<"instance">> /\ CreationOrder[2] = <<"debug_messenger">>
  /\ CreationOrder[3] = <<"surface">> /\ CreationOrder[4] = <<"device">>
  /\ CreationOrder[5] = <<"allocator">> /\ CreationOrder[6] = <<"pipeline_cache">>
  /\ \A i \in 7 .. Len(CreationOrder) :
       CreationOrder[i] \in (FrameKinds \X Frames) \cup {<<"immediate_pool">>}
<1>1. PICK T : T = AllObjects
  OBVIOUS
<1>2. PICK first : first = InstanceObjects \o SurfaceObjects \o DeviceObjects \o CacheObjects
  OBVIOUS
<1>3. PICK a, b, c, d :
        /\ a = InstanceObjects /\ b = SurfaceObjects /\ c = DeviceObjects /\ d = CacheObjects
  OBVIOUS
<1>3a. /\ a \in Seq(T) /\ Len(a) = 2 /\ a[1] = <<"instance">> /\ a[2] = <<"debug_messenger">>
       /\ b \in Seq(T) /\ Len(b) = 1 /\ b[1] = <<"surface">>
       /\ c \in Seq(T) /\ Len(c) = 2 /\ c[1] = <<"device">> /\ c[2] = <<"allocator">>
       /\ d \in Seq(T) /\ Len(d) = 1 /\ d[1] = <<"pipeline_cache">>
  BY <1>1, <1>3 DEF InstanceObjects, SurfaceObjects, DeviceObjects, CacheObjects, AllObjects, OneOfAKind
<1>3b. PICK ab, abc : ab = a \o b /\ abc = ab \o c
  OBVIOUS
<1>3c. ab \in Seq(T) /\ Len(ab) = 3 /\ ab[1] = a[1] /\ ab[2] = a[2] /\ ab[3] = b[1]
  <2>1. /\ ab \in Seq(T) /\ Len(ab) = Len(a) + Len(b)
        /\ \A i \in 1 .. Len(a) + Len(b) : ab[i] = IF i <= Len(a) THEN a[i] ELSE b[i - Len(a)]
    BY <1>3a, <1>3b, ConcatProperties
  <2>2. Len(a) = 2 /\ Len(b) = 1
    BY <1>3a
  <2> QED BY <2>1, <2>2
<1>3d. /\ abc \in Seq(T) /\ Len(abc) = 5 /\ abc[1] = a[1] /\ abc[2] = a[2] /\ abc[3] = b[1]
       /\ abc[4] = c[1] /\ abc[5] = c[2]
  <2>1. /\ abc \in Seq(T) /\ Len(abc) = Len(ab) + Len(c)
        /\ \A i \in 1 .. Len(ab) + Len(c) : abc[i] = IF i <= Len(ab) THEN ab[i] ELSE c[i - Len(ab)]
    BY <1>3a, <1>3b, <1>3c, ConcatProperties
  <2>2. Len(ab) = 3 /\ Len(c) = 2
    BY <1>3a, <1>3c
  <2> QED BY <1>3c, <2>1, <2>2
<1>4. /\ first \in Seq(T) /\ Len(first) = 6
      /\ first[1] = <<"instance">> /\ first[2] = <<"debug_messenger">> /\ first[3] = <<"surface">>
      /\ first[4] = <<"device">> /\ first[5] = <<"allocator">> /\ first[6] = <<"pipeline_cache">>
  <2>1. first = abc \o d
    BY <1>2, <1>3, <1>3b
  <2>2. /\ first \in Seq(T) /\ Len(first) = Len(abc) + Len(d)
        /\ \A i \in 1 .. Len(abc) + Len(d) :
             first[i] = IF i <= Len(abc) THEN abc[i] ELSE d[i - Len(abc)]
    BY <1>3a, <1>3d, <2>1, ConcatProperties
  <2>3. Len(abc) = 5 /\ Len(d) = 1
    BY <1>3a, <1>3d
  <2> QED BY <1>3a, <1>3d, <2>2, <2>3
<1>5. PICK mid : mid = OfFrames
  OBVIOUS
<1>6. mid \in Seq(T) /\ mid \in Seq(FrameKinds \X Frames) /\ Len(mid) \in Nat
  <2>1. mid \in Seq(FrameKinds \X Frames)
    BY <1>5, FramesHaveTheirOwn
  <2>2. FrameKinds \X Frames \subseteq T
    BY <1>1 DEF AllObjects
  <2> QED BY <2>1, <2>2, SeqMonotonic, LenProperties
<1>7. PICK last : last = << <<"immediate_pool">> >>
  OBVIOUS
<1>8. last \in Seq(T) /\ Len(last) = 1 /\ last[1] = <<"immediate_pool">>
  BY <1>1, <1>7 DEF AllObjects, OneOfAKind
<1>9. CreationOrder = (first \o mid) \o last
  BY <1>2, <1>5, <1>7 DEF CreationOrder, OfFrames
<1>10. PICK both : both = first \o mid
  OBVIOUS
<1>11. /\ both \in Seq(T) /\ Len(both) = 6 + Len(mid)
       /\ \A i \in 1 .. 6 + Len(mid) : both[i] = IF i <= 6 THEN first[i] ELSE mid[i - 6]
  <2>1. /\ both \in Seq(T) /\ Len(both) = Len(first) + Len(mid)
        /\ \A i \in 1 .. Len(first) + Len(mid) :
             both[i] = IF i <= Len(first) THEN first[i] ELSE mid[i - Len(first)]
    BY <1>4, <1>6, <1>10, ConcatProperties
  <2>2. Len(first) = 6
    BY <1>4
  <2> QED BY <2>1, <2>2
<1>12. /\ Len(CreationOrder) = 7 + Len(mid)
       /\ \A i \in 1 .. 7 + Len(mid) :
            CreationOrder[i] = IF i <= 6 + Len(mid) THEN both[i] ELSE last[i - (6 + Len(mid))]
  <2>1. /\ Len(both \o last) = Len(both) + Len(last)
        /\ \A i \in 1 .. Len(both) + Len(last) :
             (both \o last)[i] = IF i <= Len(both) THEN both[i] ELSE last[i - Len(both)]
    BY <1>8, <1>11, ConcatProperties
  <2>2. Len(both) + Len(last) = 7 + Len(mid)
    BY <1>6, <1>8, <1>11
  <2> QED BY <1>9, <1>10, <1>11, <2>1, <2>2
<1>13. \A i \in 1 .. 6 : CreationOrder[i] = first[i]
  BY <1>6, <1>11, <1>12
<1>14. ASSUME NEW i \in 7 .. Len(CreationOrder)
       PROVE  CreationOrder[i] \in (FrameKinds \X Frames) \cup {<<"immediate_pool">>}
  <2>1. CASE i <= 6 + Len(mid)
    <3>1. i - 6 \in 1 .. Len(mid) /\ i \in 1 .. 6 + Len(mid) /\ i \in 1 .. 7 + Len(mid) /\ ~(i <= 6)
      BY <1>6, <1>12, <2>1
    <3>2. CreationOrder[i] = mid[i - 6]
      BY <1>11, <1>12, <2>1, <3>1
    <3> QED BY <1>6, <3>1, <3>2, ElementOfSeq
  <2>2. CASE ~(i <= 6 + Len(mid))
    <3>1. i \in 1 .. 7 + Len(mid) /\ i - (6 + Len(mid)) = 1
      BY <1>6, <1>12, <2>2
    <3> QED BY <1>8, <1>12, <2>2, <3>1
  <2> QED BY <2>1, <2>2
<1> QED BY <1>4, <1>6, <1>12, <1>13, <1>14

\* The order of destruction: what the context owns, what every frame has, and then what the
\* rest was made from.
LEMMA DestructionFacts ==
  \E k \in Nat :
    /\ Len(DestructionOrder) = k + 12
    /\ DestructionOrder[1] = <<"swapchain">> /\ DestructionOrder[2] = <<"resources">>
    /\ DestructionOrder[3] = <<"descriptor_pools">> /\ DestructionOrder[4] = <<"pipelines">>
    /\ DestructionOrder[5] = <<"layouts">> /\ DestructionOrder[6] = <<"pipeline_cache">>
    /\ \A i \in 7 .. k + 6 : DestructionOrder[i] \in FrameKinds \X Frames
    /\ \A o \in FrameKinds \X Frames : \E i \in 7 .. k + 6 : DestructionOrder[i] = o
    /\ DestructionOrder[k + 7] = <<"immediate_pool">> /\ DestructionOrder[k + 8] = <<"allocator">>
    /\ DestructionOrder[k + 9] = <<"device">> /\ DestructionOrder[k + 10] = <<"surface">>
    /\ DestructionOrder[k + 11] = <<"debug_messenger">>
    /\ DestructionOrder[k + 12] = <<"instance">>
<1>1. PICK T : T = AllObjects
  OBVIOUS
<1>2. PICK a, b, mid, last :
        /\ a = ContextObjects /\ b = << <<"layouts">>, <<"pipeline_cache">> >> /\ mid = TornOfFrames
        /\ last = << <<"immediate_pool">>, <<"allocator">>, <<"device">>,
                     <<"surface">>, <<"debug_messenger">>, <<"instance">> >>
  OBVIOUS
<1>3. /\ a \in Seq(T) /\ Len(a) = 4 /\ a[1] = <<"swapchain">> /\ a[2] = <<"resources">>
      /\ a[3] = <<"descriptor_pools">> /\ a[4] = <<"pipelines">>
  BY <1>1, <1>2 DEF ContextObjects, AllObjects, OneOfAKind
<1>4. b \in Seq(T) /\ Len(b) = 2 /\ b[1] = <<"layouts">> /\ b[2] = <<"pipeline_cache">>
  BY <1>1, <1>2 DEF AllObjects, OneOfAKind
<1>5. /\ last \in Seq(T) /\ Len(last) = 6 /\ last[1] = <<"immediate_pool">>
      /\ last[2] = <<"allocator">> /\ last[3] = <<"device">> /\ last[4] = <<"surface">>
      /\ last[5] = <<"debug_messenger">> /\ last[6] = <<"instance">>
  BY <1>1, <1>2 DEF AllObjects, OneOfAKind
<1>6. mid \in Seq(FrameKinds \X Frames) /\ mid \in Seq(T) /\ DOMAIN mid = 1 .. Len(mid)
      /\ \A o \in FrameKinds \X Frames : o \in ToSet(mid)
  <2>1. mid \in Seq(FrameKinds \X Frames) /\ \A o \in FrameKinds \X Frames : o \in ToSet(mid)
    BY <1>2, FramesHaveTheirOwn
  <2>2. FrameKinds \X Frames \subseteq T
    BY <1>1 DEF AllObjects
  <2> QED BY <2>1, <2>2, SeqMonotonic, LenProperties
<1>7. PICK k \in Nat : k = Len(mid)
  BY <1>6, LenProperties
<1>8. PICK ab, abm, all : ab = a \o b /\ abm = ab \o mid /\ all = abm \o last
  OBVIOUS
<1>9. all = DestructionOrder
  BY <1>2, <1>8 DEF DestructionOrder, TornOfFrames
<1>10. ab \in Seq(T) /\ Len(ab) = 6 /\ ab[1] = a[1] /\ ab[2] = a[2] /\ ab[3] = a[3]
       /\ ab[4] = a[4] /\ ab[5] = b[1] /\ ab[6] = b[2]
  <2>1. /\ ab \in Seq(T) /\ Len(ab) = Len(a) + Len(b)
        /\ \A i \in 1 .. Len(a) + Len(b) : ab[i] = IF i <= Len(a) THEN a[i] ELSE b[i - Len(a)]
    BY <1>3, <1>4, <1>8, ConcatProperties
  <2>2. Len(a) = 4 /\ Len(b) = 2
    BY <1>3, <1>4
  <2> QED BY <2>1, <2>2
<1>11. /\ abm \in Seq(T) /\ Len(abm) = 6 + k
       /\ \A i \in 1 .. 6 + k : abm[i] = IF i <= 6 THEN ab[i] ELSE mid[i - 6]
  <2>1. /\ abm \in Seq(T) /\ Len(abm) = Len(ab) + Len(mid)
        /\ \A i \in 1 .. Len(ab) + Len(mid) : abm[i] = IF i <= Len(ab) THEN ab[i] ELSE mid[i - Len(ab)]
    <3>1. ab \in Seq(T) /\ mid \in Seq(T) /\ abm = ab \o mid
      BY <1>6, <1>8, <1>10
    <3> QED BY <3>1, ConcatProperties
  <2>2. Len(ab) = 6 /\ Len(mid) = k
    BY <1>7, <1>10
  <2> QED BY <2>1, <2>2
<1>12. /\ Len(all) = k + 12
       /\ \A i \in 1 .. k + 12 : all[i] = IF i <= k + 6 THEN abm[i] ELSE last[i - (k + 6)]
  <2>1. /\ Len(all) = Len(abm) + Len(last)
        /\ \A i \in 1 .. Len(abm) + Len(last) : all[i] = IF i <= Len(abm) THEN abm[i] ELSE last[i - Len(abm)]
    <3>1. abm \in Seq(T) /\ last \in Seq(T) /\ all = abm \o last
      BY <1>5, <1>8, <1>11
    <3> QED BY <3>1, ConcatProperties
  <2>2. Len(abm) = k + 6 /\ Len(last) = 6 /\ Len(abm) + Len(last) = k + 12
    BY <1>5, <1>11
  <2> QED BY <2>1, <2>2
<1>13. \A i \in 1 .. 6 : all[i] = ab[i]
  BY <1>11, <1>12
<1>14. \A i \in 7 .. k + 6 : all[i] = mid[i - 6]
  BY <1>11, <1>12
<1>15. \A i \in 1 .. 6 : all[k + 6 + i] = last[i]
  <2> SUFFICES ASSUME NEW i \in 1 .. 6 PROVE all[k + 6 + i] = last[i]
    OBVIOUS
  <2>1. k + 6 + i \in 1 .. k + 12 /\ ~(k + 6 + i <= k + 6) /\ (k + 6 + i) - (k + 6) = i
    OBVIOUS
  <2> QED BY <1>12, <2>1
<1>16. ASSUME NEW i \in 7 .. k + 6 PROVE all[i] \in FrameKinds \X Frames
  <2>1. i - 6 \in 1 .. Len(mid)
    BY <1>7
  <2> QED BY <1>6, <1>14, <2>1, ElementOfSeq
<1>17. ASSUME NEW o \in FrameKinds \X Frames PROVE \E i \in 7 .. k + 6 : all[i] = o
  <2>1. PICK j \in 1 .. k : o = mid[j]
    BY <1>6, <1>7 DEF ToSet
  <2>2. j + 6 \in 7 .. k + 6 /\ (j + 6) - 6 = j
    OBVIOUS
  <2> QED BY <1>14, <2>1, <2>2
<1>18. /\ all[k + 7] = last[1] /\ all[k + 8] = last[2] /\ all[k + 9] = last[3]
       /\ all[k + 10] = last[4] /\ all[k + 11] = last[5] /\ all[k + 12] = last[6]
  <2>1. /\ k + 6 + 1 = k + 7 /\ k + 6 + 2 = k + 8 /\ k + 6 + 3 = k + 9 /\ k + 6 + 4 = k + 10
        /\ k + 6 + 5 = k + 11 /\ k + 6 + 6 = k + 12
    OBVIOUS
  <2>2. \A i \in {1, 2, 3, 4, 5, 6} : i \in 1 .. 6
    OBVIOUS
  <2> QED BY <1>15, <2>1, <2>2
<1>19. /\ all[1] = a[1] /\ all[2] = a[2] /\ all[3] = a[3] /\ all[4] = a[4]
       /\ all[5] = b[1] /\ all[6] = b[2]
  BY <1>10, <1>13
<1> QED
  <2> SUFFICES
      /\ Len(all) = k + 12
      /\ all[1] = <<"swapchain">> /\ all[2] = <<"resources">>
      /\ all[3] = <<"descriptor_pools">> /\ all[4] = <<"pipelines">>
      /\ all[5] = <<"layouts">> /\ all[6] = <<"pipeline_cache">>
      /\ \A i \in 7 .. k + 6 : all[i] \in FrameKinds \X Frames
      /\ \A o \in FrameKinds \X Frames : \E i \in 7 .. k + 6 : all[i] = o
      /\ all[k + 7] = <<"immediate_pool">> /\ all[k + 8] = <<"allocator">>
      /\ all[k + 9] = <<"device">> /\ all[k + 10] = <<"surface">>
      /\ all[k + 11] = <<"debug_messenger">> /\ all[k + 12] = <<"instance">>
    BY <1>9
  <2> QED BY <1>3, <1>4, <1>5, <1>12, <1>16, <1>17, <1>18, <1>19

\* What an object was made from is destroyed after it.
LEMMA ParentsLater ==
  ASSUME NEW s \in 1 .. Len(DestructionOrder), NEW o \in AllObjects,
         DestructionOrder[s] \in Parents(o)
  PROVE  \E j \in 1 .. s - 1 : DestructionOrder[j] = o
<1>1. PICK order : order = DestructionOrder
  OBVIOUS
<1>2. PICK k \in Nat :
        /\ Len(order) = k + 12
        /\ order[1] = <<"swapchain">> /\ order[2] = <<"resources">>
        /\ order[3] = <<"descriptor_pools">> /\ order[4] = <<"pipelines">>
        /\ order[5] = <<"layouts">> /\ order[6] = <<"pipeline_cache">>
        /\ \A i \in 7 .. k + 6 : order[i] \in FrameKinds \X Frames
        /\ \A x \in FrameKinds \X Frames : \E i \in 7 .. k + 6 : order[i] = x
        /\ order[k + 7] = <<"immediate_pool">> /\ order[k + 8] = <<"allocator">>
        /\ order[k + 9] = <<"device">> /\ order[k + 10] = <<"surface">>
        /\ order[k + 11] = <<"debug_messenger">>
        /\ order[k + 12] = <<"instance">>
  BY <1>1, DestructionFacts
<1>3. \A x : <<x>> \notin FrameKinds \X Frames
  OBVIOUS
<1>4. s \in 1 .. k + 12
  BY <1>1, <1>2
<1>5. s \in 7 .. k + 6 \/ s \in {1, 2, 3, 4, 5, 6} \/ s \in {k + 7, k + 8, k + 9, k + 10, k + 11, k + 12}
  BY <1>4
<1>6. /\ order[s] = <<"instance">> => s = k + 12
      /\ order[s] = <<"device">> => s = k + 9
      /\ order[s] = <<"surface">> => s = k + 10
      /\ order[s] = <<"allocator">> => s = k + 8
  <2>1. CASE s \in 7 .. k + 6
    <3>1. order[s] \in FrameKinds \X Frames
      BY <1>2, <2>1
    <3>2. \A x : order[s] # <<x>>
      BY <1>3, <3>1, Zenon
    <3> QED BY <3>2
  <2>2. CASE s \in {1, 2, 3, 4, 5, 6}
    BY <1>2, <2>2
  <2>3. CASE s \in {k + 7, k + 8, k + 9, k + 10, k + 11, k + 12}
    BY <1>2, <2>3
  <2> QED BY <1>5, <2>1, <2>2, <2>3
<1>7. order[s] \in {<<"instance">>, <<"device">>, <<"surface">>, <<"allocator">>}
  BY <1>1 DEF Parents
<1>8. CASE o \in FrameKinds \X Frames
  <2>1. PICK i \in 7 .. k + 6 : order[i] = o
    BY <1>2, <1>8
  <2>2. o[1] \in FrameKinds
    BY <1>8
  <2>3. Parents(o) = {<<"device">>}
    BY <2>2 DEF Parents, FrameKinds
  <2>4. s = k + 9
    BY <1>1, <1>6, <2>3
  <2>5. i \in 1 .. s - 1
    BY <2>4
  <2> QED BY <1>1, <2>1, <2>5
<1>9. CASE o \in OneOfAKind
  <2>1. /\ 1 \in 1 .. k + 7 /\ 2 \in 1 .. k + 7 /\ 3 \in 1 .. k + 7 /\ 4 \in 1 .. k + 7
        /\ 5 \in 1 .. k + 7 /\ 6 \in 1 .. k + 7 /\ k + 7 \in 1 .. k + 7
        /\ k + 8 \in 1 .. k + 8 /\ {k + 9, k + 10, k + 11} \subseteq 1 .. k + 11
        /\ 1 .. k + 7 \subseteq 1 .. k + 8 /\ 1 .. k + 8 \subseteq 1 .. k + 11
    OBVIOUS
  <2>2. CASE o \in {<<"swapchain">>, <<"resources">>, <<"descriptor_pools">>, <<"pipelines">>,
                    <<"layouts">>, <<"pipeline_cache">>, <<"immediate_pool">>}
    <3>1. \E j \in 1 .. k + 7 : order[j] = o
      BY <1>2, <2>1, <2>2
    <3>2. <<"instance">> \notin Parents(o)
      BY <2>2 DEF Parents
    <3>3. s \in {k + 8, k + 9, k + 10}
      BY <1>1, <1>6, <1>7, <3>2
    <3>4. 1 .. k + 7 \subseteq 1 .. s - 1
      BY <3>3
    <3> QED BY <1>1, <3>1, <3>4
  <2>3. CASE o = <<"allocator">>
    <3>1. order[s] = <<"device">>
      BY <1>1, <2>3 DEF Parents
    <3>2. k + 8 \in 1 .. s - 1
      BY <1>6, <3>1
    <3> QED BY <1>1, <1>2, <2>3, <3>2
  <2>4. CASE o \in {<<"device">>, <<"surface">>, <<"debug_messenger">>}
    <3>1. order[s] = <<"instance">>
      BY <1>1, <2>4 DEF Parents
    <3>2. s - 1 = k + 11
      BY <1>6, <3>1
    <3>3. \E j \in {k + 9, k + 10, k + 11} : order[j] = o
      BY <1>2, <2>4
    <3> QED BY <1>1, <2>1, <3>2, <3>3
  <2>5. CASE o = <<"instance">>
    BY <2>5 DEF Parents
  <2> QED BY <1>9, <2>2, <2>3, <2>4, <2>5 DEF OneOfAKind
<1> QED BY <1>8, <1>9 DEF AllObjects

\* Every object is destroyed at some place of the order.
LEMMA AllDestroyed ==
  ASSUME NEW o \in AllObjects
  PROVE  \E j \in 1 .. Len(DestructionOrder) : DestructionOrder[j] = o
<1>1. PICK order : order = DestructionOrder
  OBVIOUS
<1>2. PICK k \in Nat :
        /\ Len(order) = k + 12
        /\ order[1] = <<"swapchain">> /\ order[2] = <<"resources">>
        /\ order[3] = <<"descriptor_pools">> /\ order[4] = <<"pipelines">>
        /\ order[5] = <<"layouts">> /\ order[6] = <<"pipeline_cache">>
        /\ \A x \in FrameKinds \X Frames : \E i \in 7 .. k + 6 : order[i] = x
        /\ order[k + 7] = <<"immediate_pool">> /\ order[k + 8] = <<"allocator">>
        /\ order[k + 9] = <<"device">> /\ order[k + 10] = <<"surface">>
        /\ order[k + 11] = <<"debug_messenger">>
        /\ order[k + 12] = <<"instance">>
  BY <1>1, DestructionFacts
<1>3. /\ {1, 2, 3, 4, 5, 6, k + 7, k + 8, k + 9, k + 10, k + 11, k + 12} \subseteq 1 .. k + 12
      /\ 7 .. k + 6 \subseteq 1 .. k + 12
  OBVIOUS
<1>4. CASE o \in FrameKinds \X Frames
  BY <1>1, <1>2, <1>3, <1>4
<1>5. CASE o \in OneOfAKind
  <2>1. \E j \in {1, 2, 3, 4, 5, 6, k + 7, k + 8, k + 9, k + 10, k + 11, k + 12} : order[j] = o
    BY <1>2, <1>5 DEF OneOfAKind
  <2> QED BY <1>1, <1>2, <1>3, <2>1
<1> QED BY <1>4, <1>5 DEF AllObjects

\* Where no context is initialised, and the objects of which all others are made.
NotAlive == {"off", "create", "teardown"}
Roots == {<<"instance">>, <<"device">>, <<"allocator">>}

\* What exists while the context is made, while it lives and while it is taken down.
ObjectsInv ==
  /\ objects \subseteq AllObjects /\ step \in Nat \ {0}
  /\ \A o \in objects : Parents(o) \subseteq objects
  /\ pc = "off" => objects = {}
  /\ pc = "create" => /\ step > 1 => <<"instance">> \in objects
                      /\ step > 4 => <<"device">> \in objects
                      /\ step > 5 => <<"allocator">> \in objects
  /\ pc = "teardown" => /\ step <= Len(DestructionOrder) + 1
                        /\ \A j \in 1 .. step - 1 : DestructionOrder[j] \notin objects
  /\ pc \notin NotAlive => Roots \subseteq objects

\* An object is added whose parents are there.
LEMMA ObjectAdded ==
  ASSUME ObjectsInv, NEW new \in SUBSET AllObjects, objects' = objects \cup new,
         \A o \in new : Parents(o) \subseteq objects
  PROVE  objects' \subseteq AllObjects /\ \A o \in objects' : Parents(o) \subseteq objects'
  BY DEF ObjectsInv

\* The life of the objects.
LEMMA LifeKeepsObjects ==
  ASSUME ObjectsInv,
         \/ Initialize \/ InitializeDevice \/ InitializeFails \/ Initialized
         \/ ShutdownIdle \/ Teardown \/ TornDown
  PROVE  ObjectsInv'
<1>0. Len(DestructionOrder) \in Nat
  BY DestructionFacts
<1>1. CASE Initialize
  BY <1>0, <1>1 DEF Initialize, ObjectsInv, NotAlive
<1>2. CASE InitializeDevice
  <2>1. pc = "create" /\ pc' = "create" /\ step' = step + 1 /\ step <= Len(CreationOrder)
        /\ step \in 1 .. Len(CreationOrder) /\ step \in Nat
    BY <1>2, CreationFacts DEF InitializeDevice, CreateObject, SkipObject, contextVars, ObjectsInv
  <2>2. PICK o : o = CreationOrder[step]
    OBVIOUS
  <2>3. CASE CreateObject
    <3>1. objects' = objects \cup {o}
      BY <2>2, <2>3 DEF CreateObject
    <3>2. o \in AllObjects /\ Parents(o) \subseteq objects
      <4>1. CASE step \in 7 .. Len(CreationOrder)
        <5>1. o \in (FrameKinds \X Frames) \cup {<<"immediate_pool">>}
          BY <2>2, <4>1, CreationFacts
        <5>2. Parents(o) = {<<"device">>}
          <6>1. o[1] \in FrameKinds \cup {"immediate_pool"}
            BY <5>1
          <6> QED BY <6>1 DEF Parents, FrameKinds
        <5>3. <<"device">> \in objects
          BY <2>1, <4>1 DEF ObjectsInv
        <5> QED BY <5>1, <5>2, <5>3 DEF AllObjects, OneOfAKind
      <4>2. CASE step \in {1, 2, 3, 4, 5, 6}
        <5>1. /\ step = 1 => o = <<"instance">>
              /\ step = 2 => o = <<"debug_messenger">>
              /\ step = 3 => o = <<"surface">>
              /\ step = 4 => o = <<"device">>
              /\ step = 5 => o = <<"allocator">>
              /\ step = 6 => o = <<"pipeline_cache">>
          BY <2>2, CreationFacts
        <5>2. o \in AllObjects
          BY <4>2, <5>1 DEF AllObjects, OneOfAKind
        <5>3. /\ step = 1 => Parents(o) = {}
              /\ step \in {2, 3, 4} => Parents(o) = {<<"instance">>}
              /\ step \in {5, 6} => Parents(o) = {<<"device">>}
          BY <5>1 DEF Parents
        <5> QED BY <2>1, <4>2, <5>2, <5>3 DEF ObjectsInv
      <4> QED BY <2>1, <4>1, <4>2
    <3>3. objects' \subseteq AllObjects /\ \A x \in objects' : Parents(x) \subseteq objects'
      BY <3>1, <3>2, ObjectAdded
    <3>4. /\ step = 1 => o = <<"instance">>
          /\ step = 4 => o = <<"device">>
          /\ step = 5 => o = <<"allocator">>
      BY <2>2, CreationFacts
    <3> QED BY <2>1, <3>1, <3>3, <3>4 DEF ObjectsInv, NotAlive
  <2>4. CASE SkipObject
    <3>1. o = <<"surface">> /\ objects' = objects
      BY <2>2, <2>4 DEF SkipObject, Optional
    <3>2. step \notin {1, 4, 5}
      <4>1. /\ step = 1 => o = <<"instance">>
            /\ step = 4 => o = <<"device">>
            /\ step = 5 => o = <<"allocator">>
        BY <2>2, CreationFacts
      <4> QED BY <3>1, <4>1
    <3> QED BY <2>1, <3>1, <3>2 DEF ObjectsInv, NotAlive
  <2> QED BY <1>2, <2>3, <2>4 DEF InitializeDevice
<1>3. CASE InitializeFails
  BY <1>0, <1>3 DEF InitializeFails, ObjectsInv, NotAlive
<1>4. CASE Initialized
  <2>1. pc = "create" /\ step > 5 /\ pc' = "idle" /\ step' = 1 /\ Roots \subseteq objects
    BY <1>4, CreationFacts DEF Initialized, ObjectsInv, Roots
  <2>2. PICK new : new = IF <<"surface">> \in objects THEN {<<"swapchain">>} ELSE {}
    OBVIOUS
  <2>3. objects' = objects \cup new /\ new \subseteq AllObjects
    BY <1>4, <2>2 DEF Initialized, AllObjects, OneOfAKind
  <2>4. \A o \in new : Parents(o) \subseteq objects
    BY <2>1, <2>2 DEF Parents, Roots
  <2>5. objects' \subseteq AllObjects /\ \A o \in objects' : Parents(o) \subseteq objects'
    BY <2>3, <2>4, ObjectAdded
  <2> QED BY <2>1, <2>3, <2>5 DEF ObjectsInv
<1>5. CASE ShutdownIdle
  BY <1>0, <1>5 DEF ShutdownIdle, ObjectsInv, NotAlive
<1>6. CASE Teardown
  <2>1. pc = "teardown" /\ pc' = "teardown" /\ step' = step + 1 /\ step \in Nat \ {0}
        /\ step <= Len(DestructionOrder) /\ step \in 1 .. Len(DestructionOrder)
    BY <1>0, <1>6 DEF Teardown, DestroyObject, contextVars, ObjectsInv
  <2>2. objects' = objects \ {DestructionOrder[step]}
    BY <1>6 DEF Teardown, DestroyObject
  <2>3. ASSUME NEW o \in objects' PROVE Parents(o) \subseteq objects'
    <3>1. Parents(o) \subseteq objects /\ o \in AllObjects /\ o \in objects
      BY <2>2 DEF ObjectsInv
    <3>2. DestructionOrder[step] \notin Parents(o)
      <4>1. \A j \in 1 .. step - 1 : DestructionOrder[j] \notin objects
        BY <2>1 DEF ObjectsInv
      <4> QED BY <2>1, <3>1, <4>1, ParentsLater
    <3> QED BY <2>2, <3>1, <3>2
  <2>4. \A j \in 1 .. step' - 1 : DestructionOrder[j] \notin objects'
    <3>1. \A j \in 1 .. step' - 1 : j \in 1 .. step - 1 \/ j = step
      BY <2>1
    <3> QED BY <2>1, <2>2, <3>1 DEF ObjectsInv
  <2>5. step' \in Nat \ {0} /\ step' <= Len(DestructionOrder) + 1
    BY <1>0, <2>1
  <2> QED BY <2>1, <2>2, <2>3, <2>4, <2>5 DEF ObjectsInv, NotAlive
<1>7. CASE TornDown
  <2>1. pc = "teardown" /\ pc' = "off" /\ step' = 1 /\ objects' = objects
        /\ step - 1 = Len(DestructionOrder)
    BY <1>0, <1>7 DEF TornDown, ObjectsInv
  <2>2. objects = {}
    <3>1. \A o \in objects : \E j \in 1 .. Len(DestructionOrder) : DestructionOrder[j] = o
      BY AllDestroyed DEF ObjectsInv
    <3> QED BY <2>1, <3>1 DEF ObjectsInv
  <2> QED BY <2>1, <2>2 DEF ObjectsInv, NotAlive
<1> QED BY <1>1, <1>2, <1>3, <1>4, <1>5, <1>6, <1>7

\* The renderer adds what it makes, and other steps leave the objects alone.
LEMMA OthersKeepObjects ==
  ASSUME Types, ObjectsInv,
         \/ RendererInitialize \/ RendererInitializeFails
         \/ UNCHANGED initVars /\ pc \notin NotAlive /\ pc' \notin NotAlive
         \/ UNCHANGED <<initVars, pc>>
  PROVE  ObjectsInv'
<1>1. CASE RendererInitialize \/ RendererInitializeFails
  <2>1. objects' = objects \cup RendererObjects /\ pc = "idle" /\ pc' = "idle" /\ step' = step
    BY <1>1 DEF RendererInitialize, RendererInitializeFails
  <2>2. RendererObjects \subseteq AllObjects
    BY DEF RendererObjects, AllObjects, OneOfAKind
  <2>3. \A o \in RendererObjects : Parents(o) \subseteq Roots
    BY DEF RendererObjects, Parents, Roots
  <2>4. Roots \subseteq objects
    BY <2>1 DEF ObjectsInv, NotAlive
  <2>5. objects' \subseteq AllObjects /\ \A o \in objects' : Parents(o) \subseteq objects'
    BY <2>1, <2>2, <2>3, <2>4, ObjectAdded
  <2> QED BY <2>1, <2>4, <2>5 DEF ObjectsInv
<1>2. CASE UNCHANGED initVars /\ pc \notin NotAlive /\ pc' \notin NotAlive
  BY <1>2 DEF initVars, ObjectsInv, NotAlive
<1>3. CASE UNCHANGED <<initVars, pc>>
  BY <1>3 DEF initVars, ObjectsInv
<1> QED BY <1>1, <1>2, <1>3

\* Every step keeps what exists in step with the initialisation.
LEMMA ObjectsKept == Types /\ ObjectsInv /\ [Next]_vars => ObjectsInv'
<1> SUFFICES ASSUME Types, ObjectsInv, [Next]_vars PROVE ObjectsInv'
  OBVIOUS
<1>1. CASE ContextStep
  <2>1. resume \notin NotAlive
    BY DEF Types, TypeOK, NotAlive
  <2>2. CASE BeginFrame \/ ReuseFrame \/ Present \/ \E image \in Images : Acquire(image)
    <3>1. UNCHANGED initVars /\ pc \notin NotAlive /\ pc' \notin NotAlive
      BY <2>2 DEF BeginFrame, ReuseFrame, Present, Acquire, NotAlive
    <3> QED BY <3>1, OthersKeepObjects
  <2>3. CASE AcquireFails \/ AcquireOutOfDate \/ Resize \/ Recreate \/ RecreateFails
    <3>1. UNCHANGED initVars /\ pc \notin NotAlive /\ pc' \notin NotAlive
      BY <2>1, <2>3 DEF AcquireFails, AcquireOutOfDate, Resize, Recreate, RecreateFails, NotAlive
    <3> QED BY <3>1, OthersKeepObjects
  <2>4. CASE SubmitCompute \/ SubmitComputeWithFence \/ Upload \/ UploadDone
    <3>1. UNCHANGED initVars /\ pc \notin NotAlive /\ pc' \notin NotAlive
      BY <2>1, <2>4 DEF SubmitCompute, SubmitComputeWithFence, Upload, UploadDone, NotAlive
    <3> QED BY <3>1, OthersKeepObjects
  <2> QED BY <1>1, <2>2, <2>3, <2>4, LifeKeepsObjects DEF ContextStep
<1>2. CASE RendererInitialize \/ RendererInitializeFails
  BY <1>2, OthersKeepObjects
<1>3. CASE RendererBeginFrame \/ RendererRecord \/ RendererSubmit
  <2>1. UNCHANGED <<initVars, pc>>
    BY <1>3 DEF RendererBeginFrame, RendererRecord, RendererSubmit, contextVars
  <2> QED BY <2>1, OthersKeepObjects
<1>4. CASE RendererShutdown \/ Quit
  <2>1. UNCHANGED initVars /\ pc \notin NotAlive /\ pc' \notin NotAlive
    BY <1>4 DEF RendererShutdown, Quit, NotAlive
  <2> QED BY <2>1, OthersKeepObjects
<1>5. CASE \E q \in DeviceQueues : DeviceStep(q)
  <2>1. UNCHANGED <<initVars, pc>>
    BY <1>5 DEF DeviceStep, contextVars
  <2> QED BY <2>1, OthersKeepObjects
<1>6. CASE UNCHANGED vars
  <2>1. UNCHANGED <<initVars, pc>>
    BY <1>6 DEF vars, contextVars
  <2> QED BY <2>1, OthersKeepObjects
<1> QED BY <1>1, <1>2, <1>3, <1>4, <1>5, <1>6, NextForms

\* The state of the thread, the frames, the swap chain and the renderer is of its type.
THEOREM RendererTypeCorrect == Spec => []TypeOK
<1>1. Types => TypeOK
  BY DEF Types
<1> QED BY <1>1, InitTypes, TypesKept, PTL DEF Spec

\* VulkanInit.cpp makes and destroys in an order that never leaves an object without what it was
\* made from, wherever the initialisation fails, and Shutdown leaves nothing behind.
THEOREM ObjectsAreOrdered == Spec => []ObjectsOrdered
<1>1. Init => ObjectsInv
  BY DEF Init, ContextInit, InitObjects, ObjectsInv, NotAlive
<1>2. ObjectsInv => ObjectsOrdered
  BY DEF ObjectsInv, ObjectsOrdered
<1> QED BY <1>1, <1>2, InitTypes, TypesKept, ObjectsKept, PTL DEF Spec

-----------------------------------------------------------------------------
(* Operations: what the context and the renderer submit.  The submissions *)
(* of a frame are numbered, and each waits for the one before; a closing   *)
(* operation signals the fence of the frame.                               *)

\* What the n-th submission of frame f waits for besides the image.
Chain(f, n) == IF n = 1 THEN {} ELSE {SubmissionOf(f, n - 1)}

\* The n-th submission of frame f, to queue q.
SubmissionForm(q, op, f, n) ==
  /\ q \in ListQueues /\ op.uses.list = <<f, q>> /\ op.fence = NoFence
  /\ \/ op.signals = {SubmissionOf(f, n)}
     \/ q = "compute" /\ op.signals = {SubmissionOf(f, n), UserFenceOf(f)}
  /\ \/ op.waits = Chain(f, n)
     \/ op.waits = Chain(f, n) \cup {ImageAvailable(f)}
  /\ op.uses.image # NoImage => op.uses.image[1] = chain
  /\ op.uses.handles # {} => q = "graphics"
  /\ NullHandle \notin op.uses.handles
  /\ op.uses.slot # NoSlot => q = "graphics" /\ op.uses.slot[1] \in op.uses.handles

\* What closes frame f: it waits for the last submission, if there is one.
ClosingForm(q, op, f) ==
  /\ q = "graphics" /\ op.fence = FrameFence(f) /\ op.uses = Nothing
  /\ \E n \in 0 .. kMaxSubmittedCommandLists :
       LET last == IF n = 0 THEN {} ELSE {SubmissionOf(f, n)}
       IN  op.waits = last \/ op.waits = last \cup {ImageAvailable(f)}
  /\ op.signals = {} \/ \E i \in Images : op.signals = {RenderFinished(i)}

\* The copy of an upload, from a staging buffer.
UploadForm(q, op) ==
  /\ q = "graphics" /\ op.fence = UploadFence /\ op.waits = {} /\ op.signals = {}
  /\ \E h \in Handles \ {NullHandle} : op.uses = [Nothing EXCEPT !.handles = {h}]

\* What forwards the application's semaphore to its fence.
ForwardForm(q, op, f) ==
  /\ q = "compute" /\ op.fence = UserFence /\ op.waits = {UserFenceOf(f)} /\ op.signals = {}
  /\ op.uses = Nothing

\* The presentation of image i.
PresentForm(q, op, i) ==
  /\ q = "present" /\ op.fence = NoFence /\ op.waits = {RenderFinished(i)} /\ op.signals = {}
  /\ op.uses = [Nothing EXCEPT !.image = <<chain, i>>]

\* The operations there are.
Legal(q, op) ==
  \/ \E f \in Frames, n \in 1 .. kMaxSubmittedCommandLists : SubmissionForm(q, op, f, n)
  \/ \E f \in Frames : ClosingForm(q, op, f)
  \/ UploadForm(q, op)
  \/ \E f \in Frames : ForwardForm(q, op, f)
  \/ \E i \in Images : PresentForm(q, op, i)

\* What the invariants tell operations by: the number a submission has in its frame, the frame of
\* its list, and the semaphores and fences that are signalled and waited for.
Numbered(op, f, n) == SubmissionOf(f, n) \in op.signals
OfFrame(op, f) == op.uses.list # NoList /\ op.uses.list[1] = f
Closes(op, f) == op.fence = FrameFence(f)
Forwards(op, f) == UserFenceOf(f) \in op.waits
Asks(op, f) == UserFenceOf(f) \in op.signals
Uploads(op) == op.fence = UploadFence
Renders(op, i) == RenderFinished(i) \in op.signals
Presents(op, i) == RenderFinished(i) \in op.waits

\* A submission.
LEMMA SubmissionFacts ==
  ASSUME NEW q \in DeviceQueues, NEW op, NEW f \in Frames, NEW n \in 1 .. kMaxSubmittedCommandLists,
         SubmissionForm(q, op, f, n)
  PROVE  /\ \A g, m : Numbered(op, g, m) <=> g = f /\ m = n
         /\ n > 1 => SubmissionOf(f, n - 1) \in op.waits
         /\ \A g, m : SubmissionOf(g, m) \in op.waits => g = f /\ m = n - 1
         /\ \A g : ImageAvailable(g) \in op.waits => g = f
         /\ \A g : OfFrame(op, g) <=> g = f
         /\ \A g : Asks(op, g) => q = "compute" /\ g = f
         /\ \A g : ~Closes(op, g) /\ ~Forwards(op, g) /\ ImageAvailable(g) \notin op.signals
         /\ ~Uploads(op) /\ op.fence = NoFence
         /\ \A i : ~Renders(op, i) /\ ~Presents(op, i)
<1>1. \A g, m : Numbered(op, g, m) <=> g = f /\ m = n
  BY SemaphoresDiffer DEF SubmissionForm, Numbered
<1>2. n > 1 => SubmissionOf(f, n - 1) \in op.waits
  BY DEF SubmissionForm, Chain
<1>3. /\ \A g, m : SubmissionOf(g, m) \in op.waits => g = f /\ m = n - 1
      /\ \A g : ImageAvailable(g) \in op.waits => g = f
      /\ \A g : ~Forwards(op, g)
      /\ \A i : ~Presents(op, i)
  BY SemaphoresDiffer DEF SubmissionForm, Chain, Forwards, Presents
<1>4. /\ \A g : Asks(op, g) => q = "compute" /\ g = f
      /\ \A g : ImageAvailable(g) \notin op.signals
      /\ \A i : ~Renders(op, i)
  BY SemaphoresDiffer DEF SubmissionForm, Asks, Renders
<1>5. \A g : OfFrame(op, g) <=> g = f
  BY PairsDiffer DEF SubmissionForm, OfFrame
<1>6. (\A g : ~Closes(op, g)) /\ ~Uploads(op) /\ op.fence = NoFence
  BY FencesDiffer DEF SubmissionForm, Closes, Uploads
<1> QED BY <1>1, <1>2, <1>3, <1>4, <1>5, <1>6

\* What closes a frame.
LEMMA ClosingFacts ==
  ASSUME NEW q \in DeviceQueues, NEW op, NEW f \in Frames, ClosingForm(q, op, f)
  PROVE  /\ q = "graphics"
         /\ \A g, m : ~Numbered(op, g, m)
         /\ \A g, m : SubmissionOf(g, m) \in op.waits => g = f
         /\ \A g : ImageAvailable(g) \in op.waits => g = f
         /\ \A g : Closes(op, g) <=> g = f
         /\ \A g : ~OfFrame(op, g) /\ ~Asks(op, g) /\ ~Forwards(op, g) /\ ImageAvailable(g) \notin op.signals
         /\ ~Uploads(op) /\ op.fence # UserFence
         /\ \A i : ~Presents(op, i)
<1>1. /\ \A g, m : ~Numbered(op, g, m)
      /\ \A g : ~Asks(op, g) /\ ImageAvailable(g) \notin op.signals
  BY SemaphoresDiffer DEF ClosingForm, Numbered, Asks
<1>2. /\ \A g, m : SubmissionOf(g, m) \in op.waits => g = f
      /\ \A g : ImageAvailable(g) \in op.waits => g = f
      /\ \A g : ~Forwards(op, g)
      /\ \A i : ~Presents(op, i)
  <2>1. PICK n \in 0 .. kMaxSubmittedCommandLists :
          op.waits \subseteq {SubmissionOf(f, n), ImageAvailable(f)}
    BY DEF ClosingForm
  <2> QED BY <2>1, SemaphoresDiffer DEF Forwards, Presents
<1>3. \A g : ~OfFrame(op, g)
  BY DEF ClosingForm, Nothing, OfFrame
<1>4. (\A g : Closes(op, g) <=> g = f) /\ ~Uploads(op) /\ op.fence # UserFence
  BY FencesDiffer DEF ClosingForm, Closes, Uploads
<1> QED BY <1>1, <1>2, <1>3, <1>4 DEF ClosingForm

\* The other operations.
LEMMA UploadFacts ==
  ASSUME NEW q \in DeviceQueues, NEW op, UploadForm(q, op)
  PROVE  /\ q = "graphics" /\ Uploads(op)
         /\ op.waits = {} /\ op.signals = {} /\ op.fence = UploadFence
         /\ \A g : ~OfFrame(op, g) /\ ~Closes(op, g)
  BY FencesDiffer DEF UploadForm, Nothing, OfFrame, Closes, Uploads

\* What forwards the application's semaphore.
LEMMA ForwardFacts ==
  ASSUME NEW q \in DeviceQueues, NEW op, NEW f \in Frames, ForwardForm(q, op, f)
  PROVE  /\ q = "compute" /\ op.signals = {} /\ op.fence = UserFence /\ ~Uploads(op)
         /\ \A g : ~OfFrame(op, g) /\ ~Closes(op, g)
         /\ \A g : Forwards(op, g) <=> g = f
         /\ \A g, m : SubmissionOf(g, m) \notin op.waits
         /\ \A g : ImageAvailable(g) \notin op.waits
         /\ \A i : ~Presents(op, i)
  BY FencesDiffer, SemaphoresDiffer DEF ForwardForm, Nothing, OfFrame, Closes, Uploads, Forwards, Presents

\* A presentation.
LEMMA PresentFacts ==
  ASSUME NEW q \in DeviceQueues, NEW op, NEW i \in Images, PresentForm(q, op, i)
  PROVE  /\ q = "present" /\ op.signals = {} /\ op.fence = NoFence /\ ~Uploads(op)
         /\ \A g : ~OfFrame(op, g) /\ ~Closes(op, g) /\ ~Forwards(op, g)
         /\ \A k : Presents(op, k) <=> k = i
         /\ \A g, m : SubmissionOf(g, m) \notin op.waits
         /\ \A g : ImageAvailable(g) \notin op.waits
         /\ op.uses.image[2] = i
  BY FencesDiffer, SemaphoresDiffer DEF PresentForm, Nothing, OfFrame, Closes, Uploads, Forwards, Presents

\* An operation is recognised by any of these.
LEMMA Recognised ==
  ASSUME NEW q \in DeviceQueues, NEW op, Legal(q, op)
  PROVE  /\ \A f \in Frames, n \in 1 .. kMaxSubmittedCommandLists :
              Numbered(op, f, n) => SubmissionForm(q, op, f, n)
         /\ \A f \in Frames : OfFrame(op, f) \/ Asks(op, f) =>
              \E n \in 1 .. kMaxSubmittedCommandLists : SubmissionForm(q, op, f, n)
         /\ \A f \in Frames : Closes(op, f) => ClosingForm(q, op, f)
         /\ \A i \in Images : Renders(op, i) => \E f \in Frames : ClosingForm(q, op, f)
         /\ Uploads(op) => UploadForm(q, op)
         /\ \A f \in Frames : Forwards(op, f) => ForwardForm(q, op, f)
         /\ op.fence = UserFence => \E f \in Frames : ForwardForm(q, op, f)
         /\ \A i \in Images : Presents(op, i) => PresentForm(q, op, i)
         /\ q = "present" => \E i \in Images : PresentForm(q, op, i)
<1>1. ASSUME NEW f \in Frames, NEW n \in 1 .. kMaxSubmittedCommandLists, SubmissionForm(q, op, f, n)
      PROVE  /\ \A g, m : Numbered(op, g, m) => g = f /\ m = n
             /\ \A g : OfFrame(op, g) \/ Asks(op, g) => g = f
             /\ \A g : ~Closes(op, g) /\ ~Forwards(op, g)
             /\ \A i : ~Renders(op, i) /\ ~Presents(op, i)
             /\ ~Uploads(op) /\ op.fence # UserFence /\ q # "present"
  BY <1>1, SubmissionFacts, FencesDiffer DEF SubmissionForm, ListQueues
<1>2. ASSUME NEW f \in Frames, ClosingForm(q, op, f)
      PROVE  /\ \A g, m : ~Numbered(op, g, m)
             /\ \A g : ~OfFrame(op, g) /\ ~Asks(op, g) /\ ~Forwards(op, g)
             /\ \A g : Closes(op, g) => g = f
             /\ \A i : ~Presents(op, i)
             /\ ~Uploads(op) /\ op.fence # UserFence /\ q # "present"
  BY <1>2, ClosingFacts
<1>3. ASSUME UploadForm(q, op)
      PROVE  /\ \A g, m : ~Numbered(op, g, m)
             /\ \A g : ~OfFrame(op, g) /\ ~Asks(op, g) /\ ~Forwards(op, g) /\ ~Closes(op, g)
             /\ \A i : ~Renders(op, i) /\ ~Presents(op, i)
             /\ op.fence # UserFence /\ q # "present"
  BY <1>3, UploadFacts, FencesDiffer DEF Numbered, Asks, Forwards, Renders, Presents
<1>4. ASSUME NEW f \in Frames, ForwardForm(q, op, f)
      PROVE  /\ \A g, m : ~Numbered(op, g, m)
             /\ \A g : ~OfFrame(op, g) /\ ~Asks(op, g) /\ ~Closes(op, g)
             /\ \A g : Forwards(op, g) => g = f
             /\ \A i : ~Renders(op, i) /\ ~Presents(op, i)
             /\ ~Uploads(op) /\ q # "present"
  BY <1>4, ForwardFacts DEF Numbered, Asks, Renders
<1>5. ASSUME NEW i \in Images, PresentForm(q, op, i)
      PROVE  /\ \A g, m : ~Numbered(op, g, m)
             /\ \A g : ~OfFrame(op, g) /\ ~Asks(op, g) /\ ~Forwards(op, g) /\ ~Closes(op, g)
             /\ \A k : ~Renders(op, k)
             /\ \A k : Presents(op, k) => k = i
             /\ ~Uploads(op) /\ op.fence # UserFence
  BY <1>5, PresentFacts, FencesDiffer DEF Numbered, Asks, Renders
<1>6. CASE \E f \in Frames, n \in 1 .. kMaxSubmittedCommandLists : SubmissionForm(q, op, f, n)
  <2>1. PICK f \in Frames, n \in 1 .. kMaxSubmittedCommandLists : SubmissionForm(q, op, f, n)
    BY <1>6
  <2>2. /\ \A g, m : Numbered(op, g, m) => g = f /\ m = n
        /\ \A g : OfFrame(op, g) \/ Asks(op, g) => g = f
        /\ \A g : ~Closes(op, g) /\ ~Forwards(op, g)
        /\ \A i : ~Renders(op, i) /\ ~Presents(op, i)
        /\ ~Uploads(op) /\ op.fence # UserFence /\ q # "present"
    BY <1>1, <2>1
  <2> QED BY <2>1, <2>2, Zenon
<1>7. CASE \E f \in Frames : ClosingForm(q, op, f)
  <2>1. PICK f \in Frames : ClosingForm(q, op, f)
    BY <1>7
  <2>2. /\ \A g, m : ~Numbered(op, g, m)
        /\ \A g : ~OfFrame(op, g) /\ ~Asks(op, g) /\ ~Forwards(op, g)
        /\ \A g : Closes(op, g) => g = f
        /\ \A i : ~Presents(op, i)
        /\ ~Uploads(op) /\ op.fence # UserFence /\ q # "present"
    BY <1>2, <2>1
  <2> QED BY <2>1, <2>2, Zenon
<1>8. CASE UploadForm(q, op)
  BY <1>3, <1>8, Zenon
<1>9. CASE \E f \in Frames : ForwardForm(q, op, f)
  <2>1. PICK f \in Frames : ForwardForm(q, op, f)
    BY <1>9
  <2>2. /\ \A g, m : ~Numbered(op, g, m)
        /\ \A g : ~OfFrame(op, g) /\ ~Asks(op, g) /\ ~Closes(op, g)
        /\ \A g : Forwards(op, g) => g = f
        /\ \A i : ~Renders(op, i) /\ ~Presents(op, i)
        /\ ~Uploads(op) /\ q # "present"
    BY <1>4, <2>1
  <2> QED BY <2>1, <2>2, Zenon
<1>10. CASE \E i \in Images : PresentForm(q, op, i)
  <2>1. PICK i \in Images : PresentForm(q, op, i)
    BY <1>10
  <2>2. /\ \A g, m : ~Numbered(op, g, m)
        /\ \A g : ~OfFrame(op, g) /\ ~Asks(op, g) /\ ~Forwards(op, g) /\ ~Closes(op, g)
        /\ \A k : ~Renders(op, k)
        /\ \A k : Presents(op, k) => k = i
        /\ ~Uploads(op) /\ op.fence # UserFence
    BY <1>5, <2>1
  <2> QED BY <2>1, <2>2, Zenon
<1> QED BY <1>6, <1>7, <1>8, <1>9, <1>10 DEF Legal

\* What an operation waits for and signals.
LEMMA SemaphoresOf ==
  ASSUME NEW q \in DeviceQueues, NEW op, Legal(q, op)
  PROVE  /\ \A f \in Frames, n \in Nat : SubmissionOf(f, n) \in op.waits =>
              \/ SubmissionForm(q, op, f, n + 1) /\ n + 1 \in 1 .. kMaxSubmittedCommandLists
              \/ Closes(op, f)
         /\ \A f \in Frames : ImageAvailable(f) \in op.waits => OfFrame(op, f) \/ Closes(op, f)
         /\ \A f : ImageAvailable(f) \notin op.signals
         /\ \A s \in op.signals :
              \/ \E f \in Frames, n \in 1 .. kMaxSubmittedCommandLists :
                   s = SubmissionOf(f, n) /\ SubmissionForm(q, op, f, n)
              \/ \E f \in Frames : s = UserFenceOf(f) /\ Asks(op, f)
              \/ \E i \in Images : s = RenderFinished(i) /\ Renders(op, i)
<1>1. CASE \E f \in Frames, n \in 1 .. kMaxSubmittedCommandLists : SubmissionForm(q, op, f, n)
  <2>1. PICK f \in Frames, n \in 1 .. kMaxSubmittedCommandLists : SubmissionForm(q, op, f, n)
    BY <1>1
  <2>1a. /\ \A g, m : SubmissionOf(g, m) \in op.waits => g = f /\ m = n - 1
         /\ \A g : ImageAvailable(g) \in op.waits => g = f
         /\ \A g : OfFrame(op, g) <=> g = f
         /\ \A g : ImageAvailable(g) \notin op.signals
    BY <2>1, SubmissionFacts
  <2>2. ASSUME NEW g \in Frames, NEW m \in Nat, SubmissionOf(g, m) \in op.waits
        PROVE  SubmissionForm(q, op, g, m + 1) /\ m + 1 \in 1 .. kMaxSubmittedCommandLists
    <3>1. g = f /\ m = n - 1
      BY <2>1a, <2>2
    <3>2. m + 1 = n
      BY <3>1
    <3> QED BY <2>1, <3>1, <3>2
  <2>3. ASSUME NEW s \in op.signals
        PROVE  \/ \E g \in Frames, m \in 1 .. kMaxSubmittedCommandLists :
                    s = SubmissionOf(g, m) /\ SubmissionForm(q, op, g, m)
               \/ \E g \in Frames : s = UserFenceOf(g) /\ Asks(op, g)
    <3>1. s = SubmissionOf(f, n) \/ s = UserFenceOf(f)
      BY <2>1 DEF SubmissionForm
    <3> QED BY <2>1, <3>1 DEF Asks
  <2>4. /\ \A g : ImageAvailable(g) \in op.waits => OfFrame(op, g)
        /\ \A g : ImageAvailable(g) \notin op.signals
    BY <2>1a
  <2> QED BY <2>2, <2>3, <2>4
<1>2. CASE \E f \in Frames : ClosingForm(q, op, f)
  <2>1. PICK f \in Frames : ClosingForm(q, op, f)
    BY <1>2
  <2>2. /\ \A g, m : SubmissionOf(g, m) \in op.waits => Closes(op, g)
        /\ \A g : ImageAvailable(g) \in op.waits => Closes(op, g)
        /\ \A g : ImageAvailable(g) \notin op.signals
    BY <2>1, ClosingFacts
  <2>3. \A s \in op.signals : \E i \in Images : s = RenderFinished(i) /\ Renders(op, i)
    BY <2>1 DEF ClosingForm, Renders
  <2> QED BY <2>2, <2>3
<1>3. CASE UploadForm(q, op)
  BY <1>3, UploadFacts
<1>4. CASE \E f \in Frames : ForwardForm(q, op, f)
  BY <1>4, ForwardFacts
<1>5. CASE \E i \in Images : PresentForm(q, op, i)
  BY <1>5, PresentFacts
<1> QED BY <1>1, <1>2, <1>3, <1>4, <1>5 DEF Legal

-----------------------------------------------------------------------------
(* Synchronisation: the invariant of the semaphores and fences.            *)

\* Every operation in flight is one of those.
OperationsLegal == \A q \in DeviceQueues : \A i \in DOMAIN pending[q] : Legal(q, pending[q][i])

\* Two operations that must not both be in flight.
Rivals(o1, o2) ==
  \/ \E f \in Frames, n \in 1 .. kMaxSubmittedCommandLists : Numbered(o1, f, n) /\ Numbered(o2, f, n)
  \/ \E f \in Frames : Closes(o1, f) /\ Closes(o2, f)
  \/ \E f, g \in Frames : Forwards(o1, f) /\ Forwards(o2, g)
  \/ \E f, g \in Frames : Asks(o1, f) /\ Asks(o2, g)
  \/ \E i \in Images : Renders(o1, i) /\ Renders(o2, i)
  \/ \E i \in Images : Presents(o1, i) /\ Presents(o2, i)

\* No two rivals are in flight.
OneOfEach ==
  \A q, r \in DeviceQueues : \A i \in DOMAIN pending[q], j \in DOMAIN pending[r] :
    Rivals(pending[q][i], pending[r][j]) => q = r /\ i = j

\* The client is inside a frame, or has left one to shut down.
Open ==
  \/ pc \in {"acquire", "frame"}
  \/ pc \in {"recreate", "upload"} /\ resume = "frame"
\* The frame has not been closed.
Unfinished == Open \/ pc \in {"shutdown", "teardown"}

\* The submissions of a frame complete in turn: while one is in flight, its semaphore and those
\* after it are not signalled.
ChainRuns ==
  \A q \in DeviceQueues : \A i \in DOMAIN pending[q] :
    \A f \in Frames, n, m \in 1 .. kMaxSubmittedCommandLists :
      Numbered(pending[q][i], f, n) /\ n <= m => SubmissionOf(f, m) \notin signalled

\* The semaphore of a submission is waited for, by the next one or by what closes the frame, or
\* will be: it is that of the last submission of the current frame.
Waited(f, n) ==
  \/ \E q \in DeviceQueues : \E i \in DOMAIN pending[q] : SubmissionOf(f, n) \in pending[q][i].waits
  \/ Unfinished /\ f = current_frame /\ n = frame.last

\* No semaphore of a submission is left over.
Consumed ==
  \A f \in Frames, n \in 1 .. kMaxSubmittedCommandLists :
    /\ SubmissionOf(f, n) \in signalled => Waited(f, n)
    /\ \A q \in DeviceQueues : \A i \in DOMAIN pending[q] :
         Numbered(pending[q][i], f, n) => Waited(f, n)

\* What closes a frame waits for the last of its submissions.
ClosingLast ==
  \A f \in Frames, n \in 1 .. kMaxSubmittedCommandLists :
  \A q, r \in DeviceQueues : \A i \in DOMAIN pending[q], j \in DOMAIN pending[r] :
     Numbered(pending[q][i], f, n) /\ Closes(pending[r][j], f) =>
        \E m \in n .. kMaxSubmittedCommandLists : SubmissionOf(f, m) \in pending[r][j].waits

\* The fence of a frame is signalled once nothing of the frame is in flight.
FenceMeansDone ==
  \A f \in Frames : FrameFence(f) \in fences =>
    \A q \in DeviceQueues : \A i \in DOMAIN pending[q] :
      ~Closes(pending[q][i], f) /\ ~OfFrame(pending[q][i], f)

\* What is in flight of the current frame was submitted since it began.
OpenFrame ==
  Open => /\ FrameFence(current_frame) \notin fences
          /\ \A q \in DeviceQueues : \A i \in DOMAIN pending[q] :
               /\ ~Closes(pending[q][i], current_frame)
               /\ \A n \in 1 .. kMaxSubmittedCommandLists :
                    Numbered(pending[q][i], current_frame, n) => n <= frame.last

\* The semaphore of the application's fence is signalled for the operation that forwards it.
UserFenceRuns ==
  /\ UserFence \in fences =>
       \A q \in DeviceQueues : \A i \in DOMAIN pending[q] : \A f \in Frames :
         ~Forwards(pending[q][i], f)
  /\ \A f \in Frames :
       UserFenceOf(f) \in signalled =>
         \E j \in DOMAIN pending["compute"] : Forwards(pending["compute"][j], f)
  /\ \A f \in Frames : \A q \in DeviceQueues : \A i \in DOMAIN pending[q] :
       Asks(pending[q][i], f) =>
         /\ UserFenceOf(f) \notin signalled
         /\ q = "compute"
         /\ \E j \in DOMAIN pending["compute"] : i < j /\ Forwards(pending["compute"][j], f)

\* The semaphore of an acquisition is waited for, or will be by this frame.
AcquiresRun ==
  \A f \in Frames : ImageAvailable(f) \in signalled =>
    \/ Unfinished /\ f = current_frame /\ frame.acquired /\ ~frame.consumed
    \/ \E q \in DeviceQueues : \E i \in DOMAIN pending[q] : ImageAvailable(f) \in pending[q][i].waits

\* The semaphore of an image is waited for by its presentation, and no image is acquired that is
\* still to be presented.
ImagesRun ==
  /\ \A i \in Images : RenderFinished(i) \in signalled =>
       \E k \in DOMAIN pending["present"] : Presents(pending["present"][k], i)
  /\ \A i \in Images : \A q \in DeviceQueues : \A k \in DOMAIN pending[q] :
       Renders(pending[q][k], i) =>
         /\ RenderFinished(i) \notin signalled
         /\ \E j \in DOMAIN pending["present"] : Presents(pending["present"][j], i)
  /\ \A i \in Images : \A k \in DOMAIN pending["present"] :
       Presents(pending["present"][k], i) =>
         i \in owned /\ (Open /\ frame.acquired => i # current_image)
  /\ Open /\ frame.acquired => current_image \in owned

\* The invariant.
SyncInv ==
  /\ OperationsLegal /\ OneOfEach /\ ChainRuns /\ Consumed /\ ClosingLast
  /\ FenceMeansDone /\ OpenFrame /\ UserFenceRuns /\ AcquiresRun /\ ImagesRun

\* What holds at the places where the client and the renderer can be.
Phases ==
  /\ pc \in NotAlive => Idle
  /\ pc \in NotAlive \/ pc = "shutdown" => renderer = "off"
  /\ pc \in {"off", "create"} => signalled = {}
  /\ frame.last = frame.count
  /\ pc = "acquire" \/ (pc = "recreate" /\ resume = "frame") => frame = NoFlags
  /\ renderer = "off" <=> resources = NullHandle
  /\ renderer = "started" => /\ pc = "frame" \/ (pc = "upload" /\ resume = "frame")
                             /\ lists[current_frame]["graphics"] = "initial"
  /\ renderer = "recording" => pc = "frame" /\ lists[current_frame]["graphics"] = "recording"
  /\ hdr # NullHandle => renderer = "recording"
  /\ staging # NullHandle <=> pc = "upload"

\* Legal operations stay so while the swap chain is not replaced.
LEMMA LegalStays ==
  ASSUME chain' = chain, NEW q, NEW op, Legal(q, op)
  PROVE  Legal(q, op)'
<1>1. CASE \E f \in Frames, n \in 1 .. kMaxSubmittedCommandLists : SubmissionForm(q, op, f, n)
  BY <1>1 DEF Legal, SubmissionForm
<1>2. CASE \E f \in Frames : ClosingForm(q, op, f)
  BY <1>2 DEF Legal, ClosingForm
<1>3. CASE UploadForm(q, op)
  BY <1>3 DEF Legal, UploadForm
<1>4. CASE \E f \in Frames : ForwardForm(q, op, f)
  BY <1>4 DEF Legal, ForwardForm
<1>5. CASE \E i \in Images : PresentForm(q, op, i)
  BY <1>5 DEF Legal, PresentForm
<1> QED BY <1>1, <1>2, <1>3, <1>4, <1>5 DEF Legal

\* The same for all in flight.
LEMMA OperationsStayLegal ==
  ASSUME OperationsLegal, chain' = chain, pending' = pending
  PROVE  OperationsLegal'
<1> SUFFICES ASSUME NEW q \in DeviceQueues, NEW i \in DOMAIN pending'[q]
             PROVE  Legal(q, pending[q][i])'
  BY DEF OperationsLegal
<1>1. PICK op : op = pending[q][i]
  OBVIOUS
<1>2. Legal(q, op)
  BY <1>1 DEF OperationsLegal
<1>3. Legal(q, op)'
  BY <1>2, LegalStays
<1>4. pending'[q][i] = op
  BY <1>1
<1> QED BY <1>3, <1>4

\* Nothing is in flight, and nothing signalled.
LEMMA AtReset ==
  ASSUME \A q \in DeviceQueues : pending'[q] = <<>>, signalled' = {}, ~Open'
  PROVE  SyncInv'
<1>1. \A q \in DeviceQueues : DOMAIN pending'[q] = {}
  OBVIOUS
<1>2. "compute" \in DeviceQueues /\ "present" \in DeviceQueues
  BY DEF DeviceQueues
<1>3. OperationsLegal' /\ OneOfEach' /\ ChainRuns' /\ Consumed' /\ ClosingLast' /\ FenceMeansDone'
  BY <1>1 DEF OperationsLegal, OneOfEach, ChainRuns, Consumed, ClosingLast, FenceMeansDone
<1>4. OpenFrame' /\ UserFenceRuns' /\ AcquiresRun' /\ ImagesRun'
  BY <1>1, <1>2 DEF OpenFrame, UserFenceRuns, AcquiresRun, ImagesRun
<1> QED BY <1>3, <1>4 DEF SyncInv

\* A step of the client that the device takes no part in.
Quiet ==
  /\ pending' = pending /\ signalled' \subseteq signalled /\ fences' \subseteq fences
  /\ current_frame' = current_frame /\ frame' = frame
  /\ (Open' => Open) /\ (Unfinished => Unfinished')
  /\ \/ UNCHANGED <<owned, current_image, chain>>
     \/ Idle /\ (Open' => ~frame.acquired)

\* Such a step keeps the invariant.
LEMMA QuietKeepsSync ==
  ASSUME SyncInv, Quiet
  PROVE  SyncInv'
<1>1. /\ pending' = pending /\ signalled' \subseteq signalled /\ fences' \subseteq fences
      /\ current_frame' = current_frame /\ frame' = frame
      /\ (Open' => Open) /\ (Unfinished => Unfinished')
  BY DEF Quiet
<1>2. OperationsLegal'
  <2>1. CASE chain' = chain
    BY <1>1, <2>1, OperationsStayLegal DEF SyncInv
  <2>2. CASE Idle
    BY <1>1, <2>2 DEF Idle, OperationsLegal
  <2> QED BY <2>1, <2>2 DEF Quiet
<1>3. OneOfEach'
  BY <1>1 DEF SyncInv, OneOfEach
<1>4. ChainRuns'
  BY <1>1 DEF SyncInv, ChainRuns
<1>5. Consumed'
  <2>1. \A f, n : Waited(f, n) => Waited(f, n)'
    BY <1>1 DEF Waited
  <2> QED BY <1>1, <2>1 DEF SyncInv, Consumed
<1>6. ClosingLast' /\ FenceMeansDone'
  BY <1>1 DEF SyncInv, ClosingLast, FenceMeansDone
<1>7. OpenFrame'
  BY <1>1 DEF SyncInv, OpenFrame
<1>8. UserFenceRuns'
  BY <1>1 DEF SyncInv, UserFenceRuns
<1>9. AcquiresRun'
  BY <1>1 DEF SyncInv, AcquiresRun
<1>10. ImagesRun'
  <2>1. CASE UNCHANGED <<owned, current_image, chain>>
    BY <1>1, <2>1 DEF SyncInv, ImagesRun
  <2>2. CASE Idle /\ (Open' => ~frame.acquired)
    <3>1. "present" \in DeviceQueues
      BY DEF DeviceQueues
    <3>2. \A q \in DeviceQueues : DOMAIN pending[q] = {}
      BY <2>2 DEF Idle
    <3> QED BY <1>1, <2>2, <3>1, <3>2 DEF SyncInv, ImagesRun
  <2> QED BY <2>1, <2>2 DEF Quiet
<1> QED BY <1>2, <1>3, <1>4, <1>5, <1>6, <1>7, <1>8, <1>9, <1>10 DEF SyncInv

\* BeginFrame has waited for the fence of the frame.
LEMMA ReuseKeepsSync ==
  ASSUME Types, SyncInv, ReuseFrame
  PROVE  SyncInv'
<1>1. /\ pending' = pending /\ signalled' = signalled /\ fences' = fences \ {FrameFence(current_frame)}
      /\ current_frame' = current_frame /\ frame' = NoFlags /\ pc = "wait" /\ pc' \in {"acquire", "frame"}
      /\ UNCHANGED <<owned, current_image, chain>> /\ FrameFence(current_frame) \in fences
      /\ current_frame \in Frames
  BY DEF ReuseFrame, swapChainVars, FrameFenceSignalled, Types, TypeOK
<1>2. ~Unfinished /\ ~Open
  BY <1>1 DEF Unfinished, Open
<1>3. ~NoFlags.acquired /\ NoFlags.last = 0
  BY DEF NoFlags
<1>4. OperationsLegal' /\ OneOfEach'
  <2>1. OperationsLegal'
    BY <1>1, OperationsStayLegal DEF SyncInv
  <2> QED BY <1>1, <2>1 DEF SyncInv, OneOfEach
<1>5. ChainRuns'
  BY <1>1 DEF SyncInv, ChainRuns
<1>6. Consumed'
  <2>1. \A f, n : Waited(f, n) => Waited(f, n)'
    BY <1>1, <1>2 DEF Waited
  <2> QED BY <1>1, <2>1 DEF SyncInv, Consumed
<1>7. ClosingLast' /\ FenceMeansDone'
  BY <1>1 DEF SyncInv, ClosingLast, FenceMeansDone
<1>8. OpenFrame'
  <2>1. FrameFence(current_frame) \notin fences'
    BY <1>1
  <2>2. ASSUME NEW q \in DeviceQueues, NEW i \in DOMAIN pending[q],
               NEW n \in 1 .. kMaxSubmittedCommandLists
        PROVE  ~Closes(pending[q][i], current_frame) /\ ~Numbered(pending[q][i], current_frame, n)
    <3>1. ~Closes(pending[q][i], current_frame) /\ ~OfFrame(pending[q][i], current_frame)
      BY <1>1 DEF SyncInv, FenceMeansDone
    <3>2. Legal(q, pending[q][i])
      BY DEF SyncInv, OperationsLegal
    <3>3. PICK op : op = pending[q][i]
      OBVIOUS
    <3>4. ASSUME Numbered(op, current_frame, n) PROVE FALSE
      <4>1. SubmissionForm(q, op, current_frame, n)
        BY <1>1, <3>2, <3>3, <3>4, Recognised
      <4>2. OfFrame(op, current_frame)
        BY <1>1, <4>1, SubmissionFacts
      <4> QED BY <3>1, <3>3, <4>2
    <3> QED BY <3>1, <3>3, <3>4
  <2>3. \A q \in DeviceQueues : \A i \in DOMAIN pending[q] : ~Closes(pending[q][i], current_frame)
    <3>1. 1 \in 1 .. kMaxSubmittedCommandLists
      BY ConstantFacts
    <3> QED BY <2>2, <3>1
  <2> QED BY <1>1, <2>1, <2>2, <2>3 DEF OpenFrame
<1>9. UserFenceRuns'
  BY <1>1 DEF SyncInv, UserFenceRuns
<1>10. AcquiresRun'
  BY <1>1, <1>2 DEF SyncInv, AcquiresRun
<1>11. ImagesRun'
  BY <1>1, <1>3 DEF SyncInv, ImagesRun
<1> QED BY <1>4, <1>5, <1>6, <1>7, <1>8, <1>9, <1>10, <1>11 DEF SyncInv

\* An image is acquired.
LEMMA AcquireKeepsSync ==
  ASSUME Types, SyncInv, Phases, NEW image \in Images, Acquire(image)
  PROVE  SyncInv'
<1>1. /\ pending' = pending /\ signalled' = signalled \cup {ImageAvailable(current_frame)}
      /\ fences' = fences /\ current_frame' = current_frame /\ current_frame \in Frames
      /\ frame' = [frame EXCEPT !.acquired = TRUE] /\ pc = "acquire" /\ pc' = "frame"
      /\ image \notin owned /\ owned' = owned \cup {image} /\ current_image' = image /\ chain' = chain
  BY DEF Acquire, AcquireNextImage, Types, TypeOK
<1>2. frame = NoFlags /\ frame'.last = frame.last /\ frame'.acquired /\ ~frame'.consumed
  <2>1. frame = NoFlags
    BY <1>1 DEF Phases
  <2> QED BY <1>1, <2>1 DEF NoFlags
<1>3. Open /\ Open' /\ Unfinished /\ Unfinished'
  BY <1>1 DEF Unfinished, Open
<1>4. /\ \A f, n : SubmissionOf(f, n) \in signalled' <=> SubmissionOf(f, n) \in signalled
      /\ \A f : UserFenceOf(f) \in signalled' <=> UserFenceOf(f) \in signalled
      /\ \A i : RenderFinished(i) \in signalled' <=> RenderFinished(i) \in signalled
      /\ \A f : ImageAvailable(f) \in signalled' => f = current_frame \/ ImageAvailable(f) \in signalled
  BY <1>1, SemaphoresDiffer
<1>5. OperationsLegal' /\ OneOfEach'
  <2>1. OperationsLegal'
    BY <1>1, OperationsStayLegal DEF SyncInv
  <2> QED BY <1>1, <2>1 DEF SyncInv, OneOfEach
<1>6. ChainRuns'
  BY <1>1, <1>4 DEF SyncInv, ChainRuns
<1>7. Consumed'
  <2>1. \A f, n : Waited(f, n) => Waited(f, n)'
    BY <1>1, <1>2, <1>3 DEF Waited
  <2> QED BY <1>1, <1>4, <2>1 DEF SyncInv, Consumed
<1>8. ClosingLast' /\ FenceMeansDone'
  BY <1>1 DEF SyncInv, ClosingLast, FenceMeansDone
<1>9. OpenFrame'
  BY <1>1, <1>2, <1>3 DEF SyncInv, OpenFrame
<1>10. UserFenceRuns'
  BY <1>1, <1>4 DEF SyncInv, UserFenceRuns
<1>11. AcquiresRun'
  <2> SUFFICES ASSUME NEW f \in Frames, ImageAvailable(f) \in signalled'
               PROVE  \/ Unfinished' /\ f = current_frame' /\ frame'.acquired /\ ~frame'.consumed
                      \/ \E q \in DeviceQueues : \E i \in DOMAIN pending'[q] :
                           ImageAvailable(f) \in pending'[q][i].waits
    BY DEF AcquiresRun
  <2>1. CASE f = current_frame
    BY <1>1, <1>2, <1>3, <2>1
  <2>2. CASE ImageAvailable(f) \in signalled
    BY <1>1, <1>2, <1>3, <2>2 DEF SyncInv, AcquiresRun
  <2> QED BY <1>4, <2>1, <2>2
<1>12. ImagesRun'
  BY <1>1, <1>4 DEF SyncInv, ImagesRun
<1> QED BY <1>5, <1>6, <1>7, <1>8, <1>9, <1>10, <1>11, <1>12 DEF SyncInv

\* The oldest operation of a queue leaves it: the others move up.
LEMMA MovedUp ==
  ASSUME pending \in [DeviceQueues -> Seq(Operations)], NEW q \in DeviceQueues, pending[q] # <<>>,
         pending' = [pending EXCEPT ![q] = Tail(@)]
  PROVE  /\ 1 \in DOMAIN pending[q] /\ Head(pending[q]) = pending[q][1]
         /\ \A r \in DeviceQueues : \A i \in DOMAIN pending'[r] :
              \E j \in DOMAIN pending[r] :
                /\ pending'[r][i] = pending[r][j] /\ ~(r = q /\ j = 1)
                /\ i \in Nat /\ j = IF r = q THEN i + 1 ELSE i
         /\ \A r \in DeviceQueues : \A j \in DOMAIN pending[r] :
              ~(r = q /\ j = 1) =>
                \E i \in DOMAIN pending'[r] :
                  /\ pending'[r][i] = pending[r][j]
                  /\ i \in Nat /\ j = IF r = q THEN i + 1 ELSE i
<1>1. PICK s : s = pending[q]
  OBVIOUS
<1>2. s \in Seq(Operations) /\ s # <<>>
  BY <1>1
<1>3. PICK n \in Nat : n = Len(s)
  BY <1>2, LenProperties
<1>4. /\ DOMAIN s = 1 .. n /\ n >= 1 /\ Head(s) = s[1] /\ Tail(s) \in Seq(Operations)
      /\ Len(Tail(s)) = n - 1 /\ \A i \in 1 .. n - 1 : Tail(s)[i] = s[i + 1]
  BY <1>2, <1>3, HeadTailProperties, EmptySeq, LenProperties
<1>5. DOMAIN Tail(s) = 1 .. n - 1
  BY <1>3, <1>4, LenProperties
<1>6. pending'[q] = Tail(s) /\ \A r \in DeviceQueues : r # q => pending'[r] = pending[r]
  BY <1>1
<1>7. ASSUME NEW r \in DeviceQueues, NEW i \in DOMAIN pending'[r]
      PROVE  \E j \in DOMAIN pending[r] :
                /\ pending'[r][i] = pending[r][j] /\ ~(r = q /\ j = 1)
                /\ i \in Nat /\ j = IF r = q THEN i + 1 ELSE i
  <2>1. CASE r = q
    <3>0. i \in 1 .. n - 1
      BY <1>5, <1>6, <1>7, <2>1
    <3>1. i \in 1 .. n - 1 /\ i \in Nat /\ i + 1 \in 1 .. n /\ i + 1 # 1
      BY <3>0
    <3> QED BY <1>1, <1>4, <1>6, <2>1, <3>1
  <2>2. CASE r # q
    <3>1. i \in DOMAIN pending[r] /\ pending'[r][i] = pending[r][i]
      BY <1>6, <2>2
    <3>2. i \in Nat
      BY <3>1, LenProperties
    <3> QED BY <2>2, <3>1, <3>2
  <2> QED BY <2>1, <2>2
<1>8. ASSUME NEW r \in DeviceQueues, NEW j \in DOMAIN pending[r], ~(r = q /\ j = 1)
      PROVE  \E i \in DOMAIN pending'[r] :
                  /\ pending'[r][i] = pending[r][j]
                  /\ i \in Nat /\ j = IF r = q THEN i + 1 ELSE i
  <2>1. CASE r = q
    <3>1. j \in 1 .. n /\ j # 1
      BY <1>1, <1>4, <1>8, <2>1
    <3>2. j - 1 \in 1 .. n - 1 /\ (j - 1) + 1 = j
      BY <3>1
    <3> QED BY <1>1, <1>4, <1>5, <1>6, <2>1, <3>2
  <2>2. CASE r # q
    <3>1. j \in DOMAIN pending'[r] /\ pending'[r][j] = pending[r][j]
      BY <1>6, <2>2
    <3>2. j \in Nat
      BY LenProperties
    <3> QED BY <2>2, <3>1, <3>2
  <2> QED BY <2>1, <2>2
<1>9. 1 \in DOMAIN pending[q] /\ Head(pending[q]) = pending[q][1]
  BY <1>1, <1>3, <1>4
<1> QED BY <1>7, <1>8, <1>9

\* The oldest operation of a queue completes.
LEMMA CompleteKeepsSync ==
  ASSUME Types, SyncInv, NEW q \in DeviceQueues, DeviceStep(q)
  PROVE  SyncInv'
<1>1. /\ pending \in [DeviceQueues -> Seq(Operations)] /\ pending[q] # <<>>
      /\ pending' = [pending EXCEPT ![q] = Tail(@)]
  BY DEF DeviceStep, Complete, CanComplete, Types
<1>2. PICK op : op = pending[q][1]
  OBVIOUS
<1>3. /\ 1 \in DOMAIN pending[q] /\ op = Head(pending[q])
      /\ \A r \in DeviceQueues : \A i \in DOMAIN pending'[r] :
           \E j \in DOMAIN pending[r] :
             /\ pending'[r][i] = pending[r][j] /\ ~(r = q /\ j = 1)
             /\ i \in Nat /\ j = IF r = q THEN i + 1 ELSE i
      /\ \A r \in DeviceQueues : \A j \in DOMAIN pending[r] :
           ~(r = q /\ j = 1) =>
             \E i \in DOMAIN pending'[r] :
               /\ pending'[r][i] = pending[r][j]
               /\ i \in Nat /\ j = IF r = q THEN i + 1 ELSE i
  BY <1>1, <1>2, MovedUp
<1>4. /\ op.waits \subseteq signalled /\ signalled' = (signalled \ op.waits) \cup op.signals
      /\ fences' = fences \cup ({op.fence} \ {NoFence})
      /\ owned' = IF q = "present" THEN owned \ {op.uses.image[2]} ELSE owned
      /\ UNCHANGED <<chain, current_image, current_frame, frame, pc, resume>>
  BY <1>3 DEF DeviceStep, Complete, CanComplete, Presented, contextVars
<1>5. Legal(q, op) /\ \A r \in DeviceQueues : \A j \in DOMAIN pending[r] : Legal(r, pending[r][j])
  BY <1>2, <1>3 DEF SyncInv, OperationsLegal
<1>6. (Open' <=> Open) /\ (Unfinished' <=> Unfinished)
  BY <1>4 DEF Open, Unfinished
\* The operations that stay are no rivals of the one that completes.
<1>7. ASSUME NEW r \in DeviceQueues, NEW j \in DOMAIN pending[r], ~(r = q /\ j = 1)
      PROVE  ~Rivals(pending[r][j], op) /\ ~Rivals(op, pending[r][j])
  BY <1>2, <1>3, <1>7 DEF SyncInv, OneOfEach
<1>8. OperationsLegal'
  <2> SUFFICES ASSUME NEW r \in DeviceQueues, NEW i \in DOMAIN pending'[r]
               PROVE  Legal(r, pending[r][i])'
    BY DEF OperationsLegal
  <2>1. PICK o : o = pending'[r][i]
    OBVIOUS
  <2>2. Legal(r, o)
    BY <1>3, <1>5, <2>1
  <2>3. Legal(r, o)'
    BY <1>4, <2>2, LegalStays
  <2> QED BY <2>1, <2>3
<1>9. OneOfEach'
  <2> SUFFICES ASSUME NEW r \in DeviceQueues, NEW s \in DeviceQueues,
                      NEW i \in DOMAIN pending'[r], NEW k \in DOMAIN pending'[s],
                      Rivals(pending'[r][i], pending'[s][k])
               PROVE  r = s /\ i = k
    BY DEF OneOfEach, Rivals
  <2>1. PICK j \in DOMAIN pending[r] : pending'[r][i] = pending[r][j] /\ i \in Nat
                                       /\ j = IF r = q THEN i + 1 ELSE i
    BY <1>3
  <2>2. PICK l \in DOMAIN pending[s] : pending'[s][k] = pending[s][l] /\ k \in Nat
                                       /\ l = IF s = q THEN k + 1 ELSE k
    BY <1>3
  <2>3. r = s /\ j = l
    BY <2>1, <2>2 DEF SyncInv, OneOfEach
  <2> QED BY <2>1, <2>2, <2>3
<1>10. ChainRuns'
  <2> SUFFICES ASSUME NEW r \in DeviceQueues, NEW i \in DOMAIN pending'[r], NEW f \in Frames,
                      NEW n \in 1 .. kMaxSubmittedCommandLists,
                      NEW m \in 1 .. kMaxSubmittedCommandLists,
                      Numbered(pending'[r][i], f, n), n <= m
               PROVE  SubmissionOf(f, m) \notin signalled'
    BY DEF ChainRuns, Numbered
  <2>1. PICK j \in DOMAIN pending[r] : pending'[r][i] = pending[r][j] /\ ~(r = q /\ j = 1)
    BY <1>3
  <2>2. Numbered(pending[r][j], f, n) /\ SubmissionOf(f, m) \notin signalled
    BY <2>1 DEF SyncInv, ChainRuns
  <2>3. ASSUME Numbered(op, f, m) PROVE FALSE
    <3>1. n # m
      <4>1. ~(Numbered(pending[r][j], f, m) /\ Numbered(op, f, m))
        BY <1>7, <2>1 DEF Rivals
      <4> QED BY <2>2, <2>3, <4>1
    <3>2a. SubmissionForm(q, op, f, m)
      BY <1>5, <2>3, Recognised
    <3>2b. m > 1 /\ m - 1 \in 1 .. kMaxSubmittedCommandLists /\ n <= m - 1
      BY <3>1, ConstantFacts
    <3>2. SubmissionForm(q, op, f, m) /\ m > 1 /\ m - 1 \in 1 .. kMaxSubmittedCommandLists /\ n <= m - 1
      BY <3>2a, <3>2b
    <3>3. SubmissionOf(f, m - 1) \in op.waits
      BY <3>2, SubmissionFacts
    <3>4. SubmissionOf(f, m - 1) \notin signalled
      BY <2>2, <3>2 DEF SyncInv, ChainRuns
    <3> QED BY <1>4, <3>3, <3>4
  <2> QED BY <1>4, <2>2, <2>3 DEF Numbered
<1>11. Consumed'
  <2>1. ASSUME NEW f \in Frames, NEW n \in 1 .. kMaxSubmittedCommandLists,
               Waited(f, n), SubmissionOf(f, n) \notin op.waits
        PROVE  Waited(f, n)'
    <3>1. CASE Unfinished /\ f = current_frame /\ n = frame.last
      BY <1>4, <1>6, <3>1 DEF Waited
    <3>2. CASE \E r \in DeviceQueues : \E j \in DOMAIN pending[r] : SubmissionOf(f, n) \in pending[r][j].waits
      <4>1. PICK r \in DeviceQueues : \E j \in DOMAIN pending[r] : SubmissionOf(f, n) \in pending[r][j].waits
        BY <3>2
      <4>2. PICK j \in DOMAIN pending[r] : SubmissionOf(f, n) \in pending[r][j].waits
        BY <4>1
      <4>3. ~(r = q /\ j = 1)
        BY <1>2, <2>1, <4>2
      <4>4. \E i \in DOMAIN pending'[r] : SubmissionOf(f, n) \in pending'[r][i].waits
        BY <1>3, <4>2, <4>3
      <4> QED BY <4>4 DEF Waited
    <3> QED BY <2>1, <3>1, <3>2 DEF Waited
  <2>2. ASSUME NEW f \in Frames, NEW n \in 1 .. kMaxSubmittedCommandLists,
               SubmissionOf(f, n) \in signalled'
        PROVE  Waited(f, n)'
    <3>1. CASE SubmissionOf(f, n) \in signalled \ op.waits
      BY <2>1, <3>1 DEF SyncInv, Consumed
    <3>2. CASE Numbered(op, f, n)
      <4>1. Waited(f, n)
        BY <1>2, <1>3, <3>2 DEF SyncInv, Consumed
      <4>2. SubmissionOf(f, n) \notin signalled
        BY <1>2, <1>3, <3>2 DEF SyncInv, ChainRuns
      <4> QED BY <1>4, <2>1, <4>1, <4>2
    <3> QED BY <1>4, <2>2, <3>1, <3>2 DEF Numbered
  <2>3. ASSUME NEW f \in Frames, NEW n \in 1 .. kMaxSubmittedCommandLists,
               NEW r \in DeviceQueues, NEW i \in DOMAIN pending'[r], Numbered(pending'[r][i], f, n)
        PROVE  Waited(f, n)'
    <3>1. PICK j \in DOMAIN pending[r] : pending'[r][i] = pending[r][j]
      BY <1>3
    <3>2. Waited(f, n)
      BY <2>3, <3>1 DEF SyncInv, Consumed
    <3>3. SubmissionOf(f, n) \notin signalled
      BY <2>3, <3>1 DEF SyncInv, ChainRuns
    <3> QED BY <1>4, <2>1, <3>2, <3>3
  <2> QED BY <2>2, <2>3 DEF Consumed, Numbered
<1>12. ClosingLast'
  <2> SUFFICES ASSUME NEW f \in Frames, NEW n \in 1 .. kMaxSubmittedCommandLists,
                      NEW r \in DeviceQueues, NEW s \in DeviceQueues,
                      NEW i \in DOMAIN pending'[r], NEW k \in DOMAIN pending'[s],
                      Numbered(pending'[r][i], f, n), Closes(pending'[s][k], f)
               PROVE  \E m \in n .. kMaxSubmittedCommandLists : SubmissionOf(f, m) \in pending'[s][k].waits
    BY DEF ClosingLast, Numbered, Closes
  <2>1. PICK j \in DOMAIN pending[r] : pending'[r][i] = pending[r][j]
    BY <1>3
  <2>2. PICK l \in DOMAIN pending[s] : pending'[s][k] = pending[s][l]
    BY <1>3
  <2> QED BY <2>1, <2>2 DEF SyncInv, ClosingLast
<1>13. FenceMeansDone'
  <2> SUFFICES ASSUME NEW f \in Frames, FrameFence(f) \in fences',
                      NEW r \in DeviceQueues, NEW i \in DOMAIN pending'[r]
               PROVE  ~Closes(pending'[r][i], f) /\ ~OfFrame(pending'[r][i], f)
    BY DEF FenceMeansDone, Closes, OfFrame
  <2>1. PICK j \in DOMAIN pending[r] : pending'[r][i] = pending[r][j] /\ ~(r = q /\ j = 1)
    BY <1>3
  <2>2. CASE FrameFence(f) \in fences
    BY <2>1, <2>2 DEF SyncInv, FenceMeansDone
  <2>3. CASE Closes(op, f)
    <3>1. ~Closes(pending[r][j], f)
      BY <1>7, <2>1, <2>3 DEF Rivals
    <3>2. ASSUME OfFrame(pending[r][j], f) PROVE FALSE
      <4>1. PICK o : o = pending[r][j]
        OBVIOUS
      <4>2. PICK n \in 1 .. kMaxSubmittedCommandLists : SubmissionForm(r, o, f, n)
        BY <1>5, <3>2, <4>1, Recognised
      <4>3. Numbered(o, f, n)
        BY <4>2, SubmissionFacts
      <4>4. PICK m \in n .. kMaxSubmittedCommandLists : SubmissionOf(f, m) \in op.waits
        BY <1>2, <1>3, <2>3, <4>1, <4>3 DEF SyncInv, ClosingLast
      <4>5. m \in 1 .. kMaxSubmittedCommandLists /\ n <= m
        OBVIOUS
      <4>6. SubmissionOf(f, m) \notin signalled
        BY <4>1, <4>3, <4>5 DEF SyncInv, ChainRuns
      <4> QED BY <1>4, <4>4, <4>6
    <3> QED BY <2>1, <3>1, <3>2
  <2> QED BY <1>4, <2>2, <2>3 DEF Closes
<1>14. OpenFrame'
  <2> SUFFICES ASSUME Open' PROVE OpenFrame'
    BY DEF OpenFrame
  <2>1. /\ FrameFence(current_frame) \notin fences
        /\ \A r \in DeviceQueues : \A j \in DOMAIN pending[r] :
             /\ ~Closes(pending[r][j], current_frame)
             /\ \A n \in 1 .. kMaxSubmittedCommandLists :
                  Numbered(pending[r][j], current_frame, n) => n <= frame.last
    BY <1>6 DEF SyncInv, OpenFrame
  <2>2. FrameFence(current_frame) \notin fences'
    BY <1>2, <1>3, <1>4, <2>1 DEF Closes
  <2>3. \A r \in DeviceQueues : \A i \in DOMAIN pending'[r] :
             /\ ~Closes(pending'[r][i], current_frame)
             /\ \A n \in 1 .. kMaxSubmittedCommandLists :
                  Numbered(pending'[r][i], current_frame, n) => n <= frame.last
    BY <1>3, <2>1
  <2> QED BY <1>4, <2>2, <2>3 DEF OpenFrame, Closes, Numbered
<1>15. UserFenceRuns'
  <2>1. ASSUME UserFence \in fences', NEW r \in DeviceQueues, NEW i \in DOMAIN pending'[r], NEW f \in Frames
        PROVE  ~Forwards(pending'[r][i], f)
    <3>1. PICK j \in DOMAIN pending[r] : pending'[r][i] = pending[r][j] /\ ~(r = q /\ j = 1)
      BY <1>3
    <3>2. CASE UserFence \in fences
      BY <3>1, <3>2 DEF SyncInv, UserFenceRuns
    <3>3. CASE op.fence = UserFence
      <4>1. PICK g \in Frames : ForwardForm(q, op, g)
        BY <1>5, <3>3, Recognised
      <4>2. Forwards(op, g)
        BY <4>1, ForwardFacts
      <4> QED BY <1>7, <3>1, <4>2 DEF Rivals
    <3> QED BY <1>4, <2>1, <3>2, <3>3
  <2>2. ASSUME NEW f \in Frames, UserFenceOf(f) \in signalled'
        PROVE  \E i \in DOMAIN pending'["compute"] : Forwards(pending'["compute"][i], f)
    <3>0. "compute" \in DeviceQueues
      BY DEF DeviceQueues
    <3>1. \E j \in DOMAIN pending["compute"] :
             Forwards(pending["compute"][j], f) /\ ~("compute" = q /\ j = 1)
      <4>1. CASE UserFenceOf(f) \in signalled \ op.waits
        BY <1>2, <4>1 DEF SyncInv, UserFenceRuns, Forwards
      <4>2. CASE Asks(op, f)
        <5>1. PICK j \in DOMAIN pending["compute"] : 1 < j /\ Forwards(pending["compute"][j], f)
          BY <1>2, <1>3, <4>2 DEF SyncInv, UserFenceRuns
        <5> QED BY <5>1
      <4> QED BY <1>4, <2>2, <4>1, <4>2 DEF Asks
    <3> QED BY <1>3, <3>0, <3>1
  <2>3. ASSUME NEW f \in Frames, NEW r \in DeviceQueues, NEW i \in DOMAIN pending'[r],
               Asks(pending'[r][i], f)
        PROVE  /\ UserFenceOf(f) \notin signalled'
               /\ r = "compute"
               /\ \E k \in DOMAIN pending'["compute"] : i < k /\ Forwards(pending'["compute"][k], f)
    <3>1. PICK j \in DOMAIN pending[r] : pending'[r][i] = pending[r][j] /\ ~(r = q /\ j = 1)
                                         /\ i \in Nat /\ j = IF r = q THEN i + 1 ELSE i
      BY <1>3
    <3>2. /\ UserFenceOf(f) \notin signalled /\ r = "compute"
          /\ \E l \in DOMAIN pending["compute"] : j < l /\ Forwards(pending["compute"][l], f)
      BY <2>3, <3>1 DEF SyncInv, UserFenceRuns
    <3>3. ~Asks(op, f)
      BY <1>7, <2>3, <3>1 DEF Rivals
    <3>4. PICK l \in DOMAIN pending["compute"] : j < l /\ Forwards(pending["compute"][l], f)
      BY <3>2
    <3>5. ~("compute" = q /\ l = 1)
      BY <3>1, <3>2, <3>4
    <3>6. PICK k \in DOMAIN pending'["compute"] :
             pending'["compute"][k] = pending["compute"][l] /\ k \in Nat
             /\ l = IF "compute" = q THEN k + 1 ELSE k
      BY <1>3, <3>2, <3>5
    <3>7. i < k
      BY <3>1, <3>2, <3>4, <3>6
    <3> QED BY <1>4, <3>2, <3>3, <3>4, <3>6, <3>7 DEF Asks
  <2> QED BY <2>1, <2>2, <2>3 DEF UserFenceRuns, Forwards, Asks
<1>16. AcquiresRun'
  <2> SUFFICES ASSUME NEW f \in Frames, ImageAvailable(f) \in signalled'
               PROVE  \/ Unfinished' /\ f = current_frame' /\ frame'.acquired /\ ~frame'.consumed
                      \/ \E r \in DeviceQueues : \E i \in DOMAIN pending'[r] :
                           ImageAvailable(f) \in pending'[r][i].waits
    BY DEF AcquiresRun
  <2>1. ImageAvailable(f) \in signalled /\ ImageAvailable(f) \notin op.waits
    BY <1>4, <1>5, SemaphoresOf
  <2>2. CASE \E r \in DeviceQueues : \E j \in DOMAIN pending[r] : ImageAvailable(f) \in pending[r][j].waits
    <3>1. PICK r \in DeviceQueues : \E j \in DOMAIN pending[r] : ImageAvailable(f) \in pending[r][j].waits
      BY <2>2
    <3>2. PICK j \in DOMAIN pending[r] : ImageAvailable(f) \in pending[r][j].waits
      BY <3>1
    <3>3. ~(r = q /\ j = 1)
      BY <1>2, <2>1, <3>2
    <3> QED BY <1>3, <3>2, <3>3
  <2>3. CASE Unfinished /\ f = current_frame /\ frame.acquired /\ ~frame.consumed
    BY <1>4, <1>6, <2>3
  <2> QED BY <2>1, <2>2, <2>3 DEF SyncInv, AcquiresRun
<1>17. ImagesRun'
  <2>0. "present" \in DeviceQueues
    BY DEF DeviceQueues
  <2>1. ASSUME NEW i \in Images, RenderFinished(i) \in signalled'
        PROVE  \E k \in DOMAIN pending'["present"] : Presents(pending'["present"][k], i)
    <3>1. \E j \in DOMAIN pending["present"] :
             Presents(pending["present"][j], i) /\ ~("present" = q /\ j = 1)
      <4>1. CASE RenderFinished(i) \in signalled \ op.waits
        BY <1>2, <4>1 DEF SyncInv, ImagesRun, Presents
      <4>2. CASE Renders(op, i)
        <5>1. PICK j \in DOMAIN pending["present"] : Presents(pending["present"][j], i)
          BY <1>2, <1>3, <4>2 DEF SyncInv, ImagesRun
        <5>2. PICK f \in Frames : ClosingForm(q, op, f)
          BY <1>5, <4>2, Recognised
        <5>3. q = "graphics"
          BY <5>2, ClosingFacts
        <5> QED BY <5>1, <5>3
      <4> QED BY <1>4, <2>1, <4>1, <4>2 DEF Renders
    <3> QED BY <1>3, <2>0, <3>1
  <2>2. ASSUME NEW i \in Images, NEW r \in DeviceQueues, NEW k \in DOMAIN pending'[r],
               Renders(pending'[r][k], i)
        PROVE  /\ RenderFinished(i) \notin signalled'
               /\ \E l \in DOMAIN pending'["present"] : Presents(pending'["present"][l], i)
    <3>1. PICK j \in DOMAIN pending[r] : pending'[r][k] = pending[r][j] /\ ~(r = q /\ j = 1)
      BY <1>3
    <3>2. /\ RenderFinished(i) \notin signalled
          /\ \E l \in DOMAIN pending["present"] : Presents(pending["present"][l], i)
      BY <2>2, <3>1 DEF SyncInv, ImagesRun
    <3>3. ~Renders(op, i)
      BY <1>7, <2>2, <3>1 DEF Rivals
    <3>4. PICK l \in DOMAIN pending["present"] : Presents(pending["present"][l], i)
      BY <3>2
    <3>5. ~("present" = q /\ l = 1)
      BY <1>2, <1>4, <3>2, <3>4 DEF Presents
    <3> QED BY <1>3, <1>4, <2>0, <3>2, <3>3, <3>4, <3>5 DEF Renders
  <2>3. q = "present" => \E i \in Images : Presents(op, i) /\ op.uses.image[2] = i
    <3> SUFFICES ASSUME q = "present" PROVE \E i \in Images : Presents(op, i) /\ op.uses.image[2] = i
      OBVIOUS
    <3>1. PICK i \in Images : PresentForm(q, op, i)
      BY <1>5, Recognised
    <3> QED BY <3>1, PresentFacts
  <2>4. ASSUME NEW i \in Images, NEW k \in DOMAIN pending'["present"], Presents(pending'["present"][k], i)
        PROVE  i \in owned' /\ (Open' /\ frame'.acquired => i # current_image')
    <3>1. PICK j \in DOMAIN pending["present"] :
            pending'["present"][k] = pending["present"][j] /\ ~("present" = q /\ j = 1)
      BY <1>3, <2>0
    <3>2. Presents(pending["present"][j], i) /\ i \in owned /\ (Open /\ frame.acquired => i # current_image)
      BY <2>4, <3>1 DEF SyncInv, ImagesRun
    <3>3. ~Presents(op, i)
      BY <1>7, <2>0, <3>1, <3>2 DEF Rivals
    <3>4. i \in owned'
      BY <1>4, <2>3, <3>2, <3>3
    <3> QED BY <1>4, <1>6, <3>2, <3>4
  <2>5. ASSUME Open', frame'.acquired PROVE current_image' \in owned'
    <3>1. current_image \in owned
      BY <1>4, <1>6, <2>5 DEF SyncInv, ImagesRun
    <3>2. CASE q = "present"
      <4>1. PICK i \in Images : Presents(op, i) /\ op.uses.image[2] = i
        BY <2>3, <3>2
      <4>2. i # current_image
        BY <1>2, <1>3, <1>4, <1>6, <2>5, <3>2, <4>1 DEF SyncInv, ImagesRun
      <4> QED BY <1>4, <3>1, <3>2, <4>1, <4>2
    <3> QED BY <1>4, <3>1, <3>2
  <2> QED BY <2>1, <2>2, <2>4, <2>5 DEF ImagesRun, Renders, Presents
<1> QED BY <1>8, <1>9, <1>10, <1>11, <1>12, <1>13, <1>14, <1>15, <1>16, <1>17 DEF SyncInv

\* The operation op becomes the latest of the current frame and the k + 1-st of its queue; one that
\* forwards to the application's fence may follow it.
Submits(q, op, k) ==
  /\ q \in ListQueues /\ k \in Nat /\ DOMAIN pending[q] = 1 .. k
  /\ pc = "frame" /\ UNCHANGED <<pc, resume, current_frame, signalled, owned, current_image, chain>>
  /\ frame.last + 1 \in 1 .. kMaxSubmittedCommandLists
  /\ SubmissionForm(q, op, current_frame, frame.last + 1)
  /\ frame'.last = frame.last + 1 /\ frame'.acquired = frame.acquired
  /\ frame'.consumed => frame.consumed \/ ImageAvailable(current_frame) \in op.waits
  /\ fences' \subseteq fences
  /\ \A r \in DeviceQueues : \A i \in DOMAIN pending[r] :
       i \in DOMAIN pending'[r] /\ pending'[r][i] = pending[r][i]
  /\ k + 1 \in DOMAIN pending'[q] /\ pending'[q][k + 1] = op
  /\ \A r \in DeviceQueues : \A i \in DOMAIN pending'[r] :
       \/ i \in DOMAIN pending[r]
       \/ r = q /\ i = k + 1
       \/ r = q /\ i = k + 2 /\ Asks(op, current_frame)
  /\ Asks(op, current_frame) =>
       /\ UserFence \in fences /\ UserFence \notin fences'
       /\ k + 2 \in DOMAIN pending'[q] /\ ForwardForm(q, pending'[q][k + 2], current_frame)

\* A submission keeps the invariant.
LEMMA SubmitKeepsSync ==
  ASSUME Types, SyncInv, NEW q \in ListQueues, NEW op, NEW k \in Nat, Submits(q, op, k)
  PROVE  SyncInv'
<1>1. PICK f \in Frames, n \in 1 .. kMaxSubmittedCommandLists :
        /\ f = current_frame /\ n = frame.last + 1 /\ n \in Nat /\ frame.last \in Nat
        /\ frame.last = n - 1
  BY DEF Submits, Types, TypeOK
<1>2. /\ DOMAIN pending[q] = 1 .. k /\ q \in DeviceQueues /\ q # "present"
      /\ UNCHANGED <<current_frame, signalled, owned, current_image, chain>>
      /\ SubmissionForm(q, op, f, n)
      /\ frame'.last = n /\ frame'.acquired = frame.acquired
      /\ frame'.consumed => frame.consumed \/ ImageAvailable(f) \in op.waits
      /\ fences' \subseteq fences
  BY <1>1 DEF Submits, ListQueues, DeviceQueues
<1>3. Open /\ Open' /\ Unfinished /\ Unfinished'
  BY DEF Submits, Open, Unfinished
<1>4. /\ \A r \in DeviceQueues : \A i \in DOMAIN pending[r] :
           i \in DOMAIN pending'[r] /\ pending'[r][i] = pending[r][i]
      /\ k + 1 \in DOMAIN pending'[q] /\ pending'[q][k + 1] = op
      /\ Asks(op, f) =>
           /\ UserFence \in fences /\ UserFence \notin fences'
           /\ k + 2 \in DOMAIN pending'[q] /\ ForwardForm(q, pending'[q][k + 2], f)
  BY <1>1 DEF Submits
<1>5. PICK forward : forward = pending'[q][k + 2]
  OBVIOUS
<1>6. Asks(op, f) => ForwardForm(q, forward, f)
  BY <1>4, <1>5
<1>7. \A r \in DeviceQueues : \A i \in DOMAIN pending'[r] :
        \/ i \in DOMAIN pending[r] /\ pending'[r][i] = pending[r][i]
        \/ r = q /\ i = k + 1 /\ pending'[r][i] = op
        \/ r = q /\ i = k + 2 /\ pending'[r][i] = forward /\ ForwardForm(q, forward, f) /\ Asks(op, f)
  BY <1>1, <1>4, <1>5, <1>6 DEF Submits
<1>8. \A r \in DeviceQueues : \A j \in DOMAIN pending[r] : Legal(r, pending[r][j])
  BY DEF SyncInv, OperationsLegal
<1>9. /\ FrameFence(f) \notin fences
      /\ \A r \in DeviceQueues : \A j \in DOMAIN pending[r] :
           /\ ~Closes(pending[r][j], f)
           /\ \A m \in 1 .. kMaxSubmittedCommandLists : Numbered(pending[r][j], f, m) => m < n
  BY <1>1, <1>3 DEF SyncInv, OpenFrame
<1>10. /\ \A g, m : Numbered(op, g, m) <=> g = f /\ m = n
       /\ n > 1 => SubmissionOf(f, n - 1) \in op.waits
       /\ \A g : OfFrame(op, g) <=> g = f
       /\ \A g : Asks(op, g) => q = "compute" /\ g = f
       /\ \A g : ~Closes(op, g) /\ ~Forwards(op, g)
       /\ \A i : ~Renders(op, i) /\ ~Presents(op, i)
  <2>1. q \in DeviceQueues /\ SubmissionForm(q, op, f, n)
    BY <1>2
  <2>2. /\ \A g, m : Numbered(op, g, m) <=> g = f /\ m = n
        /\ n > 1 => SubmissionOf(f, n - 1) \in op.waits
        /\ \A g : OfFrame(op, g) <=> g = f
        /\ \A g : Asks(op, g) => q = "compute" /\ g = f
        /\ \A g : ~Closes(op, g) /\ ~Forwards(op, g)
        /\ \A i : ~Renders(op, i) /\ ~Presents(op, i)
    BY <2>1, SubmissionFacts, Zenon
  <2> QED BY <2>2
<1>11. ForwardForm(q, forward, f) =>
         /\ \A g, m : ~Numbered(forward, g, m)
         /\ \A g : ~OfFrame(forward, g) /\ ~Closes(forward, g) /\ ~Asks(forward, g)
         /\ \A g : Forwards(forward, g) <=> g = f
         /\ \A i : ~Presents(forward, i) /\ ~Renders(forward, i)
  BY <1>2, ForwardFacts DEF Numbered, Asks, Renders
\* The number is new.
<1>12. ASSUME NEW m \in 1 .. kMaxSubmittedCommandLists, n <= m, SubmissionOf(f, m) \in signalled
       PROVE  FALSE
  <2>1. Waited(f, m) /\ m # frame.last
    BY <1>1, <1>12 DEF SyncInv, Consumed
  <2>2. PICK r \in DeviceQueues : \E j \in DOMAIN pending[r] : SubmissionOf(f, m) \in pending[r][j].waits
    BY <2>1 DEF Waited
  <2>3. PICK j \in DOMAIN pending[r] : SubmissionOf(f, m) \in pending[r][j].waits
    BY <2>2
  <2>4. PICK o : o = pending[r][j]
    OBVIOUS
  <2>5. Legal(r, o) /\ ~Closes(o, f) /\ m \in Nat
    BY <1>8, <1>9, <2>4
  <2>6. SubmissionForm(r, o, f, m + 1) /\ m + 1 \in 1 .. kMaxSubmittedCommandLists
    BY <2>3, <2>4, <2>5, SemaphoresOf
  <2>7. Numbered(o, f, m + 1)
    <3>1. PICK l \in 1 .. kMaxSubmittedCommandLists : l = m + 1
      BY <2>6
    <3>2. SubmissionForm(r, o, f, l)
      BY <2>6, <3>1
    <3>3. Numbered(o, f, l)
      BY <3>2, SubmissionFacts, Zenon
    <3> QED BY <3>1, <3>3
  <2>8. m + 1 < n
    BY <1>9, <2>4, <2>6, <2>7
  <2> QED BY <1>12, <2>8
\* Nobody else uses the fence of the application.
<1>13. ASSUME Asks(op, f)
       PROVE  \A g \in Frames :
                /\ UserFenceOf(g) \notin signalled
                /\ \A r \in DeviceQueues : \A j \in DOMAIN pending[r] :
                     ~Forwards(pending[r][j], g) /\ ~Asks(pending[r][j], g)
  <2>1. \A g \in Frames : \A r \in DeviceQueues : \A j \in DOMAIN pending[r] : ~Forwards(pending[r][j], g)
    BY <1>4, <1>13 DEF SyncInv, UserFenceRuns
  <2>2. "compute" \in DeviceQueues
    BY DEF DeviceQueues
  <2> QED BY <2>1, <2>2 DEF SyncInv, UserFenceRuns
<1>14. OperationsLegal'
  <2> SUFFICES ASSUME NEW r \in DeviceQueues, NEW i \in DOMAIN pending'[r]
               PROVE  Legal(r, pending[r][i])'
    BY DEF OperationsLegal
  <2>1. PICK o : o = pending'[r][i]
    OBVIOUS
  <2>2. Legal(q, op) /\ (ForwardForm(q, forward, f) => Legal(q, forward))
    BY <1>2 DEF Legal
  <2>3. Legal(r, o)
    BY <1>7, <1>8, <2>1, <2>2
  <2>4. Legal(r, o)'
    BY <1>2, <2>3, LegalStays
  <2> QED BY <2>1, <2>4
<1>15. OneOfEach'
  <2>1. ASSUME NEW r \in DeviceQueues, NEW j \in DOMAIN pending[r]
        PROVE  ~Rivals(pending[r][j], op) /\ ~Rivals(op, pending[r][j])
    <3>1. PICK o : o = pending[r][j]
      OBVIOUS
    <3>2. ~Closes(o, f) /\ ~Numbered(o, f, n) /\ (Asks(op, f) => \A g \in Frames : ~Asks(o, g))
      BY <1>9, <1>13, <3>1
    <3> QED BY <1>10, <3>1, <3>2 DEF Rivals
  <2>2. ASSUME ForwardForm(q, forward, f), Asks(op, f)
        PROVE  /\ ~Rivals(forward, op) /\ ~Rivals(op, forward)
               /\ \A r \in DeviceQueues : \A j \in DOMAIN pending[r] :
                     ~Rivals(pending[r][j], forward) /\ ~Rivals(forward, pending[r][j])
    BY <1>10, <1>11, <1>13, <2>2 DEF Rivals
  <2> SUFFICES ASSUME NEW r \in DeviceQueues, NEW s \in DeviceQueues,
                      NEW i \in DOMAIN pending'[r], NEW j \in DOMAIN pending'[s],
                      Rivals(pending'[r][i], pending'[s][j])
               PROVE  r = s /\ i = j
    BY DEF OneOfEach, Rivals
  <2>3. CASE i \in DOMAIN pending[r] /\ j \in DOMAIN pending[s]
    BY <1>4, <2>3 DEF SyncInv, OneOfEach
  <2> QED BY <1>7, <2>1, <2>2, <2>3
<1>16. ChainRuns'
  <2> SUFFICES ASSUME NEW r \in DeviceQueues, NEW i \in DOMAIN pending'[r], NEW g \in Frames,
                      NEW l \in 1 .. kMaxSubmittedCommandLists,
                      NEW m \in 1 .. kMaxSubmittedCommandLists,
                      Numbered(pending'[r][i], g, l), l <= m
               PROVE  SubmissionOf(g, m) \notin signalled
    BY <1>2 DEF ChainRuns, Numbered
  <2>1. CASE i \in DOMAIN pending[r] /\ pending'[r][i] = pending[r][i]
    BY <2>1 DEF SyncInv, ChainRuns
  <2>2. CASE pending'[r][i] = op
    BY <1>10, <1>12, <2>2
  <2> QED BY <1>7, <1>11, <2>1, <2>2
<1>17. Consumed'
  <2>1. ASSUME NEW g \in Frames, NEW m \in 1 .. kMaxSubmittedCommandLists, Waited(g, m)
        PROVE  Waited(g, m)'
    <3>1. CASE g = current_frame /\ m = frame.last
      <4>1. n > 1 /\ m = n - 1 /\ g = f
        BY <1>1, <3>1
      <4> QED BY <1>2, <1>4, <1>10, <4>1 DEF Waited
    <3>2. CASE \E r \in DeviceQueues : \E j \in DOMAIN pending[r] : SubmissionOf(g, m) \in pending[r][j].waits
      BY <1>4, <3>2 DEF Waited
    <3> QED BY <2>1, <3>1, <3>2 DEF Waited
  <2>2. Waited(f, n)'
    BY <1>1, <1>2, <1>3 DEF Waited
  <2>3. ASSUME NEW g \in Frames, NEW m \in 1 .. kMaxSubmittedCommandLists,
               NEW r \in DeviceQueues, NEW i \in DOMAIN pending'[r], Numbered(pending'[r][i], g, m)
        PROVE  Waited(g, m)'
    <3>1. CASE i \in DOMAIN pending[r] /\ pending'[r][i] = pending[r][i]
      BY <2>1, <2>3, <3>1 DEF SyncInv, Consumed
    <3>2. CASE pending'[r][i] = op
      BY <1>10, <2>2, <2>3, <3>2
    <3> QED BY <1>7, <1>11, <2>3, <3>1, <3>2
  <2>4. ASSUME NEW g \in Frames, NEW m \in 1 .. kMaxSubmittedCommandLists, SubmissionOf(g, m) \in signalled'
        PROVE  Waited(g, m)'
    BY <1>2, <2>1, <2>4 DEF SyncInv, Consumed
  <2> QED BY <2>3, <2>4 DEF Consumed, Numbered
<1>18. ClosingLast'
  <2> SUFFICES ASSUME NEW g \in Frames, NEW m \in 1 .. kMaxSubmittedCommandLists,
                      NEW r \in DeviceQueues, NEW s \in DeviceQueues,
                      NEW i \in DOMAIN pending'[r], NEW j \in DOMAIN pending'[s],
                      Numbered(pending'[r][i], g, m), Closes(pending'[s][j], g)
               PROVE  \E l \in m .. kMaxSubmittedCommandLists : SubmissionOf(g, l) \in pending'[s][j].waits
    BY DEF ClosingLast, Numbered, Closes
  <2>1. j \in DOMAIN pending[s] /\ pending'[s][j] = pending[s][j]
    BY <1>7, <1>10, <1>11
  <2>2. g # f
    BY <1>9, <2>1
  <2>3. i \in DOMAIN pending[r] /\ pending'[r][i] = pending[r][i]
    BY <1>7, <1>10, <1>11, <2>2
  <2> QED BY <2>1, <2>3 DEF SyncInv, ClosingLast
<1>19. FenceMeansDone'
  <2> SUFFICES ASSUME NEW g \in Frames, FrameFence(g) \in fences',
                      NEW r \in DeviceQueues, NEW i \in DOMAIN pending'[r]
               PROVE  ~Closes(pending'[r][i], g) /\ ~OfFrame(pending'[r][i], g)
    BY DEF FenceMeansDone, Closes, OfFrame
  <2>1. g # f /\ FrameFence(g) \in fences
    BY <1>2, <1>9
  <2>2. CASE i \in DOMAIN pending[r] /\ pending'[r][i] = pending[r][i]
    BY <2>1, <2>2 DEF SyncInv, FenceMeansDone
  <2> QED BY <1>7, <1>10, <1>11, <2>1, <2>2
<1>20. OpenFrame'
  <2>1. FrameFence(f) \notin fences'
    BY <1>2, <1>9
  <2>2. ASSUME NEW r \in DeviceQueues, NEW i \in DOMAIN pending'[r]
        PROVE  /\ ~Closes(pending'[r][i], f)
               /\ \A m \in 1 .. kMaxSubmittedCommandLists : Numbered(pending'[r][i], f, m) => m <= n
    BY <1>7, <1>9, <1>10, <1>11
  <2> QED BY <1>1, <1>2, <2>1, <2>2 DEF OpenFrame, Closes, Numbered
<1>21. UserFenceRuns'
  <2>1. ASSUME UserFence \in fences', NEW r \in DeviceQueues, NEW i \in DOMAIN pending'[r], NEW g \in Frames
        PROVE  ~Forwards(pending'[r][i], g)
    <3>1. ~Asks(op, f) /\ UserFence \in fences
      BY <1>2, <1>4, <2>1
    <3>2. CASE i \in DOMAIN pending[r] /\ pending'[r][i] = pending[r][i]
      BY <3>1, <3>2 DEF SyncInv, UserFenceRuns
    <3> QED BY <1>7, <1>10, <3>1, <3>2
  <2>2. ASSUME NEW g \in Frames, UserFenceOf(g) \in signalled'
        PROVE  \E i \in DOMAIN pending'["compute"] : Forwards(pending'["compute"][i], g)
    <3>1. "compute" \in DeviceQueues
      BY DEF DeviceQueues
    <3>2. PICK j \in DOMAIN pending["compute"] : Forwards(pending["compute"][j], g)
      BY <1>2, <2>2 DEF SyncInv, UserFenceRuns
    <3> QED BY <1>4, <3>1, <3>2
  <2>3. ASSUME NEW g \in Frames, NEW r \in DeviceQueues, NEW i \in DOMAIN pending'[r],
               Asks(pending'[r][i], g)
        PROVE  /\ UserFenceOf(g) \notin signalled
               /\ r = "compute"
               /\ \E l \in DOMAIN pending'["compute"] : i < l /\ Forwards(pending'["compute"][l], g)
    <3>1. CASE i \in DOMAIN pending[r] /\ pending'[r][i] = pending[r][i]
      <4>1. /\ UserFenceOf(g) \notin signalled /\ r = "compute"
            /\ \E l \in DOMAIN pending["compute"] : i < l /\ Forwards(pending["compute"][l], g)
        BY <2>3, <3>1 DEF SyncInv, UserFenceRuns
      <4> QED BY <1>4, <4>1
    <3>2. CASE r = q /\ i = k + 1 /\ pending'[r][i] = op
      <4>1. g = f /\ q = "compute" /\ Asks(op, f)
        BY <1>10, <2>3, <3>2
      <4>2. k + 2 \in DOMAIN pending'[q] /\ Forwards(pending'[q][k + 2], f) /\ k + 1 < k + 2
        BY <1>4, <1>5, <1>6, <1>11, <4>1
      <4> QED BY <1>13, <3>2, <4>1, <4>2
    <3> QED BY <1>7, <1>11, <2>3, <3>1, <3>2
  <2> QED BY <1>2, <2>1, <2>2, <2>3 DEF UserFenceRuns, Forwards, Asks
<1>22. AcquiresRun'
  <2> SUFFICES ASSUME NEW g \in Frames, ImageAvailable(g) \in signalled'
               PROVE  \/ Unfinished' /\ g = current_frame' /\ frame'.acquired /\ ~frame'.consumed
                      \/ \E r \in DeviceQueues : \E i \in DOMAIN pending'[r] :
                           ImageAvailable(g) \in pending'[r][i].waits
    BY DEF AcquiresRun
  <2>1. CASE \E r \in DeviceQueues : \E j \in DOMAIN pending[r] : ImageAvailable(g) \in pending[r][j].waits
    BY <1>4, <2>1
  <2>2. CASE g = current_frame /\ frame.acquired /\ ~frame.consumed
    <3>1. CASE ~frame'.consumed
      BY <1>2, <1>3, <2>2, <3>1
    <3>2. CASE frame'.consumed
      <4>1. ImageAvailable(g) \in op.waits
        BY <1>1, <1>2, <2>2, <3>2
      <4> QED BY <1>2, <1>4, <4>1
    <3> QED BY <3>1, <3>2
  <2> QED BY <1>2, <2>1, <2>2 DEF SyncInv, AcquiresRun
<1>23. ImagesRun'
  <2>0. "present" \in DeviceQueues
    BY DEF DeviceQueues
  <2>1. /\ \A i \in DOMAIN pending["present"] : i \in DOMAIN pending'["present"]
        /\ \A i \in DOMAIN pending'["present"] : i \in DOMAIN pending["present"]
        /\ \A i \in DOMAIN pending["present"] : pending'["present"][i] = pending["present"][i]
    BY <1>2, <1>4, <1>7, <2>0
  <2>2. ASSUME NEW i \in Images, NEW r \in DeviceQueues, NEW l \in DOMAIN pending'[r],
               Renders(pending'[r][l], i)
        PROVE  l \in DOMAIN pending[r] /\ Renders(pending[r][l], i)
    BY <1>7, <1>10, <1>11, <2>2
  <2>3. \A i \in Images : RenderFinished(i) \in signalled' =>
          \E l \in DOMAIN pending'["present"] : Presents(pending'["present"][l], i)
    BY <1>2, <2>1 DEF SyncInv, ImagesRun
  <2>4. \A i \in Images : \A r \in DeviceQueues : \A l \in DOMAIN pending'[r] :
          Renders(pending'[r][l], i) =>
            /\ RenderFinished(i) \notin signalled'
            /\ \E j \in DOMAIN pending'["present"] : Presents(pending'["present"][j], i)
    BY <1>2, <2>1, <2>2 DEF SyncInv, ImagesRun
  <2>5. \A i \in Images : \A l \in DOMAIN pending'["present"] :
          Presents(pending'["present"][l], i) =>
            i \in owned' /\ (Open' /\ frame'.acquired => i # current_image')
    BY <1>2, <1>3, <2>1 DEF SyncInv, ImagesRun
  <2>6. Open' /\ frame'.acquired => current_image' \in owned'
    BY <1>2, <1>3 DEF SyncInv, ImagesRun
  <2> QED BY <2>3, <2>4, <2>5, <2>6 DEF ImagesRun, Renders, Presents
<1> QED BY <1>14, <1>15, <1>16, <1>17, <1>18, <1>19, <1>20, <1>21, <1>22, <1>23 DEF SyncInv

\* The operation op closes the current frame, as the k + 1-st of the graphics queue; the
\* presentation of its image is the p + 1-st.
ClosesFrame(op, k, p) ==
  /\ k \in Nat /\ DOMAIN pending["graphics"] = 1 .. k
  /\ p \in Nat /\ DOMAIN pending["present"] = 1 .. p
  /\ pc = "frame" /\ pc' = "idle" /\ UNCHANGED <<signalled, fences, owned, current_image, chain>>
  /\ ClosingForm("graphics", op, current_frame)
  /\ frame.last # 0 => SubmissionOf(current_frame, frame.last) \in op.waits
  /\ frame.acquired /\ ~frame.consumed => ImageAvailable(current_frame) \in op.waits
  /\ \A i \in Images : Renders(op, i) <=> frame.acquired /\ i = current_image
  /\ \A r \in DeviceQueues : \A i \in DOMAIN pending[r] :
       i \in DOMAIN pending'[r] /\ pending'[r][i] = pending[r][i]
  /\ k + 1 \in DOMAIN pending'["graphics"] /\ pending'["graphics"][k + 1] = op
  /\ frame.acquired =>
       /\ p + 1 \in DOMAIN pending'["present"]
       /\ PresentForm("present", pending'["present"][p + 1], current_image)
  /\ \A r \in DeviceQueues : \A i \in DOMAIN pending'[r] :
       \/ i \in DOMAIN pending[r]
       \/ r = "graphics" /\ i = k + 1
       \/ r = "present" /\ i = p + 1 /\ frame.acquired

\* Closing a frame keeps the invariant.
LEMMA ClosingKeepsSync ==
  ASSUME Types, SyncInv, NEW op, NEW k \in Nat, NEW p \in Nat, ClosesFrame(op, k, p)
  PROVE  SyncInv'
<1>0. "graphics" \in DeviceQueues /\ "present" \in DeviceQueues /\ "compute" \in DeviceQueues
  BY DEF DeviceQueues
<1>1. PICK f \in Frames, image \in Images : f = current_frame /\ image = current_image
  BY DEF Types, TypeOK
<1>2. /\ UNCHANGED <<signalled, fences, owned, current_image, chain>>
      /\ ClosingForm("graphics", op, f)
      /\ frame.last # 0 => SubmissionOf(f, frame.last) \in op.waits
      /\ frame.acquired /\ ~frame.consumed => ImageAvailable(f) \in op.waits
      /\ \A i \in Images : Renders(op, i) <=> frame.acquired /\ i = image
      /\ \A r \in DeviceQueues : \A i \in DOMAIN pending[r] :
           i \in DOMAIN pending'[r] /\ pending'[r][i] = pending[r][i]
      /\ k + 1 \in DOMAIN pending'["graphics"] /\ pending'["graphics"][k + 1] = op
      /\ frame.last \in 0 .. kMaxSubmittedCommandLists
  BY <1>1 DEF ClosesFrame, Types, TypeOK
<1>3. Open /\ ~Open' /\ Unfinished /\ ~Unfinished'
  BY DEF ClosesFrame, Open, Unfinished
<1>4. PICK shown : shown = pending'["present"][p + 1]
  OBVIOUS
<1>5. frame.acquired => PresentForm("present", shown, image) /\ p + 1 \in DOMAIN pending'["present"]
  BY <1>1, <1>4 DEF ClosesFrame
<1>6. \A r \in DeviceQueues : \A i \in DOMAIN pending'[r] :
        \/ i \in DOMAIN pending[r] /\ pending'[r][i] = pending[r][i]
        \/ r = "graphics" /\ i = k + 1 /\ pending'[r][i] = op
        \/ r = "present" /\ i = p + 1 /\ pending'[r][i] = shown
           /\ PresentForm("present", shown, image) /\ frame.acquired
  BY <1>2, <1>4, <1>5 DEF ClosesFrame
<1>7. \A r \in DeviceQueues : \A j \in DOMAIN pending[r] : Legal(r, pending[r][j])
  BY DEF SyncInv, OperationsLegal
<1>8. /\ FrameFence(f) \notin fences
      /\ \A r \in DeviceQueues : \A j \in DOMAIN pending[r] :
           /\ ~Closes(pending[r][j], f)
           /\ \A m \in 1 .. kMaxSubmittedCommandLists : Numbered(pending[r][j], f, m) => m <= frame.last
  BY <1>1, <1>3 DEF SyncInv, OpenFrame
<1>9. /\ \A g, m : ~Numbered(op, g, m)
      /\ \A g : Closes(op, g) <=> g = f
      /\ \A g : ~OfFrame(op, g) /\ ~Asks(op, g) /\ ~Forwards(op, g)
      /\ \A i : ~Presents(op, i)
  BY <1>0, <1>2, ClosingFacts
<1>10. PresentForm("present", shown, image) =>
         /\ \A g, m : ~Numbered(shown, g, m)
         /\ \A g : ~OfFrame(shown, g) /\ ~Closes(shown, g) /\ ~Forwards(shown, g) /\ ~Asks(shown, g)
         /\ \A i : Presents(shown, i) <=> i = image
         /\ \A i : ~Renders(shown, i)
  BY <1>0, PresentFacts DEF Numbered, Asks, Renders
\* The current image is neither drawn to nor presented.
<1>11. ASSUME frame.acquired
       PROVE  /\ image \in owned /\ RenderFinished(image) \notin signalled
              /\ \A r \in DeviceQueues : \A j \in DOMAIN pending[r] :
                   ~Presents(pending[r][j], image) /\ ~Renders(pending[r][j], image)
  <2>1. \A j \in DOMAIN pending["present"] : ~Presents(pending["present"][j], image)
    BY <1>1, <1>3, <1>11 DEF SyncInv, ImagesRun
  <2>2. image \in owned
    BY <1>1, <1>3, <1>11 DEF SyncInv, ImagesRun
  <2>3. RenderFinished(image) \notin signalled
    BY <2>1 DEF SyncInv, ImagesRun
  <2>4. \A r \in DeviceQueues : \A j \in DOMAIN pending[r] : ~Renders(pending[r][j], image)
    BY <2>1 DEF SyncInv, ImagesRun
  <2>5. ASSUME NEW r \in DeviceQueues, NEW j \in DOMAIN pending[r], Presents(pending[r][j], image)
        PROVE  FALSE
    <3>1. PICK o : o = pending[r][j]
      OBVIOUS
    <3>2. PresentForm(r, o, image)
      BY <1>7, <2>5, <3>1, Recognised
    <3>3. r = "present"
      BY <3>2 DEF PresentForm
    <3> QED BY <2>1, <2>5, <3>3
  <2> QED BY <2>2, <2>3, <2>4, <2>5
<1>12. OperationsLegal'
  <2> SUFFICES ASSUME NEW r \in DeviceQueues, NEW i \in DOMAIN pending'[r]
               PROVE  Legal(r, pending[r][i])'
    BY DEF OperationsLegal
  <2>1. PICK o : o = pending'[r][i]
    OBVIOUS
  <2>2. Legal("graphics", op) /\ (PresentForm("present", shown, image) => Legal("present", shown))
    BY <1>2 DEF Legal
  <2>3. Legal(r, o)
    BY <1>6, <1>7, <2>1, <2>2
  <2>4. Legal(r, o)'
    BY <1>2, <2>3, LegalStays
  <2> QED BY <2>1, <2>4
<1>13. OneOfEach'
  <2>1. ASSUME NEW r \in DeviceQueues, NEW j \in DOMAIN pending[r]
        PROVE  ~Rivals(pending[r][j], op) /\ ~Rivals(op, pending[r][j])
    <3>1. PICK o : o = pending[r][j]
      OBVIOUS
    <3>2. ~Closes(o, f) /\ (frame.acquired => ~Renders(o, image))
      BY <1>8, <1>11, <3>1
    <3> QED BY <1>2, <1>9, <3>1, <3>2 DEF Rivals
  <2>2. ASSUME PresentForm("present", shown, image), frame.acquired
        PROVE  /\ ~Rivals(shown, op) /\ ~Rivals(op, shown)
               /\ \A r \in DeviceQueues : \A j \in DOMAIN pending[r] :
                     ~Rivals(pending[r][j], shown) /\ ~Rivals(shown, pending[r][j])
    BY <1>9, <1>10, <1>11, <2>2 DEF Rivals
  <2> SUFFICES ASSUME NEW r \in DeviceQueues, NEW s \in DeviceQueues,
                      NEW i \in DOMAIN pending'[r], NEW j \in DOMAIN pending'[s],
                      Rivals(pending'[r][i], pending'[s][j])
               PROVE  r = s /\ i = j
    BY DEF OneOfEach, Rivals
  <2>3. CASE i \in DOMAIN pending[r] /\ j \in DOMAIN pending[s]
    BY <1>2, <2>3 DEF SyncInv, OneOfEach
  <2> QED BY <1>6, <2>1, <2>2, <2>3
<1>14. ChainRuns'
  <2> SUFFICES ASSUME NEW r \in DeviceQueues, NEW i \in DOMAIN pending'[r], NEW g \in Frames,
                      NEW l \in 1 .. kMaxSubmittedCommandLists,
                      NEW m \in 1 .. kMaxSubmittedCommandLists,
                      Numbered(pending'[r][i], g, l), l <= m
               PROVE  SubmissionOf(g, m) \notin signalled
    BY <1>2 DEF ChainRuns, Numbered
  <2>1. i \in DOMAIN pending[r] /\ pending'[r][i] = pending[r][i]
    BY <1>6, <1>9, <1>10
  <2> QED BY <2>1 DEF SyncInv, ChainRuns
<1>15. Consumed'
  <2>1. ASSUME NEW g \in Frames, NEW m \in 1 .. kMaxSubmittedCommandLists, Waited(g, m)
        PROVE  Waited(g, m)'
    <3>1. CASE g = current_frame /\ m = frame.last
      BY <1>0, <1>1, <1>2, <3>1 DEF Waited
    <3>2. CASE \E r \in DeviceQueues : \E j \in DOMAIN pending[r] : SubmissionOf(g, m) \in pending[r][j].waits
      BY <1>2, <3>2 DEF Waited
    <3> QED BY <2>1, <3>1, <3>2 DEF Waited
  <2>2. ASSUME NEW g \in Frames, NEW m \in 1 .. kMaxSubmittedCommandLists,
               NEW r \in DeviceQueues, NEW i \in DOMAIN pending'[r], Numbered(pending'[r][i], g, m)
        PROVE  Waited(g, m)'
    <3>1. i \in DOMAIN pending[r] /\ pending'[r][i] = pending[r][i]
      BY <1>6, <1>9, <1>10, <2>2
    <3> QED BY <2>1, <2>2, <3>1 DEF SyncInv, Consumed
  <2>3. ASSUME NEW g \in Frames, NEW m \in 1 .. kMaxSubmittedCommandLists, SubmissionOf(g, m) \in signalled'
        PROVE  Waited(g, m)'
    BY <1>2, <2>1, <2>3 DEF SyncInv, Consumed
  <2> QED BY <2>2, <2>3 DEF Consumed, Numbered
<1>16. ClosingLast'
  <2> SUFFICES ASSUME NEW g \in Frames, NEW m \in 1 .. kMaxSubmittedCommandLists,
                      NEW r \in DeviceQueues, NEW s \in DeviceQueues,
                      NEW i \in DOMAIN pending'[r], NEW j \in DOMAIN pending'[s],
                      Numbered(pending'[r][i], g, m), Closes(pending'[s][j], g)
               PROVE  \E l \in m .. kMaxSubmittedCommandLists : SubmissionOf(g, l) \in pending'[s][j].waits
    BY DEF ClosingLast, Numbered, Closes
  <2>1. i \in DOMAIN pending[r] /\ pending'[r][i] = pending[r][i]
    BY <1>6, <1>9, <1>10
  <2>2. CASE j \in DOMAIN pending[s] /\ pending'[s][j] = pending[s][j]
    BY <2>1, <2>2 DEF SyncInv, ClosingLast
  <2>3. CASE pending'[s][j] = op
    <3>1. g = f /\ m <= frame.last
      BY <1>8, <1>9, <2>1, <2>3
    <3>2. frame.last \in m .. kMaxSubmittedCommandLists /\ frame.last # 0
      BY <1>2, <3>1
    <3> QED BY <1>2, <2>3, <3>1, <3>2
  <2> QED BY <1>6, <1>10, <2>2, <2>3
<1>17. FenceMeansDone'
  <2> SUFFICES ASSUME NEW g \in Frames, FrameFence(g) \in fences',
                      NEW r \in DeviceQueues, NEW i \in DOMAIN pending'[r]
               PROVE  ~Closes(pending'[r][i], g) /\ ~OfFrame(pending'[r][i], g)
    BY DEF FenceMeansDone, Closes, OfFrame
  <2>1. g # f /\ FrameFence(g) \in fences
    BY <1>2, <1>8
  <2>2. CASE i \in DOMAIN pending[r] /\ pending'[r][i] = pending[r][i]
    BY <2>1, <2>2 DEF SyncInv, FenceMeansDone
  <2> QED BY <1>6, <1>9, <1>10, <2>1, <2>2
<1>18. OpenFrame'
  BY <1>3 DEF OpenFrame
<1>19. UserFenceRuns'
  <2>1. ASSUME NEW r \in DeviceQueues, NEW i \in DOMAIN pending'[r], NEW g \in Frames,
               Forwards(pending'[r][i], g) \/ Asks(pending'[r][i], g)
        PROVE  i \in DOMAIN pending[r] /\ pending'[r][i] = pending[r][i]
    BY <1>6, <1>9, <1>10, <2>1
  <2>2. \A g \in Frames : \A j \in DOMAIN pending["compute"] :
          Forwards(pending["compute"][j], g) =>
            j \in DOMAIN pending'["compute"] /\ Forwards(pending'["compute"][j], g)
    BY <1>0, <1>2
  <2>3. ASSUME UserFence \in fences', NEW r \in DeviceQueues, NEW i \in DOMAIN pending'[r], NEW g \in Frames
        PROVE  ~Forwards(pending'[r][i], g)
    BY <1>2, <2>1, <2>3 DEF SyncInv, UserFenceRuns
  <2>4. ASSUME NEW g \in Frames, UserFenceOf(g) \in signalled'
        PROVE  \E i \in DOMAIN pending'["compute"] : Forwards(pending'["compute"][i], g)
    BY <1>2, <2>2, <2>4 DEF SyncInv, UserFenceRuns
  <2>5. ASSUME NEW g \in Frames, NEW r \in DeviceQueues, NEW i \in DOMAIN pending'[r],
               Asks(pending'[r][i], g)
        PROVE  /\ UserFenceOf(g) \notin signalled'
               /\ r = "compute"
               /\ \E l \in DOMAIN pending'["compute"] : i < l /\ Forwards(pending'["compute"][l], g)
    <3>1. i \in DOMAIN pending[r] /\ Asks(pending[r][i], g)
      BY <2>1, <2>5
    <3>2. /\ UserFenceOf(g) \notin signalled /\ r = "compute"
          /\ \E l \in DOMAIN pending["compute"] : i < l /\ Forwards(pending["compute"][l], g)
      BY <3>1 DEF SyncInv, UserFenceRuns
    <3> QED BY <1>2, <2>2, <3>2
  <2> QED BY <2>3, <2>4, <2>5 DEF UserFenceRuns, Forwards, Asks
<1>20. AcquiresRun'
  <2> SUFFICES ASSUME NEW g \in Frames, ImageAvailable(g) \in signalled'
               PROVE  \E r \in DeviceQueues : \E i \in DOMAIN pending'[r] :
                           ImageAvailable(g) \in pending'[r][i].waits
    BY DEF AcquiresRun
  <2>1. CASE \E r \in DeviceQueues : \E j \in DOMAIN pending[r] : ImageAvailable(g) \in pending[r][j].waits
    BY <1>2, <2>1
  <2>2. CASE g = current_frame /\ frame.acquired /\ ~frame.consumed
    BY <1>0, <1>1, <1>2, <2>2
  <2> QED BY <1>2, <2>1, <2>2 DEF SyncInv, AcquiresRun
<1>21. ImagesRun'
  <2>1. \A i \in Images : (\E j \in DOMAIN pending["present"] : Presents(pending["present"][j], i)) =>
          \E j \in DOMAIN pending'["present"] : Presents(pending'["present"][j], i)
    BY <1>0, <1>2
  <2>2. \A i \in Images : RenderFinished(i) \in signalled' =>
          \E l \in DOMAIN pending'["present"] : Presents(pending'["present"][l], i)
    BY <1>2, <2>1 DEF SyncInv, ImagesRun
  <2>3. ASSUME NEW i \in Images, NEW r \in DeviceQueues, NEW l \in DOMAIN pending'[r],
               Renders(pending'[r][l], i)
        PROVE  /\ RenderFinished(i) \notin signalled'
               /\ \E j \in DOMAIN pending'["present"] : Presents(pending'["present"][j], i)
    <3>1. CASE l \in DOMAIN pending[r] /\ pending'[r][l] = pending[r][l]
      BY <1>2, <2>1, <2>3, <3>1 DEF SyncInv, ImagesRun
    <3>2. CASE pending'[r][l] = op
      <4>1. i = image /\ frame.acquired
        BY <1>2, <2>3, <3>2
      <4>2. p + 1 \in DOMAIN pending'["present"] /\ Presents(pending'["present"][p + 1], image)
        BY <1>4, <1>5, <1>10, <4>1
      <4> QED BY <1>2, <1>11, <4>1, <4>2
    <3> QED BY <1>6, <1>10, <2>3, <3>1, <3>2
  <2>4. ASSUME NEW i \in Images, NEW l \in DOMAIN pending'["present"], Presents(pending'["present"][l], i)
        PROVE  i \in owned'
    <3>1. CASE l \in DOMAIN pending["present"] /\ pending'["present"][l] = pending["present"][l]
      BY <1>2, <2>4, <3>1 DEF SyncInv, ImagesRun
    <3>2. CASE pending'["present"][l] = shown /\ PresentForm("present", shown, image) /\ frame.acquired
      BY <1>2, <1>10, <1>11, <2>4, <3>2
    <3> QED BY <1>0, <1>6, <3>1, <3>2
  <2> QED BY <1>3, <2>2, <2>3, <2>4 DEF ImagesRun, Renders, Presents
<1> QED BY <1>12, <1>13, <1>14, <1>15, <1>16, <1>17, <1>18, <1>19, <1>20, <1>21 DEF SyncInv

\* An upload is submitted, as the k + 1-st operation of the graphics queue.
UploadBegins(op, k) ==
  /\ k \in Nat /\ DOMAIN pending["graphics"] = 1 .. k
  /\ UNCHANGED <<signalled, fences, owned, current_image, chain, current_frame, frame>>
  /\ (Open' <=> Open) /\ (Unfinished' <=> Unfinished)
  /\ UploadForm("graphics", op)
  /\ \A r \in DeviceQueues : \A i \in DOMAIN pending[r] :
       i \in DOMAIN pending'[r] /\ pending'[r][i] = pending[r][i]
  /\ k + 1 \in DOMAIN pending'["graphics"] /\ pending'["graphics"][k + 1] = op
  /\ \A r \in DeviceQueues : \A i \in DOMAIN pending'[r] :
       i \in DOMAIN pending[r] \/ (r = "graphics" /\ i = k + 1)

\* An upload keeps the invariant.
LEMMA UploadKeepsSync ==
  ASSUME Types, SyncInv, NEW op, NEW k \in Nat, UploadBegins(op, k)
  PROVE  SyncInv'
<1>0. "graphics" \in DeviceQueues /\ "present" \in DeviceQueues /\ "compute" \in DeviceQueues
  BY DEF DeviceQueues
<1>1. /\ UNCHANGED <<signalled, fences, owned, current_image, chain, current_frame, frame>>
      /\ (Open' <=> Open) /\ (Unfinished' <=> Unfinished)
      /\ UploadForm("graphics", op)
      /\ \A r \in DeviceQueues : \A i \in DOMAIN pending[r] :
           i \in DOMAIN pending'[r] /\ pending'[r][i] = pending[r][i]
  BY DEF UploadBegins
<1>2. \A r \in DeviceQueues : \A i \in DOMAIN pending'[r] :
        \/ i \in DOMAIN pending[r] /\ pending'[r][i] = pending[r][i]
        \/ r = "graphics" /\ pending'[r][i] = op
  BY <1>1 DEF UploadBegins
<1>3. /\ \A g, m : ~Numbered(op, g, m)
      /\ \A g : ~Closes(op, g) /\ ~OfFrame(op, g) /\ ~Asks(op, g) /\ ~Forwards(op, g)
      /\ \A i : ~Renders(op, i) /\ ~Presents(op, i)
  BY <1>0, <1>1, UploadFacts DEF Numbered, Asks, Forwards, Renders, Presents
<1>4. OperationsLegal'
  <2> SUFFICES ASSUME NEW r \in DeviceQueues, NEW i \in DOMAIN pending'[r]
               PROVE  Legal(r, pending[r][i])'
    BY DEF OperationsLegal
  <2>1. PICK o : o = pending'[r][i]
    OBVIOUS
  <2>2. Legal("graphics", op)
    BY <1>1 DEF Legal
  <2>3. Legal(r, o)
    BY <1>2, <2>1, <2>2 DEF SyncInv, OperationsLegal
  <2>4. Legal(r, o)'
    BY <1>1, <2>3, LegalStays
  <2> QED BY <2>1, <2>4
<1>5. OneOfEach'
  <2>1. \A o : ~Rivals(o, op) /\ ~Rivals(op, o)
    BY <1>3 DEF Rivals
  <2> SUFFICES ASSUME NEW r \in DeviceQueues, NEW s \in DeviceQueues,
                      NEW i \in DOMAIN pending'[r], NEW j \in DOMAIN pending'[s],
                      Rivals(pending'[r][i], pending'[s][j])
               PROVE  r = s /\ i = j
    BY DEF OneOfEach, Rivals
  <2>2. i \in DOMAIN pending[r] /\ pending'[r][i] = pending[r][i]
        /\ j \in DOMAIN pending[s] /\ pending'[s][j] = pending[s][j]
    BY <1>2, <2>1
  <2> QED BY <2>2 DEF SyncInv, OneOfEach
<1>6. ChainRuns'
  BY <1>1, <1>2, <1>3 DEF SyncInv, ChainRuns, Numbered
<1>7. Consumed'
  <2>1. ASSUME NEW g \in Frames, NEW m \in 1 .. kMaxSubmittedCommandLists, Waited(g, m)
        PROVE  Waited(g, m)'
    BY <1>1, <2>1 DEF Waited
  <2>2. ASSUME NEW g \in Frames, NEW m \in 1 .. kMaxSubmittedCommandLists,
               NEW r \in DeviceQueues, NEW i \in DOMAIN pending'[r], Numbered(pending'[r][i], g, m)
        PROVE  Waited(g, m)'
    BY <1>2, <1>3, <2>1, <2>2 DEF SyncInv, Consumed
  <2>3. ASSUME NEW g \in Frames, NEW m \in 1 .. kMaxSubmittedCommandLists, SubmissionOf(g, m) \in signalled'
        PROVE  Waited(g, m)'
    BY <1>1, <2>1, <2>3 DEF SyncInv, Consumed
  <2> QED BY <2>2, <2>3 DEF Consumed, Numbered
<1>8. ClosingLast'
  <2> SUFFICES ASSUME NEW g \in Frames, NEW m \in 1 .. kMaxSubmittedCommandLists,
                      NEW r \in DeviceQueues, NEW s \in DeviceQueues,
                      NEW i \in DOMAIN pending'[r], NEW j \in DOMAIN pending'[s],
                      Numbered(pending'[r][i], g, m), Closes(pending'[s][j], g)
               PROVE  \E l \in m .. kMaxSubmittedCommandLists : SubmissionOf(g, l) \in pending'[s][j].waits
    BY DEF ClosingLast, Numbered, Closes
  <2>1. /\ i \in DOMAIN pending[r] /\ pending'[r][i] = pending[r][i]
        /\ j \in DOMAIN pending[s] /\ pending'[s][j] = pending[s][j]
    BY <1>2, <1>3
  <2> QED BY <2>1 DEF SyncInv, ClosingLast
<1>9. FenceMeansDone'
  BY <1>1, <1>2, <1>3 DEF SyncInv, FenceMeansDone, Closes, OfFrame
<1>10. OpenFrame'
  BY <1>1, <1>2, <1>3 DEF SyncInv, OpenFrame, Closes, Numbered
<1>11. UserFenceRuns'
  <2>1. ASSUME NEW r \in DeviceQueues, NEW i \in DOMAIN pending'[r], NEW g \in Frames,
               Forwards(pending'[r][i], g) \/ Asks(pending'[r][i], g)
        PROVE  i \in DOMAIN pending[r] /\ pending'[r][i] = pending[r][i]
    BY <1>2, <1>3, <2>1
  <2>2. \A g \in Frames : \A j \in DOMAIN pending["compute"] :
          Forwards(pending["compute"][j], g) =>
            j \in DOMAIN pending'["compute"] /\ Forwards(pending'["compute"][j], g)
    BY <1>0, <1>1
  <2>3. ASSUME UserFence \in fences', NEW r \in DeviceQueues, NEW i \in DOMAIN pending'[r], NEW g \in Frames
        PROVE  ~Forwards(pending'[r][i], g)
    BY <1>1, <2>1, <2>3 DEF SyncInv, UserFenceRuns
  <2>4. ASSUME NEW g \in Frames, UserFenceOf(g) \in signalled'
        PROVE  \E i \in DOMAIN pending'["compute"] : Forwards(pending'["compute"][i], g)
    BY <1>1, <2>2, <2>4 DEF SyncInv, UserFenceRuns
  <2>5. ASSUME NEW g \in Frames, NEW r \in DeviceQueues, NEW i \in DOMAIN pending'[r],
               Asks(pending'[r][i], g)
        PROVE  /\ UserFenceOf(g) \notin signalled'
               /\ r = "compute"
               /\ \E l \in DOMAIN pending'["compute"] : i < l /\ Forwards(pending'["compute"][l], g)
    <3>1. i \in DOMAIN pending[r] /\ Asks(pending[r][i], g)
      BY <2>1, <2>5
    <3>2. /\ UserFenceOf(g) \notin signalled /\ r = "compute"
          /\ \E l \in DOMAIN pending["compute"] : i < l /\ Forwards(pending["compute"][l], g)
      BY <3>1 DEF SyncInv, UserFenceRuns
    <3> QED BY <1>1, <2>2, <3>2
  <2> QED BY <2>3, <2>4, <2>5 DEF UserFenceRuns, Forwards, Asks
<1>12. AcquiresRun'
  BY <1>1 DEF SyncInv, AcquiresRun
<1>13. ImagesRun'
  <2>1. \A i \in Images : (\E j \in DOMAIN pending["present"] : Presents(pending["present"][j], i)) =>
          \E j \in DOMAIN pending'["present"] : Presents(pending'["present"][j], i)
    BY <1>0, <1>1
  <2>2. \A i \in Images : RenderFinished(i) \in signalled' =>
          \E l \in DOMAIN pending'["present"] : Presents(pending'["present"][l], i)
    BY <1>1, <2>1 DEF SyncInv, ImagesRun
  <2>3. ASSUME NEW i \in Images, NEW r \in DeviceQueues, NEW l \in DOMAIN pending'[r],
               Renders(pending'[r][l], i)
        PROVE  /\ RenderFinished(i) \notin signalled'
               /\ \E j \in DOMAIN pending'["present"] : Presents(pending'["present"][j], i)
    BY <1>1, <1>2, <1>3, <2>1, <2>3 DEF SyncInv, ImagesRun
  <2>4. ASSUME NEW i \in Images, NEW l \in DOMAIN pending'["present"], Presents(pending'["present"][l], i)
        PROVE  i \in owned' /\ (Open' /\ frame'.acquired => i # current_image')
    BY <1>0, <1>1, <1>2, <2>4 DEF SyncInv, ImagesRun
  <2>5. Open' /\ frame'.acquired => current_image' \in owned'
    BY <1>1 DEF SyncInv, ImagesRun
  <2> QED BY <2>2, <2>3, <2>4, <2>5 DEF ImagesRun, Renders, Presents
<1> QED BY <1>4, <1>5, <1>6, <1>7, <1>8, <1>9, <1>10, <1>11, <1>12, <1>13 DEF SyncInv

-----------------------------------------------------------------------------
(* The actions of the client, as the steps above.                          *)

\* The places of a sequence to which one more element is appended.
LEMMA AppendPlaces ==
  ASSUME NEW T, NEW s \in Seq(T), NEW x \in T
  PROVE  \E k \in Nat :
           /\ DOMAIN s = 1 .. k /\ DOMAIN Append(s, x) = 1 .. k + 1
           /\ \A i \in 1 .. k : Append(s, x)[i] = s[i]
           /\ Append(s, x)[k + 1] = x
           /\ Append(s, x) \in Seq(T)
<1>1. /\ Append(s, x) \in Seq(T) /\ Len(Append(s, x)) = Len(s) + 1
      /\ \A i \in 1 .. Len(s) : Append(s, x)[i] = s[i]
      /\ Append(s, x)[Len(s) + 1] = x
  BY AppendProperties
<1>2. Len(s) \in Nat /\ DOMAIN s = 1 .. Len(s) /\ DOMAIN Append(s, x) = 1 .. Len(s) + 1
  BY <1>1, LenProperties
<1> QED BY <1>1, <1>2

\* The same for the operations of a queue.
LEMMA OperationAppended ==
  ASSUME NEW s \in Seq(Operations), NEW op \in Operations
  PROVE  \E k \in Nat :
           /\ DOMAIN s = 1 .. k
           /\ DOMAIN Append(s, op) = 1 .. k + 1
           /\ \A i \in 1 .. k : Append(s, op)[i] = s[i]
           /\ Append(s, op)[k + 1] = op
<1>1. PICK k \in Nat : /\ DOMAIN s = 1 .. k /\ DOMAIN Append(s, op) = 1 .. k + 1
                       /\ \A i \in 1 .. k : Append(s, op)[i] = s[i]
                       /\ Append(s, op)[k + 1] = op
                       /\ Append(s, op) \in Seq(Operations)
  BY AppendPlaces
<1> QED BY <1>1

\* What a submission of the context or of the renderer uses.
Fitting(queue, uses) ==
  /\ uses.image # NoImage => uses.image[1] = chain
  /\ uses.handles # {} => queue = "graphics"
  /\ NullHandle \notin uses.handles
  /\ uses.slot # NoSlot => queue = "graphics" /\ uses.slot[1] \in uses.handles

\* SubmitCommandLists drops the list if no semaphore of the frame is left, and otherwise submits it.
LEMMA SubmitForms ==
  ASSUME Types, Phases, NEW queue \in ListQueues, NEW uses \in Uses, NEW signals, NEW after,
         Fitting(queue, uses), SubmitList(queue, uses, signals, after),
         pc = "frame", UNCHANGED <<pc, resume, current_frame, signalled, owned, current_image, chain>>,
         \/ signals = {} /\ after = <<>> /\ fences' = fences
         \/ /\ queue = "compute" /\ signals = {UserFenceOf(current_frame)} /\ UserFence \in fences
            /\ after = << Operation({UserFenceOf(current_frame)}, {}, UserFence, Nothing) >>
            /\ fences' = IF frame.count >= kMaxSubmittedCommandLists THEN fences
                         ELSE fences \ {UserFence}
  PROVE  \/ UNCHANGED <<pending, frame, fences>>
         \/ \E op : \E k \in Nat :
              /\ Submits(queue, op, k)
              /\ op.uses = [uses EXCEPT !.list = <<current_frame, queue>>]
<1>1. CASE frame.count >= kMaxSubmittedCommandLists
  BY <1>1 DEF SubmitList
<1>2. CASE ~(frame.count >= kMaxSubmittedCommandLists)
  <2>1. PICK f \in Frames, n \in 1 .. kMaxSubmittedCommandLists : f = current_frame /\ n = frame.count + 1
    <3>1. frame.count \in 0 .. kMaxSubmittedCommandLists /\ current_frame \in Frames
      BY DEF Types, TypeOK
    <3>2. frame.count + 1 \in 1 .. kMaxSubmittedCommandLists
      BY <1>2, <3>1, ConstantFacts
    <3> QED BY <3>1, <3>2
  <2>2. frame.last = n - 1 /\ n \in Nat /\ frame.last + 1 = n
    <3>1. frame.last = frame.count /\ frame.count \in Nat
      BY DEF Phases, Types, TypeOK
    <3> QED BY <2>1, <3>1
  <2>3. PICK image : image = IF queue = "graphics" THEN ImageWait ELSE {}
    OBVIOUS
  <2>4. image = {} \/ image = {ImageAvailable(f)}
    BY <2>1, <2>3 DEF ImageWait
  <2>5. PICK waits, all, used :
          /\ waits = ChainWait \cup image /\ all = {SubmissionOf(f, n)} \cup signals
          /\ used = [uses EXCEPT !.list = <<f, queue>>]
    OBVIOUS
  <2>6. PICK op : op = [waits |-> waits, signals |-> all, fence |-> NoFence, uses |-> used]
    OBVIOUS
  <2>7. op.waits = waits /\ op.signals = all /\ op.fence = NoFence /\ op.uses = used
    BY <2>6
  <2>8. /\ pending' = [pending EXCEPT ![queue] = Append(pending[queue], op) \o after]
        /\ frame' = [frame EXCEPT !.count = n, !.last = n, !.consumed = frame.consumed \/ image # {}]
    BY <1>2, <2>1, <2>3, <2>5, <2>6 DEF SubmitList, Operation, Submission, SubmissionOf
  <2>9. ChainWait = Chain(f, n)
    BY <2>1, <2>2 DEF ChainWait, Chain, Submission, SubmissionOf
  <2>10. used.list = <<f, queue>> /\ used.handles = uses.handles /\ used.slot = uses.slot
         /\ used.image = uses.image /\ used \in Uses
    BY <2>5 DEF Uses
  <2>11. SubmissionForm(queue, op, f, n)
    <3>1. \/ op.signals = {SubmissionOf(f, n)}
          \/ queue = "compute" /\ op.signals = {SubmissionOf(f, n), UserFenceOf(f)}
      BY <2>1, <2>5, <2>7
    <3>2. op.waits = Chain(f, n) \/ op.waits = Chain(f, n) \cup {ImageAvailable(f)}
      BY <2>4, <2>5, <2>7, <2>9
    <3> QED BY <2>7, <2>10, <3>1, <3>2 DEF SubmissionForm, Fitting
  <2>12. queue \in DeviceQueues /\ pending \in [DeviceQueues -> Seq(Operations)] /\ frame \in FrameTypes
    BY DEF ListQueues, DeviceQueues, Types, TypeOK, FrameTypes
  <2>13. op \in Operations
    <3>1. signals \subseteq Semaphores
      BY <2>1, SemaphoreTypes, ConstantFacts
    <3>2. all \subseteq Semaphores /\ waits \subseteq Semaphores
      <4>1. \A m \in Nat : SubmissionOf(f, m) \in Semaphores
        BY DEF Semaphores, SubmissionOf
      <4>2. ImageAvailable(f) \in Semaphores
        BY DEF Semaphores, ImageAvailable
      <4>3. n - 1 \in Nat
        BY <2>2
      <4> QED BY <2>2, <2>4, <2>5, <2>9, <3>1, <4>1, <4>2, <4>3 DEF Chain
    <3> QED BY <2>6, <2>10, <3>2 DEF Operations, FenceIds
  <2>14. PICK k \in Nat :
           /\ DOMAIN pending[queue] = 1 .. k /\ DOMAIN Append(pending[queue], op) = 1 .. k + 1
           /\ \A i \in 1 .. k : Append(pending[queue], op)[i] = pending[queue][i]
           /\ Append(pending[queue], op)[k + 1] = op
           /\ Append(pending[queue], op) \in Seq(Operations)
    BY <2>12, <2>13, AppendPlaces
  <2>15. PICK longer : longer = Append(pending[queue], op)
    OBVIOUS
  <2>16. pending'[queue] = longer \o after /\ \A r \in DeviceQueues : r # queue => pending'[r] = pending[r]
    BY <2>8, <2>12, <2>15
  <2>17. frame'.last = n /\ frame'.acquired = frame.acquired
         /\ (frame'.consumed => frame.consumed \/ ImageAvailable(f) \in op.waits)
    <3>1. frame'.consumed => frame.consumed \/ image # {}
      BY <2>8, <2>12 DEF FrameTypes
    <3> QED BY <2>4, <2>5, <2>7, <2>8, <2>12, <3>1 DEF FrameTypes
  <2>18. Asks(op, f) <=> signals # {}
    BY <2>1, <2>5, <2>7, SemaphoresDiffer DEF Asks
  <2>19. /\ frame.last + 1 \in 1 .. kMaxSubmittedCommandLists
         /\ SubmissionForm(queue, op, current_frame, frame.last + 1)
         /\ frame'.last = frame.last + 1 /\ frame'.acquired = frame.acquired
         /\ frame'.consumed => frame.consumed \/ ImageAvailable(current_frame) \in op.waits
    BY <2>1, <2>2, <2>11, <2>17
  <2>20. op.uses = [uses EXCEPT !.list = <<current_frame, queue>>]
    BY <2>1, <2>5, <2>7
  <2>21. queue \in ListQueues /\ k \in Nat /\ DOMAIN pending[queue] = 1 .. k
    BY <2>14
  <2>22. CASE signals = {} /\ after = <<>> /\ fences' = fences
    <3>1. pending'[queue] = longer
      BY <2>14, <2>15, <2>16, <2>22, ConcatEmptySeq
    <3>2. \A r \in DeviceQueues : \A i \in DOMAIN pending[r] :
            i \in DOMAIN pending'[r] /\ pending'[r][i] = pending[r][i]
      <4>1. \A i \in 1 .. k : i \in 1 .. k + 1
        OBVIOUS
      <4> QED BY <2>14, <2>15, <2>16, <3>1, <4>1
    <3>3. k + 1 \in DOMAIN pending'[queue] /\ pending'[queue][k + 1] = op
      BY <2>14, <2>15, <3>1
    <3>4. \A r \in DeviceQueues : \A i \in DOMAIN pending'[r] :
            \/ i \in DOMAIN pending[r]
            \/ r = queue /\ i = k + 1
      <4>1. \A i \in 1 .. k + 1 : i \in 1 .. k \/ i = k + 1
        OBVIOUS
      <4> QED BY <2>14, <2>15, <2>16, <3>1, <4>1
    <3>5. ~Asks(op, current_frame) /\ fences' \subseteq fences
      BY <2>1, <2>18, <2>22
    <3>6. Submits(queue, op, k)
      BY <2>19, <2>21, <3>2, <3>3, <3>4, <3>5 DEF Submits
    <3> QED BY <2>20, <3>6
  <2>23. CASE /\ queue = "compute" /\ signals = {UserFenceOf(current_frame)} /\ UserFence \in fences
              /\ after = << Operation({UserFenceOf(current_frame)}, {}, UserFence, Nothing) >>
              /\ fences' = IF frame.count >= kMaxSubmittedCommandLists THEN fences
                           ELSE fences \ {UserFence}
    <3>1. PICK forward : forward = Operation({UserFenceOf(f)}, {}, UserFence, Nothing)
      OBVIOUS
    <3>2. ForwardForm(queue, forward, f)
      BY <2>23, <3>1 DEF ForwardForm, Operation
    <3>3. forward \in Operations /\ after = <<forward>> /\ after \in Seq(Operations)
          /\ Len(after) = 1 /\ after[1] = forward
      <4>1. UserFenceOf(f) \in Semaphores /\ UserFence \in FenceIds
        BY DEF Semaphores, UserFenceOf, FenceIds
      <4>2. forward \in Operations
        BY <3>1, <4>1, NothingTypes
      <4>3. after = <<forward>>
        BY <2>1, <2>23, <3>1
      <4> QED BY <4>2, <4>3
    <3>4. /\ DOMAIN pending'[queue] = 1 .. k + 2
          /\ \A i \in 1 .. k + 1 : pending'[queue][i] = longer[i]
          /\ pending'[queue][k + 2] = forward
      <4>1. longer \in Seq(Operations) /\ Len(longer) = k + 1
        BY <2>14, <2>15, LenProperties
      <4>2. /\ longer \o after \in Seq(Operations)
            /\ Len(longer \o after) = Len(longer) + Len(after)
            /\ \A i \in 1 .. Len(longer) + Len(after) : (longer \o after)[i] =
                 IF i <= Len(longer) THEN longer[i] ELSE after[i - Len(longer)]
        BY <3>3, <4>1, ConcatProperties
      <4>3. Len(longer) + Len(after) = k + 2
        BY <3>3, <4>1
      <4>4. DOMAIN (longer \o after) = 1 .. k + 2
        BY <4>2, <4>3, LenProperties
      <4>5. \A i \in 1 .. k + 1 : (longer \o after)[i] = longer[i]
        BY <4>1, <4>2, <4>3
      <4>6. k + 2 \in 1 .. k + 2 /\ ~(k + 2 <= k + 1) /\ (k + 2) - (k + 1) = 1
        OBVIOUS
      <4>7. (longer \o after)[k + 2] = forward
        BY <3>3, <4>1, <4>2, <4>3, <4>6
      <4> QED BY <2>16, <4>4, <4>5, <4>7
    <3>5. \A r \in DeviceQueues : \A i \in DOMAIN pending[r] :
            i \in DOMAIN pending'[r] /\ pending'[r][i] = pending[r][i]
      <4>1. \A i \in 1 .. k : i \in 1 .. k + 1 /\ i \in 1 .. k + 2
        OBVIOUS
      <4> QED BY <2>14, <2>15, <2>16, <3>4, <4>1
    <3>6. k + 1 \in DOMAIN pending'[queue] /\ pending'[queue][k + 1] = op /\ k + 2 \in DOMAIN pending'[queue]
      <4>1. k + 1 \in 1 .. k + 1 /\ k + 1 \in 1 .. k + 2 /\ k + 2 \in 1 .. k + 2
        OBVIOUS
      <4> QED BY <2>14, <2>15, <3>4, <4>1
    <3>7. \A r \in DeviceQueues : \A i \in DOMAIN pending'[r] :
            \/ i \in DOMAIN pending[r]
            \/ r = queue /\ i = k + 1
            \/ r = queue /\ i = k + 2 /\ Asks(op, current_frame)
      <4>1. \A i \in 1 .. k + 2 : i \in 1 .. k \/ i = k + 1 \/ i = k + 2
        OBVIOUS
      <4>2. Asks(op, current_frame)
        BY <2>1, <2>18, <2>23
      <4> QED BY <2>14, <2>16, <3>4, <4>1, <4>2
    <3>8. UserFence \in fences /\ UserFence \notin fences' /\ fences' \subseteq fences
      BY <1>2, <2>23
    <3>9. ForwardForm(queue, pending'[queue][k + 2], current_frame)
      BY <2>1, <3>2, <3>4
    <3>10. Submits(queue, op, k)
      BY <2>19, <2>21, <3>5, <3>6, <3>7, <3>8, <3>9 DEF Submits
    <3> QED BY <2>20, <3>10
  <2> QED BY <2>22, <2>23
<1> QED BY <1>1, <1>2

\* A submission of the application.
LEMMA ComputeSteps ==
  ASSUME Types, Phases, SubmitCompute \/ SubmitComputeWithFence
  PROVE  Quiet \/ \E op : \E k \in Nat : Submits("compute", op, k)
<1>0. pc = "frame" /\ UNCHANGED <<pc, resume, current_frame, signalled, owned, current_image, chain>>
  BY DEF SubmitCompute, SubmitComputeWithFence, swapChainVars
<1>1. ASSUME UNCHANGED <<pending, frame, fences>> PROVE Quiet
  BY <1>0, <1>1 DEF Quiet, Open, Unfinished
<1>2. Nothing \in Uses /\ \A q : Fitting(q, Nothing)
  BY NothingTypes DEF Nothing, Fitting, NoImage, NoSlot
<1>3. "compute" \in ListQueues
  BY DEF ListQueues
<1>4. CASE SubmitCompute
  <2>1. SubmitList("compute", Nothing, {}, <<>>) /\ fences' = fences
    BY <1>4 DEF SubmitCompute
  <2>2. \/ UNCHANGED <<pending, frame, fences>>
        \/ \E op : \E k \in Nat : Submits("compute", op, k)
    BY <1>0, <1>2, <1>3, <2>1, SubmitForms
  <2> QED BY <1>1, <2>2
<1>5. CASE SubmitComputeWithFence
  <2>1. /\ SubmitList("compute", Nothing, {UserFenceOf(current_frame)},
                      << Operation({UserFenceOf(current_frame)}, {}, UserFence, Nothing) >>)
        /\ UserFence \in fences
        /\ fences' = IF frame.count >= kMaxSubmittedCommandLists THEN fences
                     ELSE fences \ {UserFence}
    BY <1>5 DEF SubmitComputeWithFence, UserFenceSemaphore, UserFenceOf
  <2>2. \/ UNCHANGED <<pending, frame, fences>>
        \/ \E op : \E k \in Nat : Submits("compute", op, k)
    BY <1>0, <1>2, <1>3, <2>1, SubmitForms
  <2> QED BY <1>1, <2>2
<1> QED BY <1>4, <1>5

\* The submission of the renderer, or its loss.
LEMMA DrawSteps ==
  ASSUME Types, Phases, RendererSubmit
  PROVE  \/ Quiet
         \/ \E op : \E k \in Nat :
              /\ Submits("graphics", op, k)
              /\ op.uses.handles = {resources, hdr} \ {NullHandle} /\ op.uses.slot = FrameSlot
<1>1. /\ pc = "frame"
      /\ UNCHANGED <<pc, resume, current_frame, signalled, owned, current_image, chain>>
  BY DEF RendererSubmit, swapChainVars
<1>2. PICK uses : uses = [Nothing EXCEPT !.handles = {resources, hdr} \ {NullHandle},
                                         !.slot = FrameSlot, !.image = BackBuffer]
  OBVIOUS
<1>3. SubmitList("graphics", uses, {}, <<>>) /\ fences' = fences
  BY <1>2 DEF RendererSubmit
<1>4. uses \in Uses
  BY <1>2 DEF Nothing, Uses, FrameSlot, BackBuffer, Types, TypeOK
<1>5. resources # NullHandle /\ "graphics" \in ListQueues
  BY DEF RendererSubmit, Phases, ListQueues
<1>6. Fitting("graphics", uses)
  BY <1>2, <1>5 DEF Nothing, Fitting, FrameSlot, BackBuffer
<1>7. \/ UNCHANGED <<pending, frame, fences>>
      \/ \E op : \E k \in Nat : /\ Submits("graphics", op, k)
                                /\ op.uses = [uses EXCEPT !.list = <<current_frame, "graphics">>]
  BY <1>1, <1>3, <1>4, <1>5, <1>6, SubmitForms
<1>8. [uses EXCEPT !.list = <<current_frame, "graphics">>].handles = {resources, hdr} \ {NullHandle}
      /\ [uses EXCEPT !.list = <<current_frame, "graphics">>].slot = FrameSlot
  BY <1>2 DEF Nothing
<1>9. UNCHANGED <<pending, frame, fences>> => Quiet
  BY <1>1 DEF Quiet, Open, Unfinished
<1> QED BY <1>7, <1>8, <1>9

\* Present closes the frame.
LEMMA PresentCloses ==
  ASSUME Types, Phases, Present
  PROVE  \E op : \E k \in Nat : \E p \in Nat : ClosesFrame(op, k, p)
<1>0. "graphics" \in DeviceQueues /\ "present" \in DeviceQueues
      /\ pending \in [DeviceQueues -> Seq(Operations)]
      /\ pending["graphics"] \in Seq(Operations) /\ pending["present"] \in Seq(Operations)
  BY DEF DeviceQueues, Types
<1>1. PICK f \in Frames, image \in Images, n \in 0 .. kMaxSubmittedCommandLists :
        f = current_frame /\ image = current_image /\ n = frame.last
  BY DEF Types, TypeOK
<1>2. PICK closing, shown :
        /\ closing = Operation(ChainWait \cup ImageWait,
                       IF frame.acquired THEN {CurrentRenderFinished(current_frame)} ELSE {},
                       PresentFence, Nothing)
        /\ shown = PresentImage(current_frame)
  OBVIOUS
<1>3. /\ pc = "frame" /\ pc' = "idle" /\ UNCHANGED <<signalled, fences, owned, current_image, chain>>
      /\ pending' = [pending EXCEPT !["graphics"] = Append(pending["graphics"], closing),
                       !["present"] = IF frame.acquired THEN Append(pending["present"], shown)
                                      ELSE pending["present"]]
  BY <1>0, <1>2 DEF Present, swapChainVars
<1>4. /\ pending'["graphics"] = Append(pending["graphics"], closing)
      /\ pending'["present"] = IF frame.acquired THEN Append(pending["present"], shown)
                               ELSE pending["present"]
      /\ \A r \in DeviceQueues : r # "graphics" /\ r # "present" => pending'[r] = pending[r]
  BY <1>0, <1>3
<1>5. /\ closing.waits = ChainWait \cup ImageWait
      /\ closing.signals = IF frame.acquired THEN {RenderFinished(image)} ELSE {}
      /\ closing.fence = FrameFence(f) /\ closing.uses = Nothing
  BY <1>1, <1>2 DEF Operation, CurrentRenderFinished, PresentFence
<1>6. ChainWait = (IF n = 0 THEN {} ELSE {SubmissionOf(f, n)})
  BY <1>1 DEF ChainWait, Submission, SubmissionOf
<1>7. ImageWait = (IF frame.acquired /\ ~frame.consumed THEN {ImageAvailable(f)} ELSE {})
  BY <1>1 DEF ImageWait
<1>8. ClosingForm("graphics", closing, f)
  <2>1. closing.waits = ChainWait \/ closing.waits = ChainWait \cup {ImageAvailable(f)}
    BY <1>5, <1>7
  <2>2. closing.signals = {} \/ closing.signals = {RenderFinished(image)}
    BY <1>5
  <2> QED BY <1>5, <1>6, <2>1, <2>2 DEF ClosingForm
<1>9. PresentForm("present", shown, image)
  BY <1>1, <1>2 DEF PresentForm, PresentImage, Operation, CurrentRenderFinished, BackBuffer
<1>10. closing \in Operations /\ shown \in Operations
  <2>1. \A m \in Nat : SubmissionOf(f, m) \in Semaphores
    BY DEF Semaphores, SubmissionOf
  <2>2. ImageAvailable(f) \in Semaphores /\ RenderFinished(image) \in Semaphores
        /\ FrameFence(f) \in FenceIds /\ NoFence \in FenceIds
    BY DEF Semaphores, ImageAvailable, RenderFinished, FenceIds
  <2>3. ChainWait \cup ImageWait \in SUBSET Semaphores
    BY <1>6, <1>7, <2>1, <2>2
  <2>4. closing \in Operations
    <3>1. PICK waits, signals :
            /\ waits = ChainWait \cup ImageWait
            /\ signals = IF frame.acquired THEN {RenderFinished(image)} ELSE {}
      OBVIOUS
    <3>2. waits \in SUBSET Semaphores /\ signals \in SUBSET Semaphores
      BY <2>2, <2>3, <3>1
    <3>3. closing = Operation(waits, signals, FrameFence(f), Nothing)
      BY <1>1, <1>2, <3>1 DEF CurrentRenderFinished, PresentFence
    <3> QED BY <2>2, <3>2, <3>3, NothingTypes
  <2>5. [Nothing EXCEPT !.image = BackBuffer] \in Uses
    BY DEF Nothing, Uses, BackBuffer, Types, TypeOK
  <2>6. shown \in Operations
    BY <1>1, <1>2, <2>2, <2>5, NothingTypes DEF PresentImage, CurrentRenderFinished
  <2> QED BY <2>4, <2>6
<1>11. PICK k \in Nat :
         /\ DOMAIN pending["graphics"] = 1 .. k
         /\ DOMAIN Append(pending["graphics"], closing) = 1 .. k + 1
         /\ \A i \in 1 .. k : Append(pending["graphics"], closing)[i] = pending["graphics"][i]
         /\ Append(pending["graphics"], closing)[k + 1] = closing
  BY <1>0, <1>10, OperationAppended, Zenon
<1>12. PICK p \in Nat :
         /\ DOMAIN pending["present"] = 1 .. p
         /\ DOMAIN Append(pending["present"], shown) = 1 .. p + 1
         /\ \A i \in 1 .. p : Append(pending["present"], shown)[i] = pending["present"][i]
         /\ Append(pending["present"], shown)[p + 1] = shown
  BY <1>0, <1>10, OperationAppended, Zenon
<1>13. \A m \in Nat : m + 1 \in 1 .. m + 1 /\ (\A i \in 1 .. m : i \in 1 .. m + 1)
                      /\ \A i \in 1 .. m + 1 : i \in 1 .. m \/ i = m + 1
  OBVIOUS
<1>14. /\ \A i \in DOMAIN pending["graphics"] :
            i \in DOMAIN pending'["graphics"] /\ pending'["graphics"][i] = pending["graphics"][i]
       /\ k + 1 \in DOMAIN pending'["graphics"] /\ pending'["graphics"][k + 1] = closing
       /\ \A i \in DOMAIN pending'["graphics"] : i \in DOMAIN pending["graphics"] \/ i = k + 1
  BY <1>4, <1>11, <1>13
<1>15. /\ \A i \in DOMAIN pending["present"] :
            i \in DOMAIN pending'["present"] /\ pending'["present"][i] = pending["present"][i]
       /\ frame.acquired => p + 1 \in DOMAIN pending'["present"] /\ pending'["present"][p + 1] = shown
       /\ \A i \in DOMAIN pending'["present"] :
            i \in DOMAIN pending["present"] \/ (i = p + 1 /\ frame.acquired)
  <2>1. CASE frame.acquired
    BY <1>4, <1>12, <1>13, <2>1
  <2>2. CASE ~frame.acquired
    BY <1>4, <2>2
  <2> QED BY <2>1, <2>2
<1>16. /\ \A r \in DeviceQueues : \A i \in DOMAIN pending[r] :
            i \in DOMAIN pending'[r] /\ pending'[r][i] = pending[r][i]
       /\ \A r \in DeviceQueues : \A i \in DOMAIN pending'[r] :
            \/ i \in DOMAIN pending[r]
            \/ r = "graphics" /\ i = k + 1
            \/ r = "present" /\ i = p + 1 /\ frame.acquired
  BY <1>4, <1>14, <1>15
<1>17. /\ frame.last # 0 => SubmissionOf(current_frame, frame.last) \in closing.waits
       /\ frame.acquired /\ ~frame.consumed => ImageAvailable(current_frame) \in closing.waits
       /\ ClosingForm("graphics", closing, current_frame)
  BY <1>1, <1>5, <1>6, <1>7, <1>8
<1>18. \A i \in Images : Renders(closing, i) <=> frame.acquired /\ i = current_image
  BY <1>1, <1>5, SemaphoresDiffer DEF Renders
<1>19. frame.acquired =>
         /\ p + 1 \in DOMAIN pending'["present"]
         /\ PresentForm("present", pending'["present"][p + 1], current_image)
  BY <1>1, <1>9, <1>15
<1>20. ClosesFrame(closing, k, p)
  BY <1>3, <1>11, <1>12, <1>14, <1>16, <1>17, <1>18, <1>19 DEF ClosesFrame
<1> QED BY <1>20

\* UpdateBuffer and UpdateTexture begin an upload.
LEMMA UploadForms ==
  ASSUME Types, Upload
  PROVE  \E op : \E k \in Nat :
           /\ UploadBegins(op, k)
           /\ op.uses = [Nothing EXCEPT !.handles = {NextHandle(slots)}]
<1>0. "graphics" \in DeviceQueues /\ pending \in [DeviceQueues -> Seq(Operations)]
      /\ pending["graphics"] \in Seq(Operations)
  BY DEF DeviceQueues, Types
<1>1. NextHandle(slots) \in Handles \ {NullHandle}
  BY SlotMapTypes DEF Upload, CanCreateResource, Types
<1>2. PICK op : op = Operation({}, {}, UploadFence, [Nothing EXCEPT !.handles = {NextHandle(slots)}])
  OBVIOUS
<1>3. /\ op.waits = {} /\ op.signals = {} /\ op.fence = UploadFence
      /\ op.uses = [Nothing EXCEPT !.handles = {NextHandle(slots)}]
  BY <1>2 DEF Operation
<1>4. UploadForm("graphics", op)
  BY <1>1, <1>3 DEF UploadForm
<1>5. op \in Operations
  <2>1. [Nothing EXCEPT !.handles = {NextHandle(slots)}] \in Uses
    BY <1>1 DEF Nothing, Uses
  <2> QED BY <1>2, <2>1, NothingTypes DEF FenceIds
<1>6. /\ UNCHANGED <<signalled, fences, owned, current_image, chain, current_frame, frame>>
      /\ pc \in {"idle", "frame"} /\ pc' = "upload" /\ resume' = pc
      /\ pending' = [pending EXCEPT !["graphics"] = Append(pending["graphics"], op)]
  BY <1>0, <1>2 DEF Upload, ExecuteImmediate, swapChainVars
<1>7. (Open' <=> Open) /\ (Unfinished' <=> Unfinished)
  BY <1>6 DEF Open, Unfinished
<1>8. PICK k \in Nat :
        /\ DOMAIN pending["graphics"] = 1 .. k
        /\ DOMAIN Append(pending["graphics"], op) = 1 .. k + 1
        /\ \A i \in 1 .. k : Append(pending["graphics"], op)[i] = pending["graphics"][i]
        /\ Append(pending["graphics"], op)[k + 1] = op
  BY <1>0, <1>5, OperationAppended, Zenon
<1>9. /\ pending'["graphics"] = Append(pending["graphics"], op)
      /\ \A r \in DeviceQueues : r # "graphics" => pending'[r] = pending[r]
  BY <1>0, <1>6
<1>10. \A m \in Nat : m + 1 \in 1 .. m + 1 /\ (\A i \in 1 .. m : i \in 1 .. m + 1)
                      /\ \A i \in 1 .. m + 1 : i \in 1 .. m \/ i = m + 1
  OBVIOUS
<1>11. /\ \A r \in DeviceQueues : \A i \in DOMAIN pending[r] :
            i \in DOMAIN pending'[r] /\ pending'[r][i] = pending[r][i]
       /\ k + 1 \in DOMAIN pending'["graphics"] /\ pending'["graphics"][k + 1] = op
       /\ \A r \in DeviceQueues : \A i \in DOMAIN pending'[r] :
            i \in DOMAIN pending[r] \/ (r = "graphics" /\ i = k + 1)
  BY <1>8, <1>9, <1>10
<1>12. UploadBegins(op, k)
  BY <1>4, <1>6, <1>7, <1>8, <1>11 DEF UploadBegins
<1> QED BY <1>3, <1>12

\* The steps of the client that submit nothing.
LEMMA QuietSteps ==
  ASSUME Types, Phases,
         \/ InitializeDevice \/ InitializeFails \/ ShutdownIdle \/ Teardown \/ BeginFrame
         \/ AcquireFails \/ AcquireOutOfDate \/ Resize \/ Recreate \/ RecreateFails \/ UploadDone
         \/ RendererInitialize \/ RendererInitializeFails \/ RendererBeginFrame \/ RendererRecord
         \/ RendererShutdown \/ Quit \/ UNCHANGED vars
  PROVE  Quiet
<1> USE DEF Quiet, Open, Unfinished, contextVars, initVars, deviceVars, swapChainVars, rendererVars
<1>1. CASE InitializeDevice \/ InitializeFails \/ Teardown
  BY <1>1 DEF InitializeDevice, InitializeFails, Teardown
<1>2. CASE ShutdownIdle
  BY <1>2 DEF ShutdownIdle, DeviceIdle
<1>3. CASE BeginFrame \/ AcquireFails \/ AcquireOutOfDate \/ Resize
  BY <1>3 DEF BeginFrame, AcquireFails, AcquireOutOfDate, Resize
<1>4. CASE Recreate
  <2>1. pc = "recreate" /\ Idle /\ signalled' \subseteq signalled /\ pc' = resume
        /\ UNCHANGED <<pending, fences, current_frame, frame>>
    BY <1>4 DEF Recreate, CreateSwapChain, DeviceIdle
  <2>2. resume = "frame" => ~frame.acquired
    BY <2>1 DEF Phases, NoFlags
  <2>3. resume \in {"idle", "frame"}
    BY DEF Types, TypeOK
  <2> QED BY <2>1, <2>2, <2>3
<1>5. CASE RecreateFails
  <2>1. resume \in {"idle", "frame"}
    BY DEF Types, TypeOK
  <2> QED BY <1>5, <2>1 DEF RecreateFails, CreateSwapChainFails
<1>6. CASE UploadDone
  <2>1. resume \in {"idle", "frame"}
    BY DEF Types, TypeOK
  <2> QED BY <1>6, <2>1 DEF UploadDone
<1>7. CASE \/ RendererInitialize \/ RendererInitializeFails \/ RendererBeginFrame \/ RendererRecord
           \/ RendererShutdown
  BY <1>7 DEF RendererInitialize, RendererInitializeFails, RendererBeginFrame, RendererRecord,
              RendererShutdown
<1>8. CASE Quit
  BY <1>8 DEF Quit
<1>9. CASE UNCHANGED vars
  BY <1>9 DEF vars
<1> QED BY <1>1, <1>2, <1>3, <1>4, <1>5, <1>6, <1>7, <1>8, <1>9

\* Every step keeps the invariant of the semaphores and fences.
LEMMA SyncKept ==
  ASSUME Types, SyncInv, Phases, [Next]_vars
  PROVE  SyncInv'
<1>1. CASE Initialize \/ Initialized \/ TornDown
  <2>1. pc \in NotAlive /\ (\A q \in DeviceQueues : pending[q] = <<>>)
    BY <1>1 DEF Initialize, Initialized, TornDown, NotAlive, Phases, Idle
  <2>2. \A q \in DeviceQueues : pending'[q] = <<>>
    BY <1>1, <2>1 DEF Initialize, Initialized, TornDown, deviceVars
  <2>3. signalled' = {}
    BY <1>1 DEF Initialize, Initialized, TornDown, deviceVars, Phases
  <2>4. ~Open'
    BY <1>1 DEF Initialize, Initialized, TornDown, Open
  <2> QED BY <2>2, <2>3, <2>4, AtReset
<1>2. CASE Quiet
  BY <1>2, QuietKeepsSync
<1>3. CASE ReuseFrame
  BY <1>3, ReuseKeepsSync
<1>4. CASE \E image \in Images : Acquire(image)
  BY <1>4, AcquireKeepsSync
<1>5. CASE SubmitCompute \/ SubmitComputeWithFence \/ RendererSubmit
  <2>1. Quiet \/ \E q \in ListQueues : \E op : \E k \in Nat : Submits(q, op, k)
    BY <1>5, ComputeSteps, DrawSteps DEF ListQueues
  <2> QED BY <1>2, <2>1, SubmitKeepsSync
<1>6. CASE Present
  <2>1. \E op : \E k \in Nat : \E p \in Nat : ClosesFrame(op, k, p)
    BY <1>6, PresentCloses
  <2> QED BY <2>1, ClosingKeepsSync
<1>7. CASE Upload
  <2>1. \E op : \E k \in Nat : UploadBegins(op, k)
    BY <1>7, UploadForms
  <2> QED BY <2>1, UploadKeepsSync
<1>8. CASE \E q \in DeviceQueues : DeviceStep(q)
  BY <1>8, CompleteKeepsSync
<1>9. CASE \/ InitializeDevice \/ InitializeFails \/ ShutdownIdle \/ Teardown \/ BeginFrame
           \/ AcquireFails \/ AcquireOutOfDate \/ Resize \/ Recreate \/ RecreateFails \/ UploadDone
           \/ RendererInitialize \/ RendererInitializeFails \/ RendererBeginFrame \/ RendererRecord
           \/ RendererShutdown \/ Quit \/ UNCHANGED vars
  BY <1>2, <1>9, QuietSteps
<1> QED BY <1>1, <1>3, <1>4, <1>5, <1>6, <1>7, <1>8, <1>9, NextForms, Zenon DEF ContextStep

\* Every step keeps what holds at the places of the client and the renderer.
LEMMA PhasesKept ==
  ASSUME Types, Phases, [Next]_vars
  PROVE  Phases'
<1> USE DEF Phases, NotAlive, contextVars, deviceVars, swapChainVars, rendererVars
<1>0. resume \in {"idle", "frame"} /\ current_frame \in Frames /\ frame \in FrameTypes
      /\ lists \in [Frames -> [ListQueues -> {"initial", "recording", "executable"}]]
      /\ "graphics" \in ListQueues /\ "compute" \in ListQueues
      /\ NoFlags.last = NoFlags.count
  BY DEF Types, TypeOK, FrameTypes, ListQueues, NoFlags
<1>1. CASE ContextStep /\ Outside /\ UNCHANGED rendererVars
  <2>0. UNCHANGED <<renderer, frame_slot, resources, hdr>> /\ renderer # "recording"
    BY <1>1 DEF Outside
  <2>1. CASE Initialize \/ TornDown
    BY <1>0, <2>0, <2>1 DEF Initialize, TornDown, Fresh, Idle
  <2>2. CASE InitializeDevice \/ InitializeFails \/ Initialized \/ ShutdownIdle \/ Teardown
    BY <1>0, <2>0, <2>2 DEF InitializeDevice, InitializeFails, Initialized, ShutdownIdle, Teardown,
                            Idle, DeviceIdle
  <2>3. CASE BeginFrame \/ ReuseFrame
    BY <1>0, <2>0, <2>3 DEF BeginFrame, ReuseFrame
  <2>4. CASE Drawn /\ Present
    <3>1. renderer # "started"
      BY <2>4 DEF Drawn
    <3> QED BY <1>0, <2>0, <2>4, <3>1 DEF Present
  <2>5. CASE \E image \in Images : Acquire(image)
    <3>1. /\ pc = "acquire" /\ pc' = "frame" /\ frame' = [frame EXCEPT !.acquired = TRUE]
          /\ UNCHANGED <<resume, current_frame, staging, lists>>
      BY <2>5 DEF Acquire
    <3>2. frame'.last = frame'.count
      BY <1>0, <3>1 DEF FrameTypes
    <3> QED BY <1>0, <2>0, <3>1, <3>2
  <2>6. CASE AcquireFails \/ AcquireOutOfDate \/ Resize
    BY <1>0, <2>0, <2>6 DEF AcquireFails, AcquireOutOfDate, Resize
  <2>7. CASE Recreate \/ RecreateFails
    BY <1>0, <2>0, <2>7 DEF Recreate, RecreateFails
  <2>8. CASE SubmitCompute \/ SubmitComputeWithFence
    <3>1. /\ pc = "frame" /\ UNCHANGED <<pc, resume, current_frame, staging>>
          /\ ListBecomes("compute", "executable")
      BY <2>8 DEF SubmitCompute, SubmitComputeWithFence
    <3>2. lists'[current_frame]["graphics"] = lists[current_frame]["graphics"]
      BY <1>0, <3>1 DEF ListBecomes
    <3>3. frame'.last = frame'.count
      <4>1. PICK queue, uses, signals, after : SubmitList(queue, uses, signals, after)
        BY <2>8 DEF SubmitCompute, SubmitComputeWithFence
      <4> QED BY <1>0, <4>1 DEF SubmitList, FrameTypes
    <3> QED BY <2>0, <3>1, <3>2, <3>3
  <2>9. CASE Upload \/ UploadDone
    BY <1>0, <2>0, <2>9 DEF Upload, UploadDone, CanCreateResource
  <2> QED BY <1>1, <2>1, <2>2, <2>3, <2>4, <2>5, <2>6, <2>7, <2>8, <2>9, Zenon DEF ContextStep
<1>2. CASE RendererInitialize \/ RendererInitializeFails \/ RendererBeginFrame
  BY <1>0, <1>2 DEF RendererInitialize, RendererInitializeFails, RendererBeginFrame,
                    CanCreateResource
<1>3. CASE RendererRecord
  <2>1. lists'[current_frame]["graphics"] = "recording"
    BY <1>0, <1>3 DEF RendererRecord, ListBecomes
  <2> QED BY <1>0, <1>3, <2>1 DEF RendererRecord
<1>4. CASE RendererSubmit
  <2>1. frame'.last = frame'.count
    <3>1. PICK queue, uses, signals, after : SubmitList(queue, uses, signals, after)
      BY <1>4 DEF RendererSubmit
    <3> QED BY <1>0, <3>1 DEF SubmitList, FrameTypes
  <2> QED BY <1>0, <1>4, <2>1 DEF RendererSubmit
<1>5. CASE RendererShutdown \/ Quit
  BY <1>0, <1>5 DEF RendererShutdown, Quit, RendererOff, Outside
<1>6. CASE \E q \in DeviceQueues : DeviceStep(q)
  <2>1. PICK q \in DeviceQueues : DeviceStep(q)
    BY <1>6
  <2>2. ~Idle
    BY <2>1 DEF DeviceStep, Complete, CanComplete, Idle
  <2> QED BY <1>0, <2>1, <2>2 DEF DeviceStep
<1>7. CASE UNCHANGED vars
  BY <1>7 DEF vars, Idle
<1> QED BY <1>1, <1>2, <1>3, <1>4, <1>5, <1>6, <1>7, NextForms, Zenon

\* Nothing is submitted or signalled to begin with.
LEMMA InitSync == Init => SyncInv /\ Phases
<1> SUFFICES ASSUME Init PROVE SyncInv /\ Phases
  OBVIOUS
<1>1. /\ pc = "off" /\ signalled = {} /\ fences = {} /\ frame = NoFlags /\ renderer = "off"
      /\ resources = NullHandle /\ hdr = NullHandle /\ staging = NullHandle
      /\ \A q \in DeviceQueues : DOMAIN pending[q] = {}
      /\ Idle /\ ~Open
  BY DEF Init, ContextInit, DeviceInit, SwapChainInit, Idle, Open
<1>2. "compute" \in DeviceQueues /\ "present" \in DeviceQueues
  BY DEF DeviceQueues
<1>3. OperationsLegal /\ OneOfEach /\ ChainRuns /\ Consumed /\ ClosingLast /\ FenceMeansDone
  BY <1>1 DEF OperationsLegal, OneOfEach, ChainRuns, Consumed, ClosingLast, FenceMeansDone
<1>4. OpenFrame /\ UserFenceRuns /\ AcquiresRun /\ ImagesRun
  BY <1>1, <1>2 DEF OpenFrame, UserFenceRuns, AcquiresRun, ImagesRun
<1> QED BY <1>1, <1>3, <1>4 DEF SyncInv, Phases, NoFlags

\* What the invariant says of the semaphores.
LEMMA SyncMeansBinary ==
  ASSUME Types, SyncInv, Phases
  PROVE  SemaphoresBinary
<1>1. ASSUME NEW q \in DeviceQueues, CanComplete(q)
      PROVE  Head(pending[q]).signals \cap signalled = {}
  <2>1. PICK op : op = pending[q][1]
    OBVIOUS
  <2>2. 1 \in DOMAIN pending[q] /\ Head(pending[q]) = op
    <3>1. pending[q] \in Seq(Operations) /\ pending[q] # <<>>
      BY <1>1 DEF CanComplete, Types
    <3>2. Len(pending[q]) \in Nat \ {0} /\ DOMAIN pending[q] = 1 .. Len(pending[q])
      BY <3>1, EmptySeq, LenProperties
    <3> QED BY <2>1, <3>1, <3>2, HeadTailProperties
  <2>3. Legal(q, op)
    BY <2>1, <2>2 DEF SyncInv, OperationsLegal
  <2>4. ASSUME NEW s \in op.signals PROVE s \notin signalled
    <3>1. ASSUME NEW f \in Frames, NEW n \in 1 .. kMaxSubmittedCommandLists, s = SubmissionOf(f, n)
          PROVE  s \notin signalled
      <4>1. Numbered(op, f, n) /\ n <= n
        BY <2>4, <3>1 DEF Numbered
      <4> QED BY <2>1, <2>2, <3>1, <4>1 DEF SyncInv, ChainRuns
    <3>2. ASSUME NEW f \in Frames, s = UserFenceOf(f), Asks(op, f)
          PROVE  s \notin signalled
      BY <2>1, <2>2, <3>2 DEF SyncInv, UserFenceRuns
    <3>3. ASSUME NEW i \in Images, s = RenderFinished(i), Renders(op, i)
          PROVE  s \notin signalled
      BY <2>1, <2>2, <3>3 DEF SyncInv, ImagesRun
    <3>4. \/ \E f \in Frames, n \in 1 .. kMaxSubmittedCommandLists :
               s = SubmissionOf(f, n) /\ SubmissionForm(q, op, f, n)
          \/ \E f \in Frames : s = UserFenceOf(f) /\ Asks(op, f)
          \/ \E i \in Images : s = RenderFinished(i) /\ Renders(op, i)
      BY <2>3, <2>4, SemaphoresOf
    <3> QED BY <3>1, <3>2, <3>3, <3>4
  <2> QED BY <2>2, <2>4
<1>2. ASSUME pc = "acquire"
      PROVE  /\ ImageAvailable(current_frame) \notin signalled
             /\ \A op \in InFlight : ImageAvailable(current_frame) \notin op.waits \cup op.signals
  <2>1. PICK f \in Frames : f = current_frame
    BY DEF Types, TypeOK
  <2>2. Open /\ ~frame.acquired /\ frame.last = 0
    BY <1>2 DEF Open, Phases, NoFlags
  <2>3. ASSUME NEW q \in DeviceQueues, NEW i \in DOMAIN pending[q]
        PROVE  ImageAvailable(f) \notin pending[q][i].waits \cup pending[q][i].signals
    <3>1. PICK op : op = pending[q][i]
      OBVIOUS
    <3>2. Legal(q, op)
      BY <3>1 DEF SyncInv, OperationsLegal
    <3>3. ~Closes(op, f) /\ \A n \in 1 .. kMaxSubmittedCommandLists : ~Numbered(op, f, n)
      <4>1. /\ ~Closes(op, f)
            /\ \A n \in 1 .. kMaxSubmittedCommandLists : Numbered(op, f, n) => n <= 0
        BY <2>1, <2>2, <3>1 DEF SyncInv, OpenFrame
      <4>2. \A n \in 1 .. kMaxSubmittedCommandLists : ~(n <= 0)
        OBVIOUS
      <4> QED BY <4>1, <4>2
    <3>4. ~OfFrame(op, f)
      <4>1. ASSUME NEW n \in 1 .. kMaxSubmittedCommandLists, SubmissionForm(q, op, f, n)
            PROVE  FALSE
        <5>1. SubmissionOf(f, n) \in op.signals
          BY <4>1 DEF SubmissionForm
        <5> QED BY <3>3, <5>1 DEF Numbered
      <4> QED BY <3>2, <4>1, Recognised
    <3> QED BY <3>1, <3>2, <3>3, <3>4, SemaphoresOf
  <2>4. ImageAvailable(f) \notin signalled
    BY <2>1, <2>2, <2>3 DEF SyncInv, AcquiresRun
  <2> QED BY <2>1, <2>3, <2>4 DEF InFlight, ToSet
<1> QED BY <1>1, <1>2 DEF SemaphoresBinary

\* Binary semaphores are used as Vulkan asks: none is signalled twice without a wait in between,
\* and an acquisition is given one that is in no use, whatever is submitted in a frame, skipped,
\* or left behind by failures and a swap chain that is made anew.
THEOREM SemaphoresAreBinary == Spec => []SemaphoresBinary
<1>1. Types /\ SyncInv /\ Phases /\ [Next]_vars => SyncInv' /\ Phases'
  BY SyncKept, PhasesKept
<1>2. Types /\ SyncInv /\ Phases => SemaphoresBinary
  BY SyncMeansBinary
<1> QED BY <1>1, <1>2, InitTypes, InitSync, TypesKept, PTL DEF Spec

-----------------------------------------------------------------------------
(* Slot maps: which handles are valid.                                     *)

\* The free indices are distinct, and none of them is occupied.
MapSound(map) ==
  /\ map \in SlotMaps
  /\ \A i \in DOMAIN map.free : map.free[i] \notin map.occupied
  /\ \A i, j \in DOMAIN map.free : map.free[i] = map.free[j] => i = j

\* The maps that no handle is valid in.
LEMMA EmptySound ==
  /\ MapSound(EmptyMap)
  /\ \A map \in SlotMaps : MapSound(DestroyAll(map))
<1>1. [i \in Indices |-> i] \in Seq(Indices) /\ DOMAIN [i \in Indices |-> i] = Indices
  BY ConstantFacts DEF Indices
<1>2. EmptyMap \in SlotMaps
  BY <1>1, ConstantFacts DEF EmptyMap, SlotMaps
<1>3. MapSound(EmptyMap)
  BY <1>1, <1>2 DEF MapSound, EmptyMap
<1>4. ASSUME NEW map \in SlotMaps PROVE MapSound(DestroyAll(map))
  <2>1. DestroyAll(map) \in SlotMaps
    BY SlotMapTypes
  <2> QED BY <1>1, <2>1 DEF MapSound, DestroyAll
<1> QED BY <1>3, <1>4

\* A handle that is allocated is valid, and none that is valid.
LEMMA AllocateSound ==
  ASSUME NEW map, MapSound(map)
  PROVE  /\ MapSound(Allocate(map))
         /\ NextHandle(map) # NullHandle => IsValid(Allocate(map), NextHandle(map))
         /\ NextHandle(map) \in Handles
         /\ \A h : IsValid(map, h) => IsValid(Allocate(map), h) /\ h # NextHandle(map)
<1>1. map \in SlotMaps
  BY DEF MapSound
<1>2. Allocate(map) \in SlotMaps /\ NextHandle(map) \in Handles
  BY <1>1, SlotMapTypes
<1>3. CASE map.free = <<>>
  <2>1. Allocate(map) = map /\ NextHandle(map) = NullHandle
    BY <1>3 DEF Allocate, NextHandle
  <2>2. \A h : IsValid(map, h) => h # NullHandle
    <3>1. 0 \notin map.occupied
      BY <1>1, ConstantFacts DEF SlotMaps, Indices
    <3> QED BY <3>1 DEF IsValid, NullHandle
  <2> QED BY <1>2, <2>1, <2>2
<1>4. CASE map.free # <<>>
  <2>0. PICK free : free = map.free
    OBVIOUS
  <2>0a. free \in Seq(Indices)
    BY <1>1, <2>0 DEF SlotMaps
  <2>1. PICK n \in Nat : free = map.free /\ n = Len(free)
    BY <2>0, <2>0a, LenProperties
  <2>2. free \in Seq(Indices) /\ free # <<>>
    BY <1>1, <1>4, <2>1 DEF SlotMaps
  <2>3. /\ DOMAIN free = 1 .. n /\ n >= 1 /\ Head(free) = free[1] /\ Tail(free) \in Seq(Indices)
        /\ Len(Tail(free)) = n - 1 /\ \A i \in 1 .. n - 1 : Tail(free)[i] = free[i + 1]
    BY <2>1, <2>2, HeadTailProperties, EmptySeq, LenProperties
  <2>4. DOMAIN Tail(free) = 1 .. n - 1
    BY <2>1, <2>3, LenProperties
  <2>5. PICK top \in Indices : top = Head(free) /\ top = free[1]
    BY <2>2, <2>3
  <2>6. /\ Allocate(map).free = Tail(free) /\ Allocate(map).occupied = map.occupied \cup {top}
        /\ Allocate(map).generation = map.generation
        /\ NextHandle(map) = <<top, map.generation[top]>>
    BY <1>1, <1>4, <2>1, <2>5 DEF Allocate, NextHandle, SlotMaps
  <2>7. 1 \in DOMAIN free /\ \A i \in 1 .. n - 1 : i + 1 \in DOMAIN free /\ i + 1 # 1
    BY <2>3
  <2>8. top \notin map.occupied /\ \A i, j \in DOMAIN free : free[i] = free[j] => i = j
    BY <2>1, <2>5, <2>7 DEF MapSound
  <2>9. \A i \in DOMAIN Tail(free) : Tail(free)[i] \notin map.occupied \cup {top}
    <3>1. ASSUME NEW i \in 1 .. n - 1 PROVE Tail(free)[i] \notin map.occupied \cup {top}
      <4>1. Tail(free)[i] = free[i + 1] /\ i + 1 \in DOMAIN free /\ i + 1 # 1
        BY <2>3, <2>7
      <4>2. free[i + 1] \notin map.occupied
        BY <2>1, <4>1 DEF MapSound
      <4> QED BY <2>5, <2>7, <2>8, <4>1, <4>2
    <3> QED BY <2>4, <3>1
  <2>10. \A i, j \in DOMAIN Tail(free) : Tail(free)[i] = Tail(free)[j] => i = j
    <3>1. ASSUME NEW i \in 1 .. n - 1, NEW j \in 1 .. n - 1, Tail(free)[i] = Tail(free)[j]
          PROVE  i = j
      <4>1. free[i + 1] = free[j + 1]
        BY <2>3, <3>1
      <4>2. i + 1 = j + 1
        BY <2>7, <2>8, <4>1
      <4> QED BY <4>2
    <3> QED BY <2>4, <3>1
  <2>11. MapSound(Allocate(map))
    BY <1>2, <2>6, <2>9, <2>10 DEF MapSound
  <2>12. IsValid(Allocate(map), NextHandle(map))
    BY <2>6 DEF IsValid
  <2>13. \A h : IsValid(map, h) => IsValid(Allocate(map), h) /\ h # NextHandle(map)
    BY <2>6, <2>8 DEF IsValid
  <2> QED BY <1>2, <2>11, <2>12, <2>13
<1> QED BY <1>3, <1>4

\* Destroying a handle leaves every other one valid.
LEMMA DestroySound ==
  ASSUME NEW map, MapSound(map), NEW h \in Handles
  PROVE  /\ MapSound(DestroyHandle(map, h))
         /\ \A g \in Handles : IsValid(map, g) /\ g # h => IsValid(DestroyHandle(map, h), g)
<1>1. map \in SlotMaps
  BY DEF MapSound
<1>2. DestroyHandle(map, h) \in SlotMaps
  BY <1>1, SlotMapTypes
<1>3. CASE ~IsValid(map, h)
  BY <1>3 DEF DestroyHandle
<1>4. CASE IsValid(map, h)
  <2>1. PICK i : i = h[1]
    OBVIOUS
  <2>2. i \in map.occupied /\ i \in Indices /\ map.generation[i] = h[2]
    BY <1>1, <1>4, <2>1 DEF IsValid, SlotMaps
  <2>3. /\ DestroyHandle(map, h).generation = [map.generation EXCEPT ![i] = NextGeneration(@)]
        /\ DestroyHandle(map, h).occupied = map.occupied \ {i}
        /\ DestroyHandle(map, h).free = <<i>> \o map.free
    BY <1>4, <2>1 DEF DestroyHandle
  <2>3a. PICK free, longer : free = map.free /\ longer = <<i>> \o free
    OBVIOUS
  <2>3b. free \in Seq(Indices)
    BY <1>1, <2>3a DEF SlotMaps
  <2>4. PICK n \in Nat : free = map.free /\ n = Len(free) /\ longer = <<i>> \o free
    BY <2>3a, <2>3b, LenProperties
  <2>5. free \in Seq(Indices) /\ <<i>> \in Seq(Indices) /\ Len(<<i>>) = 1 /\ <<i>>[1] = i
    BY <1>1, <2>2, <2>4 DEF SlotMaps
  <2>6. /\ longer \in Seq(Indices) /\ Len(longer) = Len(<<i>>) + Len(free)
        /\ \A j \in 1 .. Len(<<i>>) + Len(free) :
             longer[j] = IF j <= Len(<<i>>) THEN <<i>>[j] ELSE free[j - Len(<<i>>)]
    BY <2>4, <2>5, ConcatProperties
  <2>7. Len(<<i>>) + Len(free) = n + 1
    BY <2>4, <2>5
  <2>8. DOMAIN longer = 1 .. n + 1 /\ DOMAIN free = 1 .. n
    BY <2>4, <2>5, <2>6, <2>7, LenProperties
  <2>9. \A j \in 1 .. n + 1 : longer[j] = IF j = 1 THEN i ELSE free[j - 1]
    <3>1. \A j \in 1 .. n + 1 : longer[j] = IF j <= 1 THEN <<i>>[j] ELSE free[j - 1]
      BY <2>5, <2>6, <2>7
    <3> QED BY <2>5, <3>1
  <2>10. \A j \in 1 .. n : free[j] \notin map.occupied
    BY <2>4, <2>8 DEF MapSound
  <2>11. \A j, l \in 1 .. n : free[j] = free[l] => j = l
    BY <2>4, <2>8 DEF MapSound
  <2>12. ASSUME NEW j \in 1 .. n + 1 PROVE longer[j] \notin map.occupied \ {i}
    <3>1. CASE j = 1
      BY <2>9, <3>1
    <3>2. CASE j # 1
      <4>1. j - 1 \in 1 .. n
        BY <3>2
      <4> QED BY <2>9, <2>10, <3>2, <4>1
    <3> QED BY <3>1, <3>2
  <2>13. ASSUME NEW j \in 1 .. n + 1, NEW l \in 1 .. n + 1, longer[j] = longer[l]
         PROVE  j = l
    <3>1. \A m \in 1 .. n + 1 : m # 1 => m - 1 \in 1 .. n
      OBVIOUS
    <3>2. \A m \in 1 .. n + 1 : m # 1 => longer[m] # i
      BY <2>2, <2>9, <2>10, <3>1
    <3>3. CASE j = 1 \/ l = 1
      BY <2>9, <2>13, <3>2, <3>3
    <3>4. CASE j # 1 /\ l # 1
      <4>1. free[j - 1] = free[l - 1]
        BY <2>9, <2>13, <3>4
      <4>2. j - 1 = l - 1
        BY <2>11, <3>1, <3>4, <4>1
      <4> QED BY <4>2
    <3> QED BY <3>3, <3>4
  <2>14. MapSound(DestroyHandle(map, h))
    BY <1>2, <2>3, <2>4, <2>8, <2>12, <2>13 DEF MapSound
  <2>15. ASSUME NEW g \in Handles, IsValid(map, g), g # h
         PROVE  IsValid(DestroyHandle(map, h), g)
    <3>1. g[1] \in map.occupied /\ g[1] \in Indices /\ map.generation[g[1]] = g[2]
      BY <1>1, <2>15 DEF IsValid, SlotMaps
    <3>2. g[1] # i
      <4>1. g = <<g[1], g[2]>> /\ h = <<h[1], h[2]>>
        BY DEF Handles, NullHandle
      <4> QED BY <2>1, <2>2, <2>15, <3>1, <4>1
    <3>3. DestroyHandle(map, h).generation[g[1]] = g[2]
      BY <1>1, <2>3, <3>1, <3>2 DEF SlotMaps
    <3> QED BY <2>3, <3>1, <3>2, <3>3 DEF IsValid
  <2> QED BY <2>14, <2>15
<1> QED BY <1>2, <1>3, <1>4

\* Destroying the handles of a list leaves those valid that are not in it.
LEMMA InTurnSound ==
  ASSUME NEW map, MapSound(map), NEW handles \in Seq(Handles), NEW others \in SUBSET Handles,
         \A h \in others : IsValid(map, h) /\ \A i \in DOMAIN handles : handles[i] # h
  PROVE  /\ MapSound(DestroyInTurn(map, handles))
         /\ \A h \in others : IsValid(DestroyInTurn(map, handles), h)
<1> DEFINE Good == {m \in SlotMaps : MapSound(m) /\ \A h \in others : IsValid(m, h)}
<1>1. map \in Good
  BY DEF MapSound
<1>2. ASSUME NEW m \in Good, NEW i \in 1 .. Len(handles)
      PROVE  DestroyHandle(m, handles[i]) \in Good
  <2>1. i \in DOMAIN handles /\ handles[i] \in Handles
    BY LenProperties
  <2>2. MapSound(m) /\ \A h \in others : h \in Handles /\ IsValid(m, h) /\ h # handles[i]
    BY <2>1
  <2>3. /\ MapSound(DestroyHandle(m, handles[i]))
        /\ \A h \in others : IsValid(DestroyHandle(m, handles[i]), h)
    BY <2>1, <2>2, DestroySound
  <2> QED BY <2>3 DEF MapSound
<1>3. DestroyInTurn(map, handles) \in Good
  <2> HIDE DEF Good
  <2> QED BY <1>1, <1>2, InTurnStays
<1> QED BY <1>3

-----------------------------------------------------------------------------
(* Uploads and command lists.                                              *)

\* Only the upload that the client waits for is in flight, or has signalled its fence.
UploadsRun ==
  /\ UploadFence \in fences => pc = "upload"
  /\ \A i \in DOMAIN pending["graphics"] : Uploads(pending["graphics"][i]) =>
       /\ pc = "upload" /\ UploadFence \notin fences
       /\ \A j \in DOMAIN pending["graphics"] : Uploads(pending["graphics"][j]) => j = i

\* The list of a submission in flight has been recorded and is left alone.
ListsAtRest ==
  \A q \in DeviceQueues : \A i \in DOMAIN pending[q] : \A f \in Frames, k \in ListQueues :
    pending[q][i].uses.list = <<f, k>> => lists[f][k] = "executable"

\* Nothing is in flight before or after.
LEMMA UploadsAtReset ==
  ASSUME Types, UploadsRun, Phases, Initialize \/ Initialized \/ TornDown
  PROVE  UploadsRun' /\ ListsAtRest' /\ \A q \in DeviceQueues : DOMAIN pending'[q] = {}
<1>0. "graphics" \in DeviceQueues
  BY DEF DeviceQueues
<1>1. pc \in NotAlive /\ (\A q \in DeviceQueues : pending[q] = <<>>)
  BY DEF Initialize, Initialized, TornDown, NotAlive, Phases, Idle
<1>2. \A q \in DeviceQueues : DOMAIN pending'[q] = {}
  BY <1>1 DEF Initialize, Initialized, TornDown, deviceVars
<1>3. UploadFence \notin fences'
  <2>1. UploadFence \notin fences
    BY <1>1 DEF UploadsRun, NotAlive
  <2> QED BY <2>1, FencesDiffer DEF Initialize, Initialized, TornDown, deviceVars
<1> QED BY <1>0, <1>2, <1>3 DEF UploadsRun, ListsAtRest

\* Steps that submit nothing.
LEMMA UploadsAtRest ==
  ASSUME UploadsRun, pending' = pending, fences' \subseteq fences,
         pc' = pc \/ pc # "upload" \/ UploadDone
  PROVE  UploadsRun'
<1>1. CASE UploadDone
  <2>1. UploadFence \in fences /\ UploadFence \notin fences'
    BY <1>1 DEF UploadDone
  <2> QED BY <2>1 DEF UploadsRun
<1>2. CASE pc' = pc \/ pc # "upload"
  BY <1>2 DEF UploadsRun
<1> QED BY <1>1, <1>2

\* Steps of a frame that submit something else than an upload.
LEMMA UploadsAtFrame ==
  ASSUME UploadsRun, pc = "frame", fences' \subseteq fences,
         \A i \in DOMAIN pending'["graphics"] :
           \/ i \in DOMAIN pending["graphics"] /\ pending'["graphics"][i] = pending["graphics"][i]
           \/ ~Uploads(pending'["graphics"][i])
  PROVE  UploadsRun'
  BY DEF UploadsRun, Uploads

\* The oldest operation of a queue completes.
LEMMA UploadsAtDevice ==
  ASSUME Types, SyncInv, UploadsRun, ListsAtRest, NEW q \in DeviceQueues, DeviceStep(q)
  PROVE  UploadsRun' /\ ListsAtRest'
<1>0. "graphics" \in DeviceQueues
  BY DEF DeviceQueues
<1>1. /\ pending \in [DeviceQueues -> Seq(Operations)] /\ pending[q] # <<>>
      /\ pending' = [pending EXCEPT ![q] = Tail(@)]
      /\ UNCHANGED <<pc, lists>>
  BY DEF DeviceStep, Complete, CanComplete, contextVars, Types
<1>2. PICK op : op = pending[q][1]
  OBVIOUS
<1>3. /\ 1 \in DOMAIN pending[q] /\ op = Head(pending[q])
      /\ \A r \in DeviceQueues : \A i \in DOMAIN pending'[r] :
           \E j \in DOMAIN pending[r] :
             /\ pending'[r][i] = pending[r][j] /\ ~(r = q /\ j = 1)
             /\ i \in Nat /\ j = IF r = q THEN i + 1 ELSE i
  BY <1>1, <1>2, MovedUp
<1>4. fences' = fences \cup ({op.fence} \ {NoFence})
  BY <1>3 DEF DeviceStep, Complete
<1>5. ListsAtRest'
  <2> SUFFICES ASSUME NEW r \in DeviceQueues, NEW i \in DOMAIN pending'[r], NEW f \in Frames,
                      NEW k \in ListQueues, pending'[r][i].uses.list = <<f, k>>
               PROVE  lists'[f][k] = "executable"
    BY DEF ListsAtRest
  <2>1. PICK j \in DOMAIN pending[r] : pending'[r][i] = pending[r][j]
    BY <1>3
  <2> QED BY <1>1, <2>1 DEF ListsAtRest
<1>6. Uploads(op) => q = "graphics"
  <2>1. Legal(q, op)
    BY <1>2, <1>3 DEF SyncInv, OperationsLegal
  <2>2. Uploads(op) => UploadForm(q, op)
    BY <2>1, Recognised
  <2> QED BY <2>2 DEF UploadForm
<1>7. UploadFence \in fences' => UploadFence \in fences \/ Uploads(op)
  BY <1>4 DEF Uploads
<1>8. Uploads(op) => pc = "upload"
  BY <1>2, <1>3, <1>6 DEF UploadsRun
<1>9. ASSUME NEW i \in DOMAIN pending'["graphics"], Uploads(pending'["graphics"][i])
      PROVE  /\ pc = "upload" /\ UploadFence \notin fences'
             /\ \A j \in DOMAIN pending'["graphics"] : Uploads(pending'["graphics"][j]) => j = i
  <2>1. PICK l \in DOMAIN pending["graphics"] :
          /\ pending'["graphics"][i] = pending["graphics"][l] /\ ~("graphics" = q /\ l = 1)
          /\ i \in Nat /\ l = IF "graphics" = q THEN i + 1 ELSE i
    BY <1>0, <1>3
  <2>2. /\ pc = "upload" /\ UploadFence \notin fences
        /\ \A j \in DOMAIN pending["graphics"] : Uploads(pending["graphics"][j]) => j = l
    BY <1>9, <2>1 DEF UploadsRun, Uploads
  <2>3. ~Uploads(op)
    BY <1>2, <1>3, <1>6, <2>1, <2>2
  <2>4. ASSUME NEW j \in DOMAIN pending'["graphics"], Uploads(pending'["graphics"][j])
        PROVE  j = i
    <3>1. PICK m \in DOMAIN pending["graphics"] :
            /\ pending'["graphics"][j] = pending["graphics"][m]
            /\ j \in Nat /\ m = IF "graphics" = q THEN j + 1 ELSE j
      BY <1>0, <1>3
    <3>2. m = l
      BY <2>2, <2>4, <3>1 DEF Uploads
    <3> QED BY <2>1, <3>1, <3>2
  <2> QED BY <1>7, <2>2, <2>3, <2>4
<1>10. UploadsRun'
  BY <1>1, <1>7, <1>8, <1>9 DEF UploadsRun, Uploads
<1> QED BY <1>5, <1>10

\* Every step keeps uploads and lists so.
LEMMA UploadsKept ==
  ASSUME Types, SyncInv, Phases, UploadsRun, ListsAtRest, [Next]_vars
  PROVE  UploadsRun' /\ ListsAtRest'
<1>0. /\ "graphics" \in DeviceQueues /\ "graphics" \in ListQueues /\ "compute" \in ListQueues
      /\ "compute" \in DeviceQueues
      /\ lists \in [Frames -> [ListQueues -> {"initial", "recording", "executable"}]]
      /\ current_frame \in Frames
  BY DEF DeviceQueues, ListQueues, Types, TypeOK
<1>1. CASE Initialize \/ Initialized \/ TornDown
  BY <1>1, UploadsAtReset
<1>2. CASE \/ InitializeDevice \/ InitializeFails \/ ShutdownIdle \/ Teardown \/ BeginFrame
           \/ AcquireFails \/ AcquireOutOfDate \/ Resize \/ Recreate \/ RecreateFails \/ UploadDone
           \/ RendererInitialize \/ RendererInitializeFails \/ RendererBeginFrame
           \/ RendererShutdown \/ Quit \/ (\E image \in Images : Acquire(image)) \/ UNCHANGED vars
  <2> USE DEF contextVars, initVars, deviceVars, swapChainVars
  <2>1. CASE \/ InitializeDevice \/ InitializeFails \/ ShutdownIdle \/ Teardown \/ BeginFrame
             \/ AcquireFails \/ AcquireOutOfDate \/ Resize
    <3>1. UNCHANGED <<pending, fences, lists>> /\ pc # "upload"
      BY <2>1 DEF InitializeDevice, InitializeFails, ShutdownIdle, Teardown, BeginFrame,
                  AcquireFails, AcquireOutOfDate, Resize
    <3> QED BY <3>1, UploadsAtRest DEF ListsAtRest
  <2>2. CASE Recreate \/ RecreateFails \/ \E image \in Images : Acquire(image)
    <3>1. UNCHANGED <<pending, fences, lists>> /\ pc # "upload"
      BY <2>2 DEF Recreate, RecreateFails, CreateSwapChain, CreateSwapChainFails, Acquire,
                  AcquireNextImage
    <3> QED BY <3>1, UploadsAtRest DEF ListsAtRest
  <2>3. CASE UploadDone
    <3>1. UNCHANGED <<pending, lists>> /\ fences' \subseteq fences
      BY <2>3 DEF UploadDone
    <3> QED BY <2>3, <3>1, UploadsAtRest DEF ListsAtRest
  <2>4. CASE \/ RendererInitialize \/ RendererInitializeFails \/ RendererBeginFrame
             \/ RendererShutdown \/ Quit
    <3>1. UNCHANGED <<pending, fences, lists>> /\ pc # "upload"
      BY <2>4 DEF RendererInitialize, RendererInitializeFails, RendererBeginFrame,
                  RendererShutdown, Quit
    <3> QED BY <3>1, UploadsAtRest DEF ListsAtRest
  <2>5. CASE UNCHANGED vars
    <3>1. UNCHANGED <<pending, fences, lists, pc>>
      BY <2>5 DEF vars
    <3> QED BY <3>1, UploadsAtRest DEF ListsAtRest
  <2> QED BY <1>2, <2>1, <2>2, <2>3, <2>4, <2>5
<1>3. CASE RendererRecord
  <2>1. /\ pending' = pending /\ fences' = fences /\ pc = "frame" /\ pc' = pc
        /\ lists[current_frame]["graphics"] = "initial"
        /\ \A f \in Frames, k \in ListQueues :
             lists'[f][k] = lists[f][k] \/ lists[f][k] = "initial"
    BY <1>0, <1>3 DEF RendererRecord, ListBecomes, deviceVars
  <2>2. UploadsRun'
    BY <2>1, UploadsAtRest
  <2> QED BY <2>1, <2>2 DEF ListsAtRest
<1>4. CASE ReuseFrame
  <2>1. /\ pending' = pending /\ fences' \subseteq fences /\ pc = "wait"
        /\ FrameFence(current_frame) \in fences
        /\ \A f \in Frames : f # current_frame => lists'[f] = lists[f]
    BY <1>0, <1>4 DEF ReuseFrame, FrameFenceSignalled
  <2>2. UploadsRun'
    BY <2>1, UploadsAtRest
  <2> SUFFICES ASSUME NEW q \in DeviceQueues, NEW i \in DOMAIN pending[q], NEW f \in Frames,
                      NEW k \in ListQueues, pending[q][i].uses.list = <<f, k>>
               PROVE  lists'[f][k] = "executable"
    BY <2>1, <2>2 DEF ListsAtRest
  <2>3. lists[f][k] = "executable"
    BY DEF ListsAtRest
  <2>4. OfFrame(pending[q][i], f)
    BY PairsDiffer DEF OfFrame
  <2>5. f # current_frame
    BY <2>1, <2>4 DEF SyncInv, FenceMeansDone
  <2> QED BY <2>1, <2>3, <2>5
<1>5. CASE SubmitCompute \/ SubmitComputeWithFence \/ RendererSubmit
  <2>1. PICK q \in ListQueues :
          /\ ListBecomes(q, "executable")
          /\ Quiet \/ \E op : \E k \in Nat : Submits(q, op, k)
    <3>1. CASE SubmitCompute \/ SubmitComputeWithFence
      BY <1>0, <3>1, ComputeSteps DEF SubmitCompute, SubmitComputeWithFence
    <3>2. CASE RendererSubmit
      BY <1>0, <3>2, DrawSteps DEF RendererSubmit
    <3> QED BY <1>5, <3>1, <3>2
  <2>2. /\ lists'[current_frame][q] = "executable"
        /\ \A f \in Frames, k \in ListQueues : lists[f][k] = "executable" => lists'[f][k] = "executable"
    BY <1>0, <2>1 DEF ListBecomes
  <2>3. pc = "frame" /\ pc' = pc
    BY <1>5 DEF SubmitCompute, SubmitComputeWithFence, RendererSubmit
  <2>4. CASE Quiet
    <3>1. pending' = pending /\ fences' \subseteq fences
      BY <2>4 DEF Quiet
    <3>2. UploadsRun'
      BY <2>3, <3>1, UploadsAtRest
    <3> QED BY <2>2, <3>1, <3>2 DEF ListsAtRest
  <2>5. ASSUME NEW op, NEW k \in Nat, Submits(q, op, k)
        PROVE  UploadsRun' /\ ListsAtRest'
    <3>1. q \in DeviceQueues
      BY DEF ListQueues, DeviceQueues
    <3>2. /\ SubmissionForm(q, op, current_frame, frame.last + 1)
          /\ frame.last + 1 \in 1 .. kMaxSubmittedCommandLists
          /\ fences' \subseteq fences
          /\ \A r \in DeviceQueues : \A i \in DOMAIN pending[r] :
               i \in DOMAIN pending'[r] /\ pending'[r][i] = pending[r][i]
          /\ pending'[q][k + 1] = op
          /\ \A r \in DeviceQueues : \A i \in DOMAIN pending'[r] :
               \/ i \in DOMAIN pending[r]
               \/ r = q /\ i = k + 1
               \/ r = q /\ i = k + 2 /\ ForwardForm(q, pending'[q][k + 2], current_frame)
      BY <2>5 DEF Submits
    <3>3. op.uses.list = <<current_frame, q>> /\ ~Uploads(op)
      <4>1. ~Uploads(op)
        BY <1>0, <3>1, <3>2, SubmissionFacts
      <4> QED BY <3>2, <4>1 DEF SubmissionForm
    <3>4. \A o : ForwardForm(q, o, current_frame) => ~Uploads(o) /\ o.uses.list = NoList
      BY <1>0, <3>1, ForwardFacts DEF ForwardForm, Nothing
    <3>5. UploadsRun'
      BY <1>0, <2>3, <3>2, <3>3, <3>4, UploadsAtFrame
    <3>6. ListsAtRest'
      <4> SUFFICES ASSUME NEW r \in DeviceQueues, NEW i \in DOMAIN pending'[r], NEW f \in Frames,
                          NEW l \in ListQueues, pending'[r][i].uses.list = <<f, l>>
                   PROVE  lists'[f][l] = "executable"
        BY DEF ListsAtRest
      <4>1. CASE i \in DOMAIN pending[r]
        BY <2>2, <3>2, <4>1 DEF ListsAtRest
      <4>2. CASE r = q /\ i = k + 1
        <5>1. f = current_frame /\ l = q
          BY <3>2, <3>3, <4>2, PairsDiffer
        <5> QED BY <2>2, <5>1
      <4>3. CASE r = q /\ i = k + 2 /\ ForwardForm(q, pending'[q][k + 2], current_frame)
        BY <3>4, <4>3, PairsDiffer
      <4> QED BY <3>2, <4>1, <4>2, <4>3
    <3> QED BY <3>5, <3>6
  <2> QED BY <2>1, <2>4, <2>5
<1>6. CASE Present
  <2>1. PICK op, k, p : k \in Nat /\ p \in Nat /\ ClosesFrame(op, k, p)
    BY <1>6, PresentCloses
  <2>2. lists' = lists /\ pc = "frame" /\ fences' = fences
    BY <1>6 DEF Present
  <2>3. /\ ClosingForm("graphics", op, current_frame)
        /\ \A r \in DeviceQueues : \A i \in DOMAIN pending[r] :
             i \in DOMAIN pending'[r] /\ pending'[r][i] = pending[r][i]
        /\ pending'["graphics"][k + 1] = op
        /\ \A r \in DeviceQueues : \A i \in DOMAIN pending'[r] :
             \/ i \in DOMAIN pending[r]
             \/ r = "graphics" /\ i = k + 1
             \/ r = "present" /\ PresentForm("present", pending'["present"][i], current_image)
    BY <2>1 DEF ClosesFrame
  <2>4. ~Uploads(op) /\ op.uses.list = NoList
    <3>1. ~Uploads(op)
      BY <1>0, <2>3, ClosingFacts
    <3> QED BY <2>3, <3>1 DEF ClosingForm, Nothing
  <2>5. \A o : PresentForm("present", o, current_image) => o.uses.list = NoList
    BY DEF PresentForm, Nothing
  <2>6. UploadsRun'
    BY <1>0, <2>2, <2>3, <2>4, UploadsAtFrame
  <2>7. ListsAtRest'
    <3> SUFFICES ASSUME NEW r \in DeviceQueues, NEW i \in DOMAIN pending'[r], NEW f \in Frames,
                        NEW l \in ListQueues, pending'[r][i].uses.list = <<f, l>>
                 PROVE  lists'[f][l] = "executable"
      BY DEF ListsAtRest
    <3>1. i \in DOMAIN pending[r]
      BY <2>3, <2>4, <2>5, PairsDiffer
    <3> QED BY <2>2, <2>3, <3>1 DEF ListsAtRest
  <2> QED BY <2>6, <2>7
<1>7. CASE Upload
  <2>1. PICK op, k : k \in Nat /\ UploadBegins(op, k)
    BY <1>7, UploadForms
  <2>2. lists' = lists /\ pc # "upload" /\ pc' = "upload" /\ fences' = fences
    BY <1>7 DEF Upload
  <2>3. /\ UploadForm("graphics", op)
        /\ \A r \in DeviceQueues : \A i \in DOMAIN pending[r] :
             i \in DOMAIN pending'[r] /\ pending'[r][i] = pending[r][i]
        /\ pending'["graphics"][k + 1] = op
        /\ \A r \in DeviceQueues : \A i \in DOMAIN pending'[r] :
             i \in DOMAIN pending[r] \/ (r = "graphics" /\ i = k + 1)
    BY <2>1 DEF UploadBegins
  <2>4. op.uses.list = NoList
    BY <2>3 DEF UploadForm, Nothing
  <2>5. ListsAtRest'
    <3> SUFFICES ASSUME NEW r \in DeviceQueues, NEW i \in DOMAIN pending'[r], NEW f \in Frames,
                        NEW l \in ListQueues, pending'[r][i].uses.list = <<f, l>>
                 PROVE  lists'[f][l] = "executable"
      BY DEF ListsAtRest
    <3>1. i \in DOMAIN pending[r]
      BY <2>3, <2>4, PairsDiffer
    <3> QED BY <2>2, <2>3, <3>1 DEF ListsAtRest
  <2>6. \A i \in DOMAIN pending'["graphics"] : Uploads(pending'["graphics"][i]) => i = k + 1
    BY <1>0, <2>2, <2>3 DEF UploadsRun
  <2>7. UploadsRun'
    BY <2>2, <2>6 DEF UploadsRun, Uploads
  <2> QED BY <2>5, <2>7
<1>8. CASE \E q \in DeviceQueues : DeviceStep(q)
  BY <1>8, UploadsAtDevice
<1> QED BY <1>1, <1>2, <1>3, <1>4, <1>5, <1>6, <1>7, <1>8, NextForms, Zenon DEF ContextStep

-----------------------------------------------------------------------------
(* Handles: who owns those that are valid, and who guards those in use.    *)

\* The handles that the renderer keeps, and the staging buffer of an upload.
Kept == {resources, hdr, staging} \ {NullHandle}

\* What the renderer and an upload keep and what is deferred is valid, and each handle is there once.
HandlesOwned ==
  /\ MapSound(slots)
  /\ pc # "teardown" =>
       /\ \A h \in Kept : IsValid(slots, h)
       /\ \A f \in Frames : \A i \in DOMAIN deferred[f] :
            IsValid(slots, deferred[f][i]) /\ deferred[f][i] \notin Kept
       /\ resources # NullHandle => resources # hdr /\ resources # staging
       /\ \A f, g \in Frames : \A i \in DOMAIN deferred[f], j \in DOMAIN deferred[g] :
            deferred[f][i] = deferred[g][j] => f = g /\ i = j

\* Handles are let go, none is destroyed.
LEMMA OwnedLess ==
  ASSUME HandlesOwned, pc # "teardown" \/ pc' = "teardown", slots' = slots, deferred' = deferred,
         Kept' \subseteq Kept, resources' # NullHandle => resources' # hdr' /\ resources' # staging'
  PROVE  HandlesOwned'
  BY DEF HandlesOwned

\* A handle is allocated and kept.
LEMMA OwnedMore ==
  ASSUME HandlesOwned, pc # "teardown", slots' = Allocate(slots), deferred' = deferred,
         Kept' \subseteq Kept \cup ({NextHandle(slots)} \ {NullHandle}),
         resources' # NullHandle => resources' # hdr' /\ resources' # staging'
  PROVE  HandlesOwned'
<1>1. MapSound(slots)
  BY DEF HandlesOwned
<1>2. PICK new : new = NextHandle(slots)
  OBVIOUS
<1>3. /\ MapSound(slots') /\ (new # NullHandle => IsValid(slots', new))
      /\ \A h : IsValid(slots, h) => IsValid(slots', h) /\ h # new
  BY <1>1, <1>2, AllocateSound
<1>4. \A h \in Kept' : IsValid(slots', h)
  BY <1>2, <1>3 DEF HandlesOwned
<1>5. \A f \in Frames : \A i \in DOMAIN deferred[f] :
        IsValid(slots', deferred[f][i]) /\ deferred[f][i] \notin Kept'
  BY <1>2, <1>3 DEF HandlesOwned
<1>6. \A f, g \in Frames : \A i \in DOMAIN deferred[f], j \in DOMAIN deferred[g] :
        deferred[f][i] = deferred[g][j] => f = g /\ i = j
  BY DEF HandlesOwned
<1> QED BY <1>3, <1>4, <1>5, <1>6 DEF HandlesOwned

\* What becomes of the list of the current frame when a handle is deferred.
LEMMA DeferPlaces ==
  ASSUME Types, NEW h \in Handles, h # NullHandle, deferred' = Defer(h)
  PROVE  \E n \in Nat :
           /\ DOMAIN deferred[current_frame] = 1 .. n
           /\ DOMAIN deferred'[current_frame] = 1 .. n + 1
           /\ \A i \in 1 .. n : deferred'[current_frame][i] = deferred[current_frame][i]
           /\ deferred'[current_frame][n + 1] = h
           /\ \A f \in Frames : f # current_frame => deferred'[f] = deferred[f]
<1>1. current_frame \in Frames /\ deferred \in [Frames -> Seq(Handles)]
      /\ deferred[current_frame] \in Seq(Handles)
  BY DEF Types, TypeOK
<1>2. deferred' = [deferred EXCEPT ![current_frame] = Append(deferred[current_frame], h)]
  BY DEF Defer
<1>3. deferred'[current_frame] = Append(deferred[current_frame], h)
      /\ \A f \in Frames : f # current_frame => deferred'[f] = deferred[f]
  BY <1>1, <1>2
<1>4. PICK n \in Nat :
        /\ DOMAIN deferred[current_frame] = 1 .. n
        /\ DOMAIN Append(deferred[current_frame], h) = 1 .. n + 1
        /\ \A i \in 1 .. n : Append(deferred[current_frame], h)[i] = deferred[current_frame][i]
        /\ Append(deferred[current_frame], h)[n + 1] = h
  BY <1>1, AppendPlaces
<1> QED BY <1>3, <1>4

\* The same without the numbers.
LEMMA DeferKeeps ==
  ASSUME Types, NEW h \in Handles, h # NullHandle, deferred' = Defer(h)
  PROVE  /\ \A f \in Frames : \A i \in DOMAIN deferred[f] :
              i \in DOMAIN deferred'[f] /\ deferred'[f][i] = deferred[f][i]
         /\ \E l \in DOMAIN deferred'[current_frame] :
              /\ deferred'[current_frame][l] = h
              /\ \A f \in Frames : \A i \in DOMAIN deferred'[f] :
                   i \in DOMAIN deferred[f] \/ (f = current_frame /\ i = l)
<1>1. PICK n \in Nat :
        /\ DOMAIN deferred[current_frame] = 1 .. n
        /\ DOMAIN deferred'[current_frame] = 1 .. n + 1
        /\ \A i \in 1 .. n : deferred'[current_frame][i] = deferred[current_frame][i]
        /\ deferred'[current_frame][n + 1] = h
        /\ \A f \in Frames : f # current_frame => deferred'[f] = deferred[f]
  BY DeferPlaces
<1>2. /\ n + 1 \in 1 .. n + 1 /\ \A i \in 1 .. n : i \in 1 .. n + 1
      /\ \A i \in 1 .. n + 1 : i \in 1 .. n \/ i = n + 1
  OBVIOUS
<1> QED BY <1>1, <1>2

\* A handle is deferred that is valid and is deferred only once.
LEMMA OwnedDeferred ==
  ASSUME Types, HandlesOwned, pc # "teardown", NEW h \in Handles, h # NullHandle, deferred' = Defer(h),
         MapSound(slots'), \A g : IsValid(slots, g) => IsValid(slots', g), IsValid(slots', h),
         \A f \in Frames : \A i \in DOMAIN deferred[f] : deferred[f][i] # h,
         Kept' \subseteq Kept, h \notin Kept',
         resources' # NullHandle => resources' # hdr' /\ resources' # staging'
  PROVE  HandlesOwned'
<1>1. /\ \A f \in Frames : \A i \in DOMAIN deferred[f] : deferred'[f][i] = deferred[f][i]
      /\ \E l \in DOMAIN deferred'[current_frame] :
           /\ deferred'[current_frame][l] = h
           /\ \A f \in Frames : \A i \in DOMAIN deferred'[f] :
                i \in DOMAIN deferred[f] \/ (f = current_frame /\ i = l)
  BY DeferKeeps
<1>2. PICK l : /\ deferred'[current_frame][l] = h
               /\ \A f \in Frames : \A i \in DOMAIN deferred'[f] :
                    i \in DOMAIN deferred[f] \/ (f = current_frame /\ i = l)
  BY <1>1
<1>3. \A k \in Kept' : IsValid(slots', k)
  BY DEF HandlesOwned
<1>4. ASSUME NEW f \in Frames, NEW i \in DOMAIN deferred'[f]
      PROVE  IsValid(slots', deferred'[f][i]) /\ deferred'[f][i] \notin Kept'
  <2>1. CASE i \in DOMAIN deferred[f]
    BY <1>1, <2>1 DEF HandlesOwned
  <2>2. CASE f = current_frame /\ i = l
    BY <1>2, <2>2
  <2> QED BY <1>2, <2>1, <2>2
<1>5. ASSUME NEW f \in Frames, NEW g \in Frames, NEW i \in DOMAIN deferred'[f],
             NEW j \in DOMAIN deferred'[g], deferred'[f][i] = deferred'[g][j]
      PROVE  f = g /\ i = j
  <2>1. CASE i \in DOMAIN deferred[f] /\ j \in DOMAIN deferred[g]
    BY <1>1, <1>5, <2>1 DEF HandlesOwned
  <2>2. CASE f = current_frame /\ i = l /\ g = current_frame /\ j = l
    BY <2>2
  <2>3. CASE i \in DOMAIN deferred[f] /\ g = current_frame /\ j = l
    BY <1>1, <1>2, <1>5, <2>3
  <2>4. CASE f = current_frame /\ i = l /\ j \in DOMAIN deferred[g]
    BY <1>1, <1>2, <1>5, <2>4
  <2> QED BY <1>2, <2>1, <2>2, <2>3, <2>4
<1> QED BY <1>3, <1>4, <1>5 DEF HandlesOwned

\* BeginFrame destroys what was deferred in the frame, and nothing else.
LEMMA OwnedAtReuse ==
  ASSUME Types, HandlesOwned, ReuseFrame, UNCHANGED rendererVars
  PROVE  /\ HandlesOwned'
         /\ \A f \in Frames : f # current_frame => deferred'[f] = deferred[f]
<1>1. /\ slots' = DestroyInTurn(slots, deferred[current_frame])
      /\ deferred' = [deferred EXCEPT ![current_frame] = <<>>]
      /\ UNCHANGED <<resources, hdr, staging>> /\ pc = "wait" /\ pc' # "teardown"
      /\ current_frame \in Frames /\ deferred \in [Frames -> Seq(Handles)]
      /\ deferred[current_frame] \in Seq(Handles)
      /\ resources \in Handles /\ hdr \in Handles /\ staging \in Handles
  BY DEF ReuseFrame, ProcessDeferredDestroy, rendererVars, Types, TypeOK
<1>2. deferred'[current_frame] = <<>> /\ \A f \in Frames : f # current_frame => deferred'[f] = deferred[f]
  BY <1>1
<1>3. PICK others :
        others = Kept \cup {h \in Handles : \E f \in Frames \ {current_frame} :
                                              \E i \in DOMAIN deferred[f] : h = deferred[f][i]}
  OBVIOUS
<1>4. others \in SUBSET Handles
  BY <1>1, <1>3 DEF Kept
<1>5. ASSUME NEW h \in others
      PROVE  IsValid(slots, h) /\ \A i \in DOMAIN deferred[current_frame] : deferred[current_frame][i] # h
  <2>1. CASE h \in Kept
    BY <1>1, <2>1 DEF HandlesOwned
  <2>2. CASE \E f \in Frames \ {current_frame} : \E i \in DOMAIN deferred[f] : h = deferred[f][i]
    BY <1>1, <2>2 DEF HandlesOwned
  <2> QED BY <1>3, <2>1, <2>2
<1>6. MapSound(slots') /\ \A h \in others : IsValid(slots', h)
  <2>1. MapSound(slots)
    BY DEF HandlesOwned
  <2> QED BY <1>1, <1>4, <1>5, <2>1, InTurnSound
<1>7. Kept' = Kept
  BY <1>1 DEF Kept
<1>8. \A h \in Kept : IsValid(slots', h)
  BY <1>3, <1>6
<1>9. ASSUME NEW f \in Frames, NEW i \in DOMAIN deferred'[f]
      PROVE  /\ f # current_frame /\ i \in DOMAIN deferred[f] /\ deferred'[f][i] = deferred[f][i]
             /\ IsValid(slots', deferred'[f][i]) /\ deferred'[f][i] \notin Kept
  <2>1. f # current_frame /\ i \in DOMAIN deferred[f] /\ deferred'[f][i] = deferred[f][i]
    BY <1>2
  <2>2. deferred[f][i] \in Handles
    <3>1. deferred[f] \in Seq(Handles)
      BY <1>1
    <3> QED BY <2>1, <3>1, LenProperties
  <2>3. deferred[f][i] \in others
    BY <1>3, <2>1, <2>2
  <2> QED BY <1>1, <1>6, <2>1, <2>3 DEF HandlesOwned
<1>10. \A f, g \in Frames : \A i \in DOMAIN deferred'[f], j \in DOMAIN deferred'[g] :
         deferred'[f][i] = deferred'[g][j] => f = g /\ i = j
  BY <1>1, <1>9 DEF HandlesOwned
<1>11. resources' # NullHandle => resources' # hdr' /\ resources' # staging'
  BY <1>1 DEF HandlesOwned
<1> QED BY <1>2, <1>6, <1>7, <1>8, <1>9, <1>10, <1>11 DEF HandlesOwned

\* The staging buffer is destroyed.
LEMMA OwnedAtUploadDone ==
  ASSUME Types, Phases, HandlesOwned, UploadDone, UNCHANGED rendererVars
  PROVE  HandlesOwned'
<1>1. /\ slots' = DestroyHandle(slots, staging) /\ staging' = NullHandle
      /\ UNCHANGED <<resources, hdr, deferred>> /\ pc = "upload"
      /\ resources \in Handles /\ hdr \in Handles /\ staging \in Handles
      /\ deferred \in [Frames -> Seq(Handles)]
  BY DEF UploadDone, rendererVars, Types, TypeOK
<1>2. staging # NullHandle /\ hdr = NullHandle
  BY <1>1 DEF Phases
<1>3. MapSound(slots)
  BY DEF HandlesOwned
<1>4. MapSound(slots') /\ \A g \in Handles : IsValid(slots, g) /\ g # staging => IsValid(slots', g)
  BY <1>1, <1>3, DestroySound
<1>5. Kept' \subseteq Kept \cap Handles /\ staging \notin Kept' /\ staging \in Kept
  <2>1. staging \notin Kept'
    BY <1>1, <1>2 DEF Kept, HandlesOwned
  <2> QED BY <1>1, <1>2, <2>1 DEF Kept
<1>6. \A h \in Kept' : IsValid(slots', h)
  BY <1>1, <1>4, <1>5 DEF HandlesOwned
<1>7. ASSUME NEW f \in Frames, NEW i \in DOMAIN deferred[f]
      PROVE  IsValid(slots', deferred[f][i]) /\ deferred[f][i] \notin Kept'
  <2>1. deferred[f][i] \in Handles
    <3>1. deferred[f] \in Seq(Handles)
      BY <1>1
    <3> QED BY <3>1, LenProperties
  <2> QED BY <1>1, <1>4, <1>5, <2>1 DEF HandlesOwned
<1>8. \A f, g \in Frames : \A i \in DOMAIN deferred[f], j \in DOMAIN deferred[g] :
        deferred[f][i] = deferred[g][j] => f = g /\ i = j
  BY <1>1 DEF HandlesOwned
<1>9. resources' # NullHandle => resources' # hdr' /\ resources' # staging'
  BY <1>1, <1>2
<1> QED BY <1>1, <1>4, <1>6, <1>7, <1>8, <1>9 DEF HandlesOwned

\* A context that is not initialised.
LEMMA OwnedAtReset ==
  ASSUME slots' = EmptyMap, staging' = NullHandle, deferred' = [f \in Frames |-> <<>>],
         resources' = NullHandle, hdr' = NullHandle
  PROVE  HandlesOwned'
<1>1. MapSound(slots') /\ Kept' = {} /\ \A f \in Frames : DOMAIN deferred'[f] = {}
  BY EmptySound DEF Kept
<1> QED BY <1>1 DEF HandlesOwned

\* Every step keeps handles owned.
LEMMA OwnedKept ==
  ASSUME Types, Phases, HandlesOwned, [Next]_vars
  PROVE  HandlesOwned'
<1>0. /\ resources \in Handles /\ hdr \in Handles /\ staging \in Handles /\ slots \in SlotMaps
      /\ MapSound(slots)
  BY DEF Types, TypeOK, HandlesOwned
<1>1. PICK new : new = NextHandle(slots)
  OBVIOUS
<1>2. /\ new \in Handles /\ MapSound(Allocate(slots))
      /\ new # NullHandle => IsValid(Allocate(slots), new)
      /\ \A h : IsValid(slots, h) => IsValid(Allocate(slots), h) /\ h # new
  BY <1>0, <1>1, AllocateSound
<1>3. CASE ContextStep /\ Outside /\ UNCHANGED rendererVars
  <2>0. UNCHANGED <<renderer, resources, hdr>> /\ renderer # "recording" /\ hdr = NullHandle
    BY <1>3 DEF Outside, rendererVars, Phases
  <2>1. CASE Initialize \/ TornDown
    <3>1. resources = NullHandle
      BY <2>1 DEF Initialize, TornDown, Phases, NotAlive
    <3> QED BY <2>0, <2>1, <3>1, OwnedAtReset DEF Initialize, TornDown, Fresh
  <2>2. CASE \/ InitializeDevice \/ InitializeFails \/ Initialized \/ Teardown \/ BeginFrame
             \/ AcquireFails \/ AcquireOutOfDate \/ Resize \/ Recreate \/ RecreateFails
             \/ \E image \in Images : Acquire(image)
    <3>1. UNCHANGED <<slots, deferred, staging>> /\ (pc # "teardown" \/ pc' = "teardown")
      BY <2>2 DEF InitializeDevice, InitializeFails, Initialized, Teardown, BeginFrame, contextVars,
                  AcquireFails, AcquireOutOfDate, Resize, Recreate, RecreateFails, Acquire
    <3>2. Kept' = Kept
      BY <2>0, <3>1 DEF Kept
    <3>3. pc # "teardown" => (resources' # NullHandle => resources' # hdr' /\ resources' # staging')
      BY <2>0, <3>1 DEF HandlesOwned
    <3>4. pc = "teardown" => resources' = NullHandle
      BY <2>0 DEF Phases, NotAlive
    <3> QED BY <3>1, <3>2, <3>3, <3>4, OwnedLess
  <2>3. CASE Present \/ SubmitCompute \/ SubmitComputeWithFence
    <3>1. UNCHANGED <<slots, deferred, staging>> /\ pc # "teardown"
      BY <2>3 DEF Present, SubmitCompute, SubmitComputeWithFence
    <3>2. Kept' = Kept
      BY <2>0, <3>1 DEF Kept
    <3>3. resources' # NullHandle => resources' # hdr' /\ resources' # staging'
      BY <2>0, <3>1 DEF HandlesOwned
    <3> QED BY <3>1, <3>2, <3>3, OwnedLess
  <2>4. CASE ShutdownIdle
    <3>1. MapSound(slots') /\ pc' = "teardown"
      BY <1>0, <2>4, EmptySound DEF ShutdownIdle
    <3> QED BY <3>1 DEF HandlesOwned
  <2>5. CASE ReuseFrame
    BY <1>3, <2>5, OwnedAtReuse
  <2>6. CASE UploadDone
    BY <1>3, <2>6, OwnedAtUploadDone
  <2>7. CASE Upload
    <3>1. slots' = Allocate(slots) /\ deferred' = deferred /\ staging' = new /\ pc # "teardown"
          /\ new # NullHandle
      BY <1>1, <2>7 DEF Upload, CreateResource, CanCreateResource
    <3>2. Kept' \subseteq Kept \cup ({NextHandle(slots)} \ {NullHandle})
      BY <1>1, <2>0, <3>1 DEF Kept
    <3>3. resources # NullHandle => resources # new
      <4>1. resources # NullHandle => IsValid(slots, resources)
        BY <3>1 DEF HandlesOwned, Kept
      <4> QED BY <1>2, <4>1
    <3> QED BY <2>0, <3>1, <3>2, <3>3, OwnedMore
  <2> QED BY <1>3, <2>1, <2>2, <2>3, <2>4, <2>5, <2>6, <2>7, Zenon DEF ContextStep
<1>4. CASE RendererInitialize
  <2>1. /\ slots' = Allocate(slots) /\ deferred' = deferred /\ staging' = staging /\ hdr' = hdr
        /\ resources' = new /\ new # NullHandle /\ pc = "idle" /\ renderer = "off"
    BY <1>1, <1>4 DEF RendererInitialize, CreateResource, CanCreateResource
  <2>2. staging = NullHandle /\ hdr = NullHandle /\ resources = NullHandle
    BY <2>1 DEF Phases
  <2>3. Kept' \subseteq Kept \cup ({NextHandle(slots)} \ {NullHandle})
    BY <1>1, <2>1, <2>2 DEF Kept
  <2> QED BY <2>1, <2>2, <2>3, OwnedMore
<1>5. CASE RendererInitializeFails
  <2>1. /\ slots' = Allocate(slots) /\ deferred' = Defer(new) /\ new # NullHandle /\ pc = "idle"
        /\ UNCHANGED <<resources, hdr, staging>>
    BY <1>1, <1>5 DEF RendererInitializeFails, CreateResource, CanCreateResource, rendererVars
  <2>2. Kept' = Kept
    BY <2>1 DEF Kept
  <2>3. new \notin Kept /\ \A f \in Frames : \A i \in DOMAIN deferred[f] : deferred[f][i] # new
    BY <1>2, <2>1 DEF HandlesOwned
  <2>4. resources' # NullHandle => resources' # hdr' /\ resources' # staging'
    BY <2>1 DEF HandlesOwned
  <2> QED BY <1>2, <2>1, <2>2, <2>3, <2>4, OwnedDeferred
<1>6. CASE RendererBeginFrame
  <2>1. UNCHANGED <<resources, hdr, staging, slots, deferred, pc>>
    BY <1>6 DEF RendererBeginFrame, contextVars
  <2>2. Kept' = Kept /\ pc # "teardown"
    BY <1>6, <2>1 DEF Kept, RendererBeginFrame
  <2>3. resources' # NullHandle => resources' # hdr' /\ resources' # staging'
    BY <2>1, <2>2 DEF HandlesOwned
  <2> QED BY <2>1, <2>2, <2>3, OwnedLess
<1>7. CASE RendererRecord
  <2>1. /\ slots' = Allocate(slots) /\ deferred' = deferred /\ staging' = staging /\ hdr' = new
        /\ resources' = resources /\ pc = "frame" /\ renderer = "started"
    BY <1>1, <1>7 DEF RendererRecord, CreateResource
  <2>2. staging = NullHandle /\ hdr = NullHandle
    BY <2>1 DEF Phases
  <2>3. Kept' \subseteq Kept \cup ({NextHandle(slots)} \ {NullHandle})
    BY <1>1, <2>1, <2>2 DEF Kept
  <2>4. resources # NullHandle => resources # new
    <3>1. resources # NullHandle => IsValid(slots, resources)
      BY <2>1 DEF HandlesOwned, Kept
    <3> QED BY <1>2, <3>1
  <2> QED BY <2>1, <2>2, <2>3, <2>4, OwnedMore
<1>8. CASE RendererSubmit
  <2>1. /\ slots' = slots /\ deferred' = Defer(hdr) /\ staging' = staging /\ hdr' = NullHandle
        /\ resources' = resources /\ pc = "frame"
    BY <1>8 DEF RendererSubmit
  <2>2. staging = NullHandle
    BY <2>1 DEF Phases
  <2>3. CASE hdr = NullHandle
    <3>1. deferred' = deferred /\ Kept' = Kept
      BY <2>1, <2>2, <2>3 DEF Defer, Kept
    <3> QED BY <2>1, <2>2, <3>1, OwnedLess
  <2>4. CASE hdr # NullHandle
    <3>1. hdr \in Kept /\ Kept' \subseteq Kept
      BY <2>1, <2>2, <2>4 DEF Kept
    <3>2. hdr \notin Kept'
      BY <2>1, <2>2, <2>4 DEF Kept, HandlesOwned
    <3>3. IsValid(slots, hdr) /\ \A f \in Frames : \A i \in DOMAIN deferred[f] : deferred[f][i] # hdr
      BY <2>1, <3>1 DEF HandlesOwned
    <3> QED BY <1>0, <2>1, <2>2, <2>4, <3>1, <3>2, <3>3, OwnedDeferred
  <2> QED BY <2>3, <2>4
<1>9. CASE RendererShutdown \/ Quit
  <2>1. /\ slots' = slots /\ deferred' = Defer(resources) /\ staging' = staging
        /\ resources' = NullHandle /\ hdr' = hdr /\ pc \in {"idle", "frame"}
        /\ renderer # "recording"
    BY <1>9 DEF RendererShutdown, Quit, RendererOff, Outside
  <2>2. staging = NullHandle /\ hdr = NullHandle
    BY <2>1 DEF Phases
  <2>3. CASE resources = NullHandle
    <3>1. deferred' = deferred /\ Kept' = Kept
      BY <2>1, <2>2, <2>3 DEF Defer, Kept
    <3> QED BY <2>1, <3>1, OwnedLess
  <2>4. CASE resources # NullHandle
    <3>1. resources \in Kept /\ Kept' = {}
      BY <2>1, <2>2, <2>4 DEF Kept
    <3>2. IsValid(slots, resources)
          /\ \A f \in Frames : \A i \in DOMAIN deferred[f] : deferred[f][i] # resources
      BY <2>1, <3>1 DEF HandlesOwned
    <3> QED BY <1>0, <2>1, <2>4, <3>1, <3>2, OwnedDeferred
  <2> QED BY <2>3, <2>4
<1>10. CASE (\E q \in DeviceQueues : DeviceStep(q)) \/ UNCHANGED vars
  <2>1. UNCHANGED <<resources, hdr, staging, slots, deferred, pc>>
    BY <1>10 DEF DeviceStep, vars, contextVars, rendererVars
  <2>2. Kept' = Kept
    BY <2>1 DEF Kept
  <2>3. pc # "teardown" => (resources' # NullHandle => resources' # hdr' /\ resources' # staging')
    BY <2>1 DEF HandlesOwned
  <2>4. pc = "teardown" => resources' = NullHandle
    BY <2>1 DEF Phases, NotAlive
  <2> QED BY <2>1, <2>2, <2>3, <2>4, OwnedLess
<1> QED BY <1>3, <1>4, <1>5, <1>6, <1>7, <1>8, <1>9, <1>10, NextForms, Zenon

\* A handle in use is not destroyed before the device is done: the fence of a frame signals later.
Guarded(k, f) ==
  \/ Unfinished /\ f = current_frame
  \/ \E j \in DOMAIN pending["graphics"] : k < j /\ Closes(pending["graphics"][j], f)

\* The k-th operation of the graphics queue uses h.
Used(k, h) ==
  \/ h = resources
  \/ h = staging /\ Uploads(pending["graphics"][k])
  \/ \E f \in Frames : Guarded(k, f) /\ \E i \in DOMAIN deferred[f] : h = deferred[f][i]

\* What the graphics queue uses is kept, or deferred to a frame that is not closed before.
HandlesUsed ==
  \A k \in DOMAIN pending["graphics"] : \A h \in pending["graphics"][k].uses.handles : Used(k, h)

\* Only the graphics queue uses handles, and slots of the renderer.
LEMMA UsesOf ==
  ASSUME NEW q \in DeviceQueues, NEW op, Legal(q, op)
  PROVE  /\ NullHandle \notin op.uses.handles
         /\ op.uses.handles # {} => q = "graphics"
         /\ op.uses.slot # NoSlot =>
              /\ q = "graphics" /\ op.uses.slot[1] \in op.uses.handles
              /\ \E f \in Frames : op.uses.list = <<f, "graphics">>
         /\ op.uses.image # NoImage => op.uses.image[1] = chain
<1>1. CASE \E f \in Frames, n \in 1 .. kMaxSubmittedCommandLists : SubmissionForm(q, op, f, n)
  BY <1>1 DEF SubmissionForm
<1>2. CASE \E f \in Frames : ClosingForm(q, op, f)
  BY <1>2 DEF ClosingForm, Nothing
<1>3. CASE UploadForm(q, op)
  BY <1>3 DEF UploadForm, Nothing
<1>4. CASE \E f \in Frames : ForwardForm(q, op, f)
  BY <1>4 DEF ForwardForm, Nothing
<1>5. CASE \E i \in Images : PresentForm(q, op, i)
  BY <1>5 DEF PresentForm, Nothing
<1> QED BY <1>1, <1>2, <1>3, <1>4, <1>5 DEF Legal

\* The graphics queue gains at most operations that use nothing.
GraphicsGrow ==
  /\ \A i \in DOMAIN pending["graphics"] :
       i \in DOMAIN pending'["graphics"] /\ pending'["graphics"][i] = pending["graphics"][i]
  /\ \A i \in DOMAIN pending'["graphics"] :
       \/ i \in DOMAIN pending["graphics"]
       \/ /\ pending'["graphics"][i].uses.handles = {}
          /\ pending'["graphics"][i].uses.slot = NoSlot

\* All steps of the context but an upload are like that, and those of the renderer but its submission.
LEMMA GraphicsGrows ==
  ASSUME Types, Phases, SyncInv, ContextStep \/ RendererSubmit, ~Upload,
         RendererSubmit => pending' = pending
  PROVE  GraphicsGrow
<1>0. "graphics" \in DeviceQueues
  BY DEF DeviceQueues
<1>1. CASE pending' = pending
  BY <1>1 DEF GraphicsGrow
<1>2. CASE Initialize \/ Initialized \/ TornDown
  <2>1. pending["graphics"] = <<>>
    BY <1>0, <1>2 DEF Initialize, Initialized, TornDown, NotAlive, Phases, Idle
  <2>2. pending'["graphics"] = <<>>
    BY <1>0, <1>2, <2>1 DEF Initialize, Initialized, TornDown, deviceVars
  <2> QED BY <2>1, <2>2 DEF GraphicsGrow
<1>3. CASE SubmitCompute \/ SubmitComputeWithFence
  <2>1. CASE Quiet
    BY <1>1, <2>1 DEF Quiet
  <2>2. ASSUME NEW op, NEW k \in Nat, Submits("compute", op, k) PROVE GraphicsGrow
    BY <1>0, <2>2 DEF Submits, GraphicsGrow
  <2> QED BY <1>3, <2>1, <2>2, ComputeSteps
<1>4. CASE Present
  <2>1. ASSUME NEW op, NEW k \in Nat, NEW p \in Nat, ClosesFrame(op, k, p) PROVE GraphicsGrow
    <3>1. op.uses.handles = {} /\ op.uses.slot = NoSlot
      BY <2>1 DEF ClosesFrame, ClosingForm, Nothing
    <3> QED BY <1>0, <2>1, <3>1 DEF ClosesFrame, GraphicsGrow
  <2> QED BY <1>4, <2>1, PresentCloses
<1>5. CASE \/ InitializeDevice \/ InitializeFails \/ ShutdownIdle \/ Teardown \/ BeginFrame
           \/ AcquireFails \/ AcquireOutOfDate \/ Resize \/ Recreate \/ RecreateFails \/ UploadDone
  <2>1. Quiet
    BY <1>5, QuietSteps
  <2> QED BY <1>1, <2>1 DEF Quiet
<1>6. CASE ReuseFrame \/ \E image \in Images : Acquire(image)
  BY <1>1, <1>6 DEF ReuseFrame, Acquire, AcquireNextImage
<1> QED BY <1>1, <1>2, <1>3, <1>4, <1>5, <1>6, Zenon DEF ContextStep

\* A handle stays in use, as long as it is kept or deferred and the guards are.
LEMMA UsedStays ==
  ASSUME Types, Types', NEW k \in DOMAIN pending["graphics"], NEW h, Used(k, h),
         \A i \in DOMAIN pending["graphics"] :
           i \in DOMAIN pending'["graphics"] /\ pending'["graphics"][i] = pending["graphics"][i],
         \A f \in Frames : \A i \in DOMAIN deferred[f] :
           i \in DOMAIN deferred'[f] /\ deferred'[f][i] = deferred[f][i],
         \A f \in Frames : Guarded(k, f) => Guarded(k, f)',
         \/ h # resources \/ resources' = resources
         \/ Unfinished' /\ \E i \in DOMAIN deferred'[current_frame'] : deferred'[current_frame'][i] = h,
         h # staging \/ staging' = staging
  PROVE  Used(k, h)'
<1>1. CASE h = resources
  <2>1. CASE resources' = resources
    BY <1>1, <2>1 DEF Used
  <2>2. CASE Unfinished' /\ \E i \in DOMAIN deferred'[current_frame'] : deferred'[current_frame'][i] = h
    <3>1. PICK g \in Frames : g = current_frame'
      BY DEF Types, TypeOK
    <3>2. Guarded(k, g)'
      BY <2>2, <3>1 DEF Guarded
    <3> QED BY <2>2, <3>1, <3>2 DEF Used
  <2> QED BY <1>1, <2>1, <2>2
<1>2. CASE h = staging /\ Uploads(pending["graphics"][k])
  <2>1. Uploads(pending'["graphics"][k])
    BY <1>2
  <2> QED BY <1>2, <2>1 DEF Used, Uploads
<1>3. CASE \E f \in Frames : Guarded(k, f) /\ \E i \in DOMAIN deferred[f] : h = deferred[f][i]
  BY <1>3 DEF Used
<1> QED BY <1>1, <1>2, <1>3 DEF Used

\* What guards a handle stays while the frame does.
LEMMA GuardStays ==
  ASSUME \A i \in DOMAIN pending["graphics"] :
           i \in DOMAIN pending'["graphics"] /\ pending'["graphics"][i] = pending["graphics"][i],
         current_frame' = current_frame, Unfinished => Unfinished',
         NEW k, NEW f, Guarded(k, f)
  PROVE  Guarded(k, f)'
<1>1. CASE Unfinished /\ f = current_frame
  BY <1>1 DEF Guarded
<1>2. CASE \E j \in DOMAIN pending["graphics"] : k < j /\ Closes(pending["graphics"][j], f)
  BY <1>2 DEF Guarded, Closes
<1> QED BY <1>1, <1>2 DEF Guarded

\* Steps that submit nothing that uses a handle.
LEMMA UsesStay ==
  ASSUME Types, Types', HandlesUsed, GraphicsGrow, current_frame' = current_frame, Unfinished => Unfinished',
         \A f \in Frames : \A i \in DOMAIN deferred[f] :
           i \in DOMAIN deferred'[f] /\ deferred'[f][i] = deferred[f][i],
         \A k \in DOMAIN pending["graphics"] : \A h \in pending["graphics"][k].uses.handles :
           /\ \/ h # resources \/ resources' = resources
              \/ Unfinished' /\ \E i \in DOMAIN deferred'[current_frame] : deferred'[current_frame][i] = h
           /\ h # staging \/ staging' = staging
  PROVE  HandlesUsed'
<1> SUFFICES ASSUME NEW k \in DOMAIN pending'["graphics"],
                    NEW h \in pending'["graphics"][k].uses.handles
             PROVE  Used(k, h)'
  BY DEF HandlesUsed
<1>1. /\ k \in DOMAIN pending["graphics"] /\ h \in pending["graphics"][k].uses.handles
      /\ \A i \in DOMAIN pending["graphics"] :
           i \in DOMAIN pending'["graphics"] /\ pending'["graphics"][i] = pending["graphics"][i]
  BY DEF GraphicsGrow
<1>2. Used(k, h)
  BY <1>1 DEF HandlesUsed
<1>3. \A f \in Frames : Guarded(k, f) => Guarded(k, f)'
  BY <1>1, GuardStays
<1>4. /\ \/ h # resources \/ resources' = resources
         \/ Unfinished' /\ \E i \in DOMAIN deferred'[current_frame'] : deferred'[current_frame'][i] = h
      /\ h # staging \/ staging' = staging
  BY <1>1
<1> QED BY <1>1, <1>2, <1>3, <1>4, UsedStays

\* The frame that is closed guards what was deferred in it.
LEMMA UsedAtPresent ==
  ASSUME Types, Types', Phases, HandlesUsed, Present, UNCHANGED rendererVars
  PROVE  HandlesUsed'
<1>1. PICK op, n, p : n \in Nat /\ ClosesFrame(op, n, p)
  BY PresentCloses
<1>2. /\ UNCHANGED <<deferred, staging, resources>> /\ current_frame \in Frames
      /\ "graphics" \in DeviceQueues
  BY DEF Present, rendererVars, Types, TypeOK, DeviceQueues
<1>3. /\ DOMAIN pending["graphics"] = 1 .. n
      /\ \A i \in DOMAIN pending["graphics"] :
           i \in DOMAIN pending'["graphics"] /\ pending'["graphics"][i] = pending["graphics"][i]
      /\ n + 1 \in DOMAIN pending'["graphics"] /\ pending'["graphics"][n + 1] = op
      /\ \A i \in DOMAIN pending'["graphics"] : i \in DOMAIN pending["graphics"] \/ i = n + 1
      /\ op.fence = FrameFence(current_frame) /\ op.uses.handles = {}
  BY <1>1, <1>2 DEF ClosesFrame, ClosingForm, Nothing
<1> SUFFICES ASSUME NEW k \in DOMAIN pending'["graphics"],
                    NEW h \in pending'["graphics"][k].uses.handles
             PROVE  Used(k, h)'
  BY DEF HandlesUsed
<1>4. k \in DOMAIN pending["graphics"] /\ h \in pending["graphics"][k].uses.handles
  BY <1>3
<1>5. Used(k, h)
  BY <1>4 DEF HandlesUsed
<1>6. ASSUME NEW f \in Frames, Guarded(k, f) PROVE Guarded(k, f)'
  <2>1. CASE f = current_frame
    <3>1. k < n + 1
      BY <1>1, <1>3, <1>4
    <3>2. Closes(pending'["graphics"][n + 1], f)
      BY <1>3, <2>1 DEF Closes
    <3> QED BY <1>3, <3>1, <3>2 DEF Guarded, Closes
  <2>2. CASE \E j \in DOMAIN pending["graphics"] : k < j /\ Closes(pending["graphics"][j], f)
    BY <1>3, <2>2 DEF Guarded, Closes
  <2> QED BY <1>6, <2>1, <2>2 DEF Guarded
<1> QED BY <1>2, <1>3, <1>4, <1>5, <1>6, UsedStays

\* What BeginFrame destroys is in no use: the fence of the frame is signalled.
LEMMA UsedAtReuse ==
  ASSUME Types, Types', SyncInv, HandlesUsed, ReuseFrame, UNCHANGED rendererVars
  PROVE  HandlesUsed'
<1>1. /\ UNCHANGED <<pending, staging, resources, current_frame>>
      /\ pc = "wait" /\ FrameFence(current_frame) \in fences
      /\ current_frame \in Frames /\ deferred \in [Frames -> Seq(Handles)]
      /\ deferred' = [deferred EXCEPT ![current_frame] = <<>>]
      /\ "graphics" \in DeviceQueues
  BY DEF ReuseFrame, ProcessDeferredDestroy, FrameFenceSignalled, rendererVars, Types, TypeOK,
         DeviceQueues
<1>2. ~Unfinished
  BY <1>1 DEF Unfinished, Open
<1> SUFFICES ASSUME NEW k \in DOMAIN pending["graphics"],
                    NEW h \in pending["graphics"][k].uses.handles
             PROVE  Used(k, h)'
  BY <1>1 DEF HandlesUsed
<1>3. CASE h = resources \/ (h = staging /\ Uploads(pending["graphics"][k]))
  BY <1>1, <1>3 DEF Used, Uploads
<1>4. CASE \E f \in Frames : Guarded(k, f) /\ \E i \in DOMAIN deferred[f] : h = deferred[f][i]
  <2>1. PICK f \in Frames : Guarded(k, f) /\ \E i \in DOMAIN deferred[f] : h = deferred[f][i]
    BY <1>4
  <2>2. PICK j \in DOMAIN pending["graphics"] : k < j /\ Closes(pending["graphics"][j], f)
    BY <1>2, <2>1 DEF Guarded
  <2>3. f # current_frame
    BY <1>1, <2>2 DEF SyncInv, FenceMeansDone
  <2>4. deferred'[f] = deferred[f]
    BY <1>1, <2>3
  <2>5. Guarded(k, f)'
    BY <1>1, <2>2 DEF Guarded, Closes
  <2> QED BY <2>1, <2>4, <2>5 DEF Used
<1> QED BY <1>3, <1>4 DEF HandlesUsed, Used

\* The oldest operation of the graphics queue, or of another, completes.
LEMMA UsedAtDevice ==
  ASSUME Types, HandlesUsed, NEW q \in DeviceQueues, DeviceStep(q)
  PROVE  HandlesUsed'
<1>1. /\ pending \in [DeviceQueues -> Seq(Operations)] /\ pending[q] # <<>>
      /\ pending' = [pending EXCEPT ![q] = Tail(@)]
      /\ UNCHANGED <<pc, resume, current_frame, deferred, staging, resources>>
      /\ "graphics" \in DeviceQueues
  BY DEF DeviceStep, Complete, CanComplete, contextVars, rendererVars, Types, DeviceQueues
<1>2. /\ \A r \in DeviceQueues : \A i \in DOMAIN pending'[r] :
           \E j \in DOMAIN pending[r] :
             /\ pending'[r][i] = pending[r][j] /\ ~(r = q /\ j = 1)
             /\ i \in Nat /\ j = IF r = q THEN i + 1 ELSE i
      /\ \A r \in DeviceQueues : \A j \in DOMAIN pending[r] :
           ~(r = q /\ j = 1) =>
             \E i \in DOMAIN pending'[r] :
               /\ pending'[r][i] = pending[r][j]
               /\ i \in Nat /\ j = IF r = q THEN i + 1 ELSE i
  BY <1>1, MovedUp
<1> SUFFICES ASSUME NEW k \in DOMAIN pending'["graphics"],
                    NEW h \in pending'["graphics"][k].uses.handles
             PROVE  Used(k, h)'
  BY DEF HandlesUsed
<1>3. PICK l \in DOMAIN pending["graphics"] :
        /\ pending'["graphics"][k] = pending["graphics"][l]
        /\ k \in Nat /\ l = IF "graphics" = q THEN k + 1 ELSE k
  BY <1>1, <1>2
<1>4. Used(l, h)
  BY <1>3 DEF HandlesUsed
<1>5. Unfinished' <=> Unfinished
  BY <1>1 DEF Unfinished, Open
<1>6. ASSUME NEW f \in Frames, Guarded(l, f) PROVE Guarded(k, f)'
  <2>1. CASE Unfinished /\ f = current_frame
    BY <1>1, <1>5, <2>1 DEF Guarded
  <2>2. CASE \E j \in DOMAIN pending["graphics"] : l < j /\ Closes(pending["graphics"][j], f)
    <3>1. PICK j \in DOMAIN pending["graphics"] : l < j /\ Closes(pending["graphics"][j], f)
      BY <2>2
    <3>2. ~("graphics" = q /\ j = 1)
      BY <1>3, <3>1
    <3>3. PICK i \in DOMAIN pending'["graphics"] :
            /\ pending'["graphics"][i] = pending["graphics"][j]
            /\ i \in Nat /\ j = IF "graphics" = q THEN i + 1 ELSE i
      BY <1>1, <1>2, <3>2
    <3>4. k < i
      BY <1>3, <3>1, <3>3
    <3>5. Closes(pending'["graphics"][i], f)
      BY <3>1, <3>3
    <3> QED BY <3>4, <3>5 DEF Guarded, Closes
  <2> QED BY <1>6, <2>1, <2>2 DEF Guarded
<1>7. CASE h = resources \/ (h = staging /\ Uploads(pending["graphics"][l]))
  BY <1>1, <1>3, <1>7 DEF Used, Uploads
<1>8. CASE \E f \in Frames : Guarded(l, f) /\ \E i \in DOMAIN deferred[f] : h = deferred[f][i]
  BY <1>1, <1>6, <1>8 DEF Used
<1> QED BY <1>4, <1>7, <1>8 DEF Used

\* The renderer submits a frame: its handles are kept, or deferred to this frame.
LEMMA UsedAtDraw ==
  ASSUME Types, Types', Phases, HandlesUsed, RendererSubmit
  PROVE  HandlesUsed'
<1>1. /\ UNCHANGED <<pc, resume, current_frame, staging, resources>> /\ pc = "frame"
      /\ deferred' = Defer(hdr) /\ hdr \in Handles /\ current_frame \in Frames
      /\ "graphics" \in DeviceQueues
  BY DEF RendererSubmit, Types, TypeOK, DeviceQueues
<1>2. Unfinished /\ Unfinished'
  BY <1>1 DEF Unfinished, Open
<1>3. \A f \in Frames : \A i \in DOMAIN deferred[f] :
        i \in DOMAIN deferred'[f] /\ deferred'[f][i] = deferred[f][i]
  <2>1. CASE hdr = NullHandle
    BY <1>1, <2>1 DEF Defer
  <2>2. CASE hdr # NullHandle
    BY <1>1, <2>2, DeferKeeps
  <2> QED BY <2>1, <2>2
<1>4. hdr # NullHandle => \E i \in DOMAIN deferred'[current_frame] : deferred'[current_frame][i] = hdr
  BY <1>1, DeferKeeps
<1>5. CASE Quiet
  <2>1. GraphicsGrow
    BY <1>5 DEF Quiet, GraphicsGrow
  <2> QED BY <1>1, <1>2, <1>3, <2>1, UsesStay
<1>6. ASSUME NEW op, NEW n \in Nat, Submits("graphics", op, n),
             op.uses.handles = {resources, hdr} \ {NullHandle}
      PROVE  HandlesUsed'
  <2>1. /\ \A i \in DOMAIN pending["graphics"] :
             i \in DOMAIN pending'["graphics"] /\ pending'["graphics"][i] = pending["graphics"][i]
        /\ pending'["graphics"][n + 1] = op
        /\ \A i \in DOMAIN pending'["graphics"] :
             i \in DOMAIN pending["graphics"] \/ i = n + 1 \/ Asks(op, current_frame)
        /\ SubmissionForm("graphics", op, current_frame, frame.last + 1)
        /\ frame.last + 1 \in 1 .. kMaxSubmittedCommandLists
    BY <1>1, <1>6 DEF Submits
  <2>2. ~Asks(op, current_frame)
    <3>1. PICK f \in Frames, m \in 1 .. kMaxSubmittedCommandLists : SubmissionForm("graphics", op, f, m)
      BY <1>1, <2>1
    <3>2. Asks(op, current_frame) => "graphics" = "compute"
      BY <1>1, <3>1, SubmissionFacts
    <3> QED BY <3>2
  <2> SUFFICES ASSUME NEW k \in DOMAIN pending'["graphics"],
                      NEW h \in pending'["graphics"][k].uses.handles
               PROVE  Used(k, h)'
    BY DEF HandlesUsed
  <2>3. CASE k \in DOMAIN pending["graphics"]
    <3>1. Used(k, h)
      BY <2>1, <2>3 DEF HandlesUsed
    <3>2. \A f \in Frames : Guarded(k, f) => Guarded(k, f)'
      BY <1>1, <1>2, <2>1, GuardStays
    <3> QED BY <1>1, <1>3, <2>1, <2>3, <3>1, <3>2, UsedStays
  <2>4. CASE k = n + 1
    <3>1. h = resources \/ (h = hdr /\ hdr # NullHandle)
      BY <1>6, <2>1, <2>4
    <3>2. CASE h = resources
      BY <1>1, <3>2 DEF Used
    <3>3. CASE h = hdr /\ hdr # NullHandle
      <4>1. PICK i \in DOMAIN deferred'[current_frame] : deferred'[current_frame][i] = h
        BY <1>4, <3>3
      <4>2. Guarded(k, current_frame)'
        BY <1>1, <1>2 DEF Guarded
      <4> QED BY <1>1, <4>1, <4>2 DEF Used
    <3> QED BY <3>1, <3>2, <3>3
  <2> QED BY <2>1, <2>2, <2>3, <2>4
<1> QED BY <1>5, <1>6, DrawSteps

\* An upload uses its staging buffer.
LEMMA UsedAtUpload ==
  ASSUME Types, Types', Phases, SyncInv, HandlesUsed, Upload, UNCHANGED rendererVars
  PROVE  HandlesUsed'
<1>1. PICK op, n :
        /\ n \in Nat /\ UploadBegins(op, n)
        /\ op.uses = [Nothing EXCEPT !.handles = {NextHandle(slots)}]
  BY UploadForms
<1>2. /\ UNCHANGED <<deferred, resources, current_frame>> /\ staging' = NextHandle(slots)
      /\ "graphics" \in DeviceQueues /\ pc # "upload"
  BY DEF Upload, rendererVars, DeviceQueues
<1>3. /\ \A i \in DOMAIN pending["graphics"] :
           i \in DOMAIN pending'["graphics"] /\ pending'["graphics"][i] = pending["graphics"][i]
      /\ pending'["graphics"][n + 1] = op
      /\ \A i \in DOMAIN pending'["graphics"] : i \in DOMAIN pending["graphics"] \/ i = n + 1
      /\ UploadForm("graphics", op) /\ (Unfinished' <=> Unfinished)
  BY <1>1, <1>2 DEF UploadBegins
<1> SUFFICES ASSUME NEW k \in DOMAIN pending'["graphics"],
                    NEW h \in pending'["graphics"][k].uses.handles
             PROVE  Used(k, h)'
  BY DEF HandlesUsed
<1>4. CASE k \in DOMAIN pending["graphics"]
  <2>1. Used(k, h) /\ Legal("graphics", pending["graphics"][k])
    BY <1>2, <1>3, <1>4 DEF HandlesUsed, SyncInv, OperationsLegal
  <2>2. h # NullHandle
    BY <1>2, <1>3, <1>4, <2>1, UsesOf
  <2>3. staging = NullHandle
    BY <1>2 DEF Phases
  <2>4. \A f \in Frames : Guarded(k, f) => Guarded(k, f)'
    BY <1>2, <1>3, GuardStays
  <2> QED BY <1>2, <1>3, <1>4, <2>1, <2>2, <2>3, <2>4, UsedStays
<1>5. CASE k = n + 1
  <2>1. h = staging'
    BY <1>1, <1>2, <1>3, <1>5 DEF Nothing
  <2>2. Uploads(pending'["graphics"][k])
    BY <1>3, <1>5 DEF UploadForm, Uploads
  <2> QED BY <2>1, <2>2 DEF Used, Uploads
<1> QED BY <1>3, <1>4, <1>5

\* Every step keeps handles in use guarded, if the renderer is not shut down between frames.
LEMMA UsesKept ==
  ASSUME ~DestroyBetweenFrames, Types, Types', Phases, SyncInv, UploadsRun, HandlesUsed, [Next]_vars
  PROVE  HandlesUsed'
<1>0. /\ "graphics" \in DeviceQueues /\ current_frame \in Frames /\ resources \in Handles
      /\ \A k \in DOMAIN pending["graphics"] : NullHandle \notin pending["graphics"][k].uses.handles
  <2>1. "graphics" \in DeviceQueues
    BY DEF DeviceQueues
  <2>2. \A k \in DOMAIN pending["graphics"] : Legal("graphics", pending["graphics"][k])
    BY <2>1 DEF SyncInv, OperationsLegal
  <2> QED BY <2>1, <2>2, UsesOf DEF Types, TypeOK
<1>1. CASE ContextStep /\ Outside /\ UNCHANGED rendererVars
  <2>0. resources' = resources
    BY <1>1 DEF rendererVars
  <2>1. CASE \/ Initialize \/ InitializeDevice \/ InitializeFails \/ Initialized \/ ShutdownIdle
             \/ Teardown \/ TornDown
    <3>1. Idle /\ ~Upload
      BY <2>1 DEF Initialize, InitializeDevice, InitializeFails, Initialized, ShutdownIdle, Teardown,
                  TornDown, DeviceIdle, Upload, Phases, NotAlive
    <3>2. GraphicsGrow
      BY <1>1, <3>1, GraphicsGrows DEF ContextStep, RendererSubmit, Outside
    <3>3. DOMAIN pending["graphics"] = {}
      BY <1>0, <3>1 DEF Idle
    <3> QED BY <3>2, <3>3 DEF GraphicsGrow, HandlesUsed
  <2>2. CASE \/ BeginFrame \/ AcquireFails \/ AcquireOutOfDate \/ Resize \/ Recreate \/ RecreateFails
             \/ SubmitCompute \/ SubmitComputeWithFence \/ \E image \in Images : Acquire(image)
    <3>1. UNCHANGED <<current_frame, deferred, staging>>
      BY <2>2 DEF BeginFrame, AcquireFails, AcquireOutOfDate, Resize, Recreate, RecreateFails,
                  SubmitCompute, SubmitComputeWithFence, Acquire
    <3>2. ~Upload
      BY <2>2 DEF BeginFrame, AcquireFails, AcquireOutOfDate, Resize, Recreate, RecreateFails,
                  SubmitCompute, SubmitComputeWithFence, Acquire, Upload
    <3>3. Unfinished => Unfinished'
      <4>1. CASE \/ BeginFrame \/ AcquireFails \/ AcquireOutOfDate \/ Resize \/ Recreate \/ RecreateFails
        <5>1. Quiet
          BY <4>1, QuietSteps
        <5> QED BY <5>1 DEF Quiet
      <4>2. CASE SubmitCompute \/ SubmitComputeWithFence \/ \E image \in Images : Acquire(image)
        BY <4>2 DEF SubmitCompute, SubmitComputeWithFence, Acquire, Unfinished, Open
      <4> QED BY <2>2, <4>1, <4>2
    <3>4. GraphicsGrow
      BY <1>1, <3>2, GraphicsGrows DEF RendererSubmit, Outside
    <3> QED BY <2>0, <3>1, <3>3, <3>4, UsesStay
  <2>3. CASE ReuseFrame
    BY <1>1, <2>3, UsedAtReuse
  <2>4. CASE Present
    BY <1>1, <2>4, UsedAtPresent
  <2>5. CASE Upload
    BY <1>1, <2>5, UsedAtUpload
  <2>6. CASE UploadDone
    <3>1. UNCHANGED <<pending, current_frame, deferred>> /\ UploadFence \in fences
      BY <2>6 DEF UploadDone
    <3>2. Quiet
      BY <2>6, QuietSteps
    <3>3. Unfinished => Unfinished'
      BY <3>2 DEF Quiet
    <3>4. \A i \in DOMAIN pending["graphics"] : ~Uploads(pending["graphics"][i])
      BY <3>1 DEF UploadsRun
    <3> SUFFICES ASSUME NEW k \in DOMAIN pending["graphics"],
                        NEW h \in pending["graphics"][k].uses.handles
                 PROVE  Used(k, h)'
      BY <3>1 DEF HandlesUsed
    <3>5. h = resources \/ \E f \in Frames : Guarded(k, f) /\ \E i \in DOMAIN deferred[f] : h = deferred[f][i]
      BY <3>4 DEF HandlesUsed, Used
    <3>6. \A f \in Frames : Guarded(k, f) => Guarded(k, f)'
      BY <3>1, <3>3, GuardStays
    <3> QED BY <2>0, <3>1, <3>5, <3>6 DEF Used
  <2> QED BY <1>1, <2>1, <2>2, <2>3, <2>4, <2>5, <2>6, Zenon DEF ContextStep
<1>2. CASE RendererInitialize \/ RendererInitializeFails \/ RendererBeginFrame \/ RendererRecord
  <2>1. /\ UNCHANGED <<pending, current_frame, staging>>
        /\ resources' = resources \/ resources = NullHandle
        /\ deferred' = deferred \/ (deferred' = Defer(NextHandle(slots)) /\ NextHandle(slots) # NullHandle)
    BY <1>2 DEF RendererInitialize, RendererInitializeFails, RendererBeginFrame, RendererRecord,
                CanCreateResource, contextVars, deviceVars, rendererVars, Phases
  <2>2. Quiet
    BY <1>2, QuietSteps
  <2>3. NextHandle(slots) \in Handles
    BY SlotMapTypes DEF Types
  <2>4. \A f \in Frames : \A i \in DOMAIN deferred[f] :
          i \in DOMAIN deferred'[f] /\ deferred'[f][i] = deferred[f][i]
    BY <2>1, <2>3, DeferKeeps
  <2>5. GraphicsGrow /\ (Unfinished => Unfinished')
    BY <2>1, <2>2 DEF Quiet, GraphicsGrow
  <2>6. \A k \in DOMAIN pending["graphics"] : \A h \in pending["graphics"][k].uses.handles :
          h # resources \/ resources' = resources
    BY <1>0, <2>1
  <2> QED BY <2>1, <2>4, <2>5, <2>6, UsesStay
<1>3. CASE RendererSubmit
  BY <1>3, UsedAtDraw
<1>4. CASE RendererShutdown \/ Quit
  <2>1. /\ UNCHANGED <<pending, current_frame, staging>> /\ deferred' = Defer(resources)
        /\ Unfinished'
    BY <1>4 DEF RendererShutdown, Quit, RendererOff, deviceVars, Unfinished, Open
  <2>2. GraphicsGrow
    BY <2>1 DEF GraphicsGrow
  <2>3. CASE resources = NullHandle
    <3>1. deferred' = deferred
      BY <2>1, <2>3 DEF Defer
    <3> QED BY <1>0, <2>1, <2>2, <2>3, <3>1, UsesStay
  <2>4. CASE resources # NullHandle
    <3>1. /\ \A f \in Frames : \A i \in DOMAIN deferred[f] :
               i \in DOMAIN deferred'[f] /\ deferred'[f][i] = deferred[f][i]
          /\ \E i \in DOMAIN deferred'[current_frame] : deferred'[current_frame][i] = resources
      BY <1>0, <2>1, <2>4, DeferKeeps
    <3> QED BY <2>1, <2>2, <3>1, UsesStay
  <2> QED BY <2>3, <2>4
<1>5. CASE \E q \in DeviceQueues : DeviceStep(q)
  BY <1>5, UsedAtDevice
<1>6. CASE UNCHANGED vars
  <2>1. UNCHANGED <<pending, current_frame, staging, deferred, resources>>
    BY <1>6 DEF vars, contextVars, deviceVars, rendererVars
  <2>2. Quiet
    BY <1>6, QuietSteps
  <2>3. GraphicsGrow /\ (Unfinished => Unfinished')
    BY <2>1, <2>2 DEF Quiet, GraphicsGrow
  <2> QED BY <2>1, <2>3, UsesStay
<1> QED BY <1>1, <1>2, <1>3, <1>4, <1>5, <1>6, NextForms, Zenon

-----------------------------------------------------------------------------
(* The slots of the renderer keep step with the frames.                    *)

\* The frame c places on.
Turned(f, c) == IF f + c < kFramesInFlight THEN f + c ELSE f + c - kFramesInFlight

\* Turning is one to one, and goes on with the frames.
LEMMA Turns ==
  ASSUME NEW c \in Frames
  PROVE  /\ \A f \in Frames : Turned(f, c) \in Frames
         /\ \A f, g \in Frames : Turned(f, c) = Turned(g, c) => f = g
         /\ \A f \in Frames : Turned((f + 1) % kFramesInFlight, c) = (Turned(f, c) + 1) % kFramesInFlight
         /\ \E d \in Frames : Turned(c, d) = 0
<1>1. /\ kFramesInFlight \in Nat /\ kFramesInFlight > 0
      /\ \A f : f \in Frames <=> f \in Nat /\ f < kFramesInFlight
  BY ConstantFacts DEF Frames
<1>2. \A f \in Frames : Turned(f, c) \in Frames
  BY <1>1 DEF Turned
<1>3. \A f, g \in Frames : Turned(f, c) = Turned(g, c) => f = g
  BY <1>1 DEF Turned
<1>4. ASSUME NEW f \in Frames
      PROVE  Turned((f + 1) % kFramesInFlight, c) = (Turned(f, c) + 1) % kFramesInFlight
  <2>1. PICK g : g = Turned(f, c)
    OBVIOUS
  <2>2. g \in Frames
    BY <1>2, <2>1
  <2>3. /\ (f + 1) % kFramesInFlight = IF f + 1 = kFramesInFlight THEN 0 ELSE f + 1
        /\ (g + 1) % kFramesInFlight = IF g + 1 = kFramesInFlight THEN 0 ELSE g + 1
    BY <2>2, NextInRing
  <2>4. PICK m : m = (f + 1) % kFramesInFlight
    OBVIOUS
  <2>5. m = IF f + 1 = kFramesInFlight THEN 0 ELSE f + 1
    BY <2>3, <2>4
  <2>6. Turned(m, c) = IF g + 1 = kFramesInFlight THEN 0 ELSE g + 1
    BY <1>1, <2>1, <2>5 DEF Turned
  <2> QED BY <2>1, <2>3, <2>4, <2>6
<1>5. \E d \in Frames : Turned(c, d) = 0
  <2>1. CASE c = 0
    <3>1. Turned(c, 0) = 0
      BY <1>1, <2>1 DEF Turned
    <3> QED BY <3>1, ConstantFacts
  <2>2. CASE c # 0
    <3>1. kFramesInFlight - c \in Frames /\ Turned(c, kFramesInFlight - c) = 0
      BY <1>1, <2>2 DEF Turned
    <3> QED BY <3>1
  <2> QED BY <2>1, <2>2
<1> QED BY <1>2, <1>3, <1>4, <1>5

\* The frame that the renderer draws next.
NextFrame == (current_frame + 1) % kFramesInFlight
RenderFrame ==
  IF Open /\ lists[current_frame]["graphics"] = "executable" THEN NextFrame ELSE current_frame

\* The slot of a submission is as far from its frame as the next slot is from the frame to be drawn.
InStep(op, c) ==
  op.uses.slot # NoSlot /\ op.uses.slot[1] = resources => op.uses.slot[2] = Turned(op.uses.list[1], c)

\* The distance is the same for all of them.
Lockstep ==
  renderer # "off" =>
    \E c \in Frames : /\ frame_slot = Turned(RenderFrame, c)
                      /\ \A k \in DOMAIN pending["graphics"] : InStep(pending["graphics"][k], c)

\* Steps outside the renderer.
LEMMA LockstepStays ==
  ASSUME Lockstep,
         renderer' # "off" => renderer # "off" /\ UNCHANGED <<frame_slot, resources>> /\ RenderFrame' = RenderFrame,
         \A k \in DOMAIN pending'["graphics"] :
           \/ \E j \in DOMAIN pending["graphics"] : pending'["graphics"][k] = pending["graphics"][j]
           \/ pending'["graphics"][k].uses.slot = NoSlot
  PROVE  Lockstep'
<1> SUFFICES ASSUME renderer' # "off" PROVE Lockstep'
  BY DEF Lockstep
<1>1. renderer # "off" /\ UNCHANGED <<frame_slot, resources>> /\ RenderFrame' = RenderFrame
  OBVIOUS
<1>2. PICK c \in Frames :
        /\ frame_slot = Turned(RenderFrame, c)
        /\ \A k \in DOMAIN pending["graphics"] : InStep(pending["graphics"][k], c)
  BY <1>1 DEF Lockstep
<1>3. frame_slot' = Turned(RenderFrame', c)
  BY <1>1, <1>2
<1>4. ASSUME NEW k \in DOMAIN pending'["graphics"] PROVE InStep(pending["graphics"][k], c)'
  <2>1. CASE \E j \in DOMAIN pending["graphics"] : pending'["graphics"][k] = pending["graphics"][j]
    BY <1>1, <1>2, <2>1 DEF InStep
  <2>2. CASE pending'["graphics"][k].uses.slot = NoSlot
    BY <2>2 DEF InStep
  <2> QED BY <2>1, <2>2
<1> QED BY <1>3, <1>4 DEF Lockstep

\* A step of the context leaves the frame that is drawn next.
LEMMA RenderFrameStays ==
  ASSUME Types, Phases, ContextStep, Outside, UNCHANGED rendererVars, renderer # "off"
  PROVE  RenderFrame' = RenderFrame
<1>0. resume \in {"idle", "frame"} /\ current_frame \in Frames /\ renderer # "recording"
      /\ lists \in [Frames -> [ListQueues -> {"initial", "recording", "executable"}]]
      /\ "graphics" \in ListQueues /\ "compute" \in ListQueues
  BY DEF Types, TypeOK, ListQueues, Outside
<1>1. pc \notin NotAlive /\ pc # "shutdown"
  BY DEF Phases
<1>2. ASSUME UNCHANGED <<lists, current_frame>>, Open' <=> Open PROVE RenderFrame' = RenderFrame
  BY <1>2 DEF RenderFrame, NextFrame
<1>3. CASE BeginFrame \/ AcquireFails \/ AcquireOutOfDate \/ Resize
  BY <1>2, <1>3 DEF BeginFrame, AcquireFails, AcquireOutOfDate, Resize, Open
<1>4. CASE Recreate \/ RecreateFails \/ UploadDone
  BY <1>0, <1>2, <1>4 DEF Recreate, RecreateFails, UploadDone, Open
<1>5. CASE Upload \/ \E image \in Images : Acquire(image)
  BY <1>0, <1>2, <1>5 DEF Upload, Acquire, Open
<1>6. CASE SubmitCompute \/ SubmitComputeWithFence
  <2>1. UNCHANGED <<pc, resume, current_frame>> /\ ListBecomes("compute", "executable")
    BY <1>6 DEF SubmitCompute, SubmitComputeWithFence
  <2>2. lists'[current_frame]["graphics"] = lists[current_frame]["graphics"]
    BY <1>0, <2>1 DEF ListBecomes
  <2> QED BY <2>1, <2>2 DEF RenderFrame, NextFrame, Open
<1>7. CASE ReuseFrame
  <2>1. pc = "wait" /\ UNCHANGED current_frame /\ lists'[current_frame]["graphics"] = "initial"
    BY <1>0, <1>7 DEF ReuseFrame, InitialLists
  <2> QED BY <2>1 DEF RenderFrame, Open
<1>8. CASE Drawn /\ Present
  <2>1. /\ pc = "frame" /\ pc' = "idle" /\ lists[current_frame]["graphics"] = "executable"
        /\ current_frame' = NextFrame
    BY <1>8 DEF Drawn, Present, NextFrame
  <2> QED BY <2>1 DEF RenderFrame, Open
<1>9. ~(\/ Initialize \/ InitializeDevice \/ InitializeFails \/ Initialized \/ ShutdownIdle
        \/ Teardown \/ TornDown)
  BY <1>1 DEF Initialize, InitializeDevice, InitializeFails, Initialized, ShutdownIdle, Teardown,
              TornDown, NotAlive
<1> QED BY <1>3, <1>4, <1>5, <1>6, <1>7, <1>8, <1>9, Zenon DEF ContextStep

\* The slot of a frame is submitted with it, and the next of each is next.
LEMMA LockstepAtDraw ==
  ASSUME Types, Phases, Lockstep, RendererSubmit
  PROVE  Lockstep'
<1>1. /\ UNCHANGED <<pc, resume, current_frame, resources>> /\ pc = "frame"
      /\ renderer = "recording" /\ ListBecomes("graphics", "executable")
      /\ frame_slot' = (frame_slot + 1) % kFramesInFlight
      /\ current_frame \in Frames /\ "graphics" \in DeviceQueues /\ "graphics" \in ListQueues
      /\ lists \in [Frames -> [ListQueues -> {"initial", "recording", "executable"}]]
  BY DEF RendererSubmit, NextSlot, Types, TypeOK, DeviceQueues, ListQueues
<1>2. RenderFrame = current_frame
  BY <1>1 DEF RenderFrame, Phases
<1>3. RenderFrame' = (current_frame + 1) % kFramesInFlight
  <2>1. lists'[current_frame]["graphics"] = "executable"
    BY <1>1 DEF ListBecomes
  <2> QED BY <1>1, <2>1 DEF RenderFrame, NextFrame, Open
<1>4. PICK f \in Frames, c \in Frames :
        /\ f = current_frame /\ frame_slot = Turned(f, c)
        /\ \A k \in DOMAIN pending["graphics"] : InStep(pending["graphics"][k], c)
  BY <1>1, <1>2 DEF Lockstep
<1>5. frame_slot' = Turned(RenderFrame', c)
  BY <1>1, <1>3, <1>4, Turns
<1>6. CASE Quiet
  BY <1>1, <1>4, <1>5, <1>6 DEF Quiet, Lockstep, InStep
<1>7. ASSUME NEW op, NEW n \in Nat, Submits("graphics", op, n), op.uses.slot = FrameSlot
      PROVE  Lockstep'
  <2>1. /\ \A i \in DOMAIN pending["graphics"] :
             i \in DOMAIN pending'["graphics"] /\ pending'["graphics"][i] = pending["graphics"][i]
        /\ pending'["graphics"][n + 1] = op
        /\ \A i \in DOMAIN pending'["graphics"] :
             i \in DOMAIN pending["graphics"] \/ i = n + 1 \/ Asks(op, current_frame)
        /\ SubmissionForm("graphics", op, current_frame, frame.last + 1)
        /\ frame.last + 1 \in 1 .. kMaxSubmittedCommandLists
    BY <1>1, <1>7 DEF Submits
  <2>2. ~Asks(op, current_frame)
    <3>1. PICK g \in Frames, m \in 1 .. kMaxSubmittedCommandLists : SubmissionForm("graphics", op, g, m)
      BY <1>1, <2>1
    <3>2. Asks(op, current_frame) => "graphics" = "compute"
      BY <1>1, <3>1, SubmissionFacts
    <3> QED BY <3>2
  <2>3. op.uses.slot[2] = Turned(op.uses.list[1], c)
    <3>1. op.uses.slot[2] = frame_slot
      BY <1>7 DEF FrameSlot
    <3>2. op.uses.list[1] = f
      BY <1>4, <2>1 DEF SubmissionForm
    <3> QED BY <1>4, <3>1, <3>2
  <2>4. ASSUME NEW k \in DOMAIN pending'["graphics"] PROVE InStep(pending["graphics"][k], c)'
    <3>1. CASE k \in DOMAIN pending["graphics"]
      BY <1>1, <1>4, <2>1, <3>1 DEF InStep
    <3>2. CASE k = n + 1
      BY <2>1, <2>3, <3>2 DEF InStep
    <3> QED BY <2>1, <2>2, <3>1, <3>2
  <2> QED BY <1>5, <2>4 DEF Lockstep
<1> QED BY <1>6, <1>7, DrawSteps

\* A renderer that is initialised has resources that nothing in flight uses.
LEMMA LockstepAtInitialize ==
  ASSUME Types, Phases, SyncInv, HandlesOwned, HandlesUsed, RendererInitialize
  PROVE  Lockstep'
<1>1. /\ resources' = NextHandle(slots) /\ frame_slot' = 0 /\ pc = "idle"
      /\ pending' = pending /\ UNCHANGED <<lists, current_frame, pc>>
      /\ current_frame \in Frames /\ "graphics" \in DeviceQueues
  BY DEF RendererInitialize, deviceVars, Types, TypeOK, DeviceQueues
<1>2. RenderFrame' = current_frame
  BY <1>1 DEF RenderFrame, Open
<1>3. PICK f \in Frames, c \in Frames : f = current_frame /\ Turned(f, c) = 0
  BY <1>1, Turns
<1>4. \A h : IsValid(slots, h) => h # NextHandle(slots)
  <2>1. MapSound(slots)
    BY DEF HandlesOwned
  <2> QED BY <2>1, AllocateSound
<1>5. ASSUME NEW k \in DOMAIN pending["graphics"], pending["graphics"][k].uses.slot # NoSlot
      PROVE  pending["graphics"][k].uses.slot[1] # NextHandle(slots)
  <2>1. PICK h : h = pending["graphics"][k].uses.slot[1]
    OBVIOUS
  <2>2. h \in pending["graphics"][k].uses.handles /\ h # NullHandle
    <3>1. Legal("graphics", pending["graphics"][k])
      BY <1>1 DEF SyncInv, OperationsLegal
    <3> QED BY <1>1, <1>5, <2>1, <3>1, UsesOf
  <2>3. Used(k, h)
    BY <2>2 DEF HandlesUsed
  <2>4. IsValid(slots, h)
    BY <1>1, <2>2, <2>3 DEF Used, HandlesOwned, Kept
  <2> QED BY <1>4, <2>1, <2>4
<1>6. \A k \in DOMAIN pending'["graphics"] : InStep(pending["graphics"][k], c)'
  BY <1>1, <1>5 DEF InStep
<1>7. frame_slot' = Turned(RenderFrame', c)
  BY <1>1, <1>2, <1>3
<1> QED BY <1>6, <1>7 DEF Lockstep

\* Every step keeps the slots in step with the frames.
LEMMA LockstepKept ==
  ASSUME Types, Phases, SyncInv, HandlesOwned, HandlesUsed, Lockstep, [Next]_vars
  PROVE  Lockstep'
<1>0. "graphics" \in DeviceQueues
  BY DEF DeviceQueues
<1>1. CASE ContextStep /\ Outside /\ UNCHANGED rendererVars
  <2>1. UNCHANGED <<renderer, frame_slot, resources>>
    BY <1>1 DEF rendererVars
  <2>2. renderer # "off" => RenderFrame' = RenderFrame
    BY <1>1, RenderFrameStays
  <2>3. CASE Upload
    <3>1. PICK op, n : /\ n \in Nat /\ UploadBegins(op, n)
                       /\ op.uses = [Nothing EXCEPT !.handles = {NextHandle(slots)}]
      BY <2>3, UploadForms
    <3>2. \A k \in DOMAIN pending'["graphics"] :
            \/ k \in DOMAIN pending["graphics"] /\ pending'["graphics"][k] = pending["graphics"][k]
            \/ pending'["graphics"][k].uses.slot = NoSlot
      BY <1>0, <3>1 DEF UploadBegins, Nothing
    <3> QED BY <2>1, <2>2, <3>2, LockstepStays
  <2>4. CASE ~Upload
    <3>1. GraphicsGrow
      BY <1>1, <2>4, GraphicsGrows DEF RendererSubmit, Outside
    <3> QED BY <2>1, <2>2, <3>1, LockstepStays DEF GraphicsGrow
  <2> QED BY <2>3, <2>4
<1>2. CASE RendererInitialize
  BY <1>2, LockstepAtInitialize
<1>3. CASE RendererSubmit
  BY <1>3, LockstepAtDraw
<1>4. CASE RendererShutdown \/ Quit
  BY <1>4 DEF RendererShutdown, Quit, RendererOff, Lockstep
<1>5. CASE RendererInitializeFails \/ RendererBeginFrame \/ RendererRecord
  <2>1. /\ UNCHANGED <<frame_slot, resources, pc, resume, current_frame, pending>>
        /\ renderer' # "off" => renderer # "off"
    BY <1>5 DEF RendererInitializeFails, RendererBeginFrame, RendererRecord, rendererVars,
                contextVars, deviceVars
  <2>2. lists'[current_frame]["graphics"] = "executable" <=> lists[current_frame]["graphics"] = "executable"
    BY <1>5 DEF RendererInitializeFails, RendererBeginFrame, RendererRecord, ListBecomes, contextVars,
                Types, TypeOK, ListQueues
  <2>3. RenderFrame' = RenderFrame
    BY <2>1, <2>2 DEF RenderFrame, NextFrame, Open
  <2> QED BY <2>1, <2>3, LockstepStays
<1>6. CASE \E q \in DeviceQueues : DeviceStep(q)
  <2>1. PICK q \in DeviceQueues : DeviceStep(q)
    BY <1>6
  <2>2. UNCHANGED <<renderer, frame_slot, resources, pc, resume, current_frame, lists>>
    BY <2>1 DEF DeviceStep, contextVars, rendererVars
  <2>3. RenderFrame' = RenderFrame
    BY <2>2 DEF RenderFrame, NextFrame, Open
  <2>4. /\ pending \in [DeviceQueues -> Seq(Operations)] /\ pending[q] # <<>>
        /\ pending' = [pending EXCEPT ![q] = Tail(@)]
    BY <2>1 DEF DeviceStep, Complete, CanComplete, Types
  <2>5. \A r \in DeviceQueues : \A i \in DOMAIN pending'[r] :
          \E j \in DOMAIN pending[r] : pending'[r][i] = pending[r][j]
    BY <2>4, MovedUp
  <2> QED BY <1>0, <2>2, <2>3, <2>5, LockstepStays
<1>7. CASE UNCHANGED vars
  <2>1. UNCHANGED <<renderer, frame_slot, resources, pc, resume, current_frame, lists, pending>>
    BY <1>7 DEF vars, contextVars, rendererVars, deviceVars
  <2>2. RenderFrame' = RenderFrame
    BY <2>1 DEF RenderFrame, NextFrame, Open
  <2> QED BY <2>1, <2>2, LockstepStays
<1> QED BY <1>1, <1>2, <1>3, <1>4, <1>5, <1>6, <1>7, NextForms, Zenon

-----------------------------------------------------------------------------
(* What the invariants say of the handles and lists of the operations in   *)
(* flight.                                                                 *)

\* Nothing is in flight, kept or deferred to begin with.
LEMMA InitUses == Init => UploadsRun /\ ListsAtRest /\ HandlesOwned /\ HandlesUsed /\ Lockstep
<1> SUFFICES ASSUME Init PROVE UploadsRun /\ ListsAtRest /\ HandlesOwned /\ HandlesUsed /\ Lockstep
  OBVIOUS
<1>1. /\ \A q \in DeviceQueues : DOMAIN pending[q] = {}
      /\ fences = {} /\ renderer = "off" /\ slots = EmptyMap
      /\ resources = NullHandle /\ hdr = NullHandle /\ staging = NullHandle
      /\ \A f \in Frames : DOMAIN deferred[f] = {}
  BY DEF Init, ContextInit, DeviceInit
<1>2. DOMAIN pending["graphics"] = {}
  BY <1>1 DEF DeviceQueues
<1>3. UploadsRun /\ ListsAtRest
  BY <1>1, <1>2 DEF UploadsRun, ListsAtRest
<1>4. HandlesOwned
  BY <1>1, EmptySound DEF HandlesOwned, Kept
<1>5. HandlesUsed /\ Lockstep
  BY <1>1, <1>2 DEF HandlesUsed, Lockstep
<1> QED BY <1>3, <1>4, <1>5

\* A handle in use is kept or deferred, and those are valid.
LEMMA UsedMeansValid ==
  ASSUME Phases, SyncInv, HandlesOwned, HandlesUsed
  PROVE  NoUseAfterDestroy
<1> SUFFICES ASSUME NEW q \in DeviceQueues, NEW i \in DOMAIN pending[q]
             PROVE  /\ \A h \in pending[q][i].uses.handles : IsValid(slots, h)
                    /\ pending[q][i].uses.image # NoImage => pending[q][i].uses.image[1] = chain
  BY DEF NoUseAfterDestroy, InFlight, ToSet
<1>1. PICK op : op = pending[q][i]
  OBVIOUS
<1>2. /\ NullHandle \notin op.uses.handles
      /\ op.uses.handles # {} => q = "graphics"
      /\ op.uses.image # NoImage => op.uses.image[1] = chain
  <2>1. Legal(q, op)
    BY <1>1 DEF SyncInv, OperationsLegal
  <2> QED BY <2>1, UsesOf
<1>3. pc # "teardown"
  <2>1. pending[q] # <<>>
    OBVIOUS
  <2> QED BY <2>1 DEF Phases, NotAlive, Idle
<1>4. ASSUME NEW h \in op.uses.handles PROVE IsValid(slots, h)
  <2>1. h # NullHandle /\ Used(i, h)
    BY <1>1, <1>2, <1>4 DEF HandlesUsed
  <2>2. CASE h = resources \/ h = staging
    BY <1>3, <2>1, <2>2 DEF HandlesOwned, Kept
  <2>3. CASE \E f \in Frames : \E j \in DOMAIN deferred[f] : h = deferred[f][j]
    BY <1>3, <2>3 DEF HandlesOwned
  <2> QED BY <2>1, <2>2, <2>3 DEF Used
<1> QED BY <1>1, <1>2, <1>4

\* The list of an operation in flight has been recorded; its slot is that of its frame, and the
\* renderer writes that of a frame whose list has not been recorded.
LEMMA InStepMeansRest ==
  ASSUME Types, Phases, SyncInv, ListsAtRest, Lockstep
  PROVE  FrameAtRest
<1>1. ASSUME NEW q \in DeviceQueues, NEW i \in DOMAIN pending[q], pending[q][i].uses.list # NoList
      PROVE  lists[pending[q][i].uses.list[1]][pending[q][i].uses.list[2]] = "executable"
  <2>1. PICK op : op = pending[q][i]
    OBVIOUS
  <2>2. op \in Operations
    <3>1. pending[q] \in Seq(Operations)
      BY DEF Types
    <3> QED BY <2>1, <3>1, ElementOfSeq, LenProperties
  <2>3. op.uses.list \in Frames \X ListQueues
    BY <1>1, <2>1, <2>2 DEF Operations, Uses
  <2>4. PICK f \in Frames, k \in ListQueues : op.uses.list = <<f, k>>
    BY <2>3
  <2>5. lists[f][k] = "executable"
    BY <2>1, <2>4 DEF ListsAtRest
  <2> QED BY <2>1, <2>4, <2>5
<1>2. ASSUME renderer \in {"started", "recording"},
             NEW q \in DeviceQueues, NEW i \in DOMAIN pending[q]
      PROVE  pending[q][i].uses.slot # FrameSlot
  <2>1. PICK op : op = pending[q][i]
    OBVIOUS
  <2> SUFFICES ASSUME op.uses.slot = FrameSlot PROVE FALSE
    BY <2>1
  <2>2. op.uses.slot # NoSlot /\ op.uses.slot[1] = resources /\ op.uses.slot[2] = frame_slot
    BY DEF FrameSlot, NoSlot
  <2>3. PICK f \in Frames : q = "graphics" /\ op.uses.list = <<f, "graphics">>
    <3>1. Legal(q, op)
      BY <2>1 DEF SyncInv, OperationsLegal
    <3> QED BY <2>2, <3>1, UsesOf
  <2>4. current_frame \in Frames /\ lists[current_frame]["graphics"] # "executable"
    BY <1>2 DEF Types, TypeOK, Phases
  <2>5. RenderFrame = current_frame
    BY <2>4 DEF RenderFrame
  <2>6. PICK c \in Frames : frame_slot = Turned(current_frame, c) /\ InStep(op, c)
    BY <1>2, <2>1, <2>3, <2>5 DEF Lockstep
  <2>7. frame_slot = Turned(f, c)
    BY <2>2, <2>3, <2>6 DEF InStep
  <2>8. f = current_frame
    <3>1. \A g, h \in Frames : Turned(g, c) = Turned(h, c) => g = h
      BY Turns
    <3>2. Turned(f, c) = Turned(current_frame, c)
      BY <2>6, <2>7
    <3> HIDE DEF Turned
    <3> QED BY <2>4, <3>1, <3>2
  <2>9. lists[f]["graphics"] = "executable"
    BY <2>1, <2>3 DEF ListsAtRest, ListQueues
  <2> QED BY <2>4, <2>8, <2>9
<1> QED BY <1>1, <1>2 DEF FrameAtRest, InFlight, ToSet

\* What the operations in flight use, besides the types and what holds of semaphores and fences.
UsesInv == UploadsRun /\ ListsAtRest /\ HandlesOwned /\ HandlesUsed /\ Lockstep

\* Every step keeps it, if the renderer is shut down within a frame or with the context.
LEMMA UsesInvKept ==
  ASSUME ~DestroyBetweenFrames
  PROVE  Types /\ SyncInv /\ Phases /\ UsesInv /\ [Next]_vars => UsesInv'
<1> SUFFICES ASSUME Types, SyncInv, Phases, UsesInv, [Next]_vars PROVE UsesInv'
  OBVIOUS
<1>1. UploadsRun /\ ListsAtRest /\ HandlesOwned /\ HandlesUsed /\ Lockstep
  BY DEF UsesInv
<1>2. Types'
  BY TypesKept
<1>3. UploadsRun' /\ ListsAtRest'
  BY <1>1, UploadsKept
<1>4. HandlesOwned'
  BY <1>1, OwnedKept
<1>5. HandlesUsed'
  BY <1>1, <1>2, UsesKept
<1>6. Lockstep'
  BY <1>1, LockstepKept
<1> QED BY <1>3, <1>4, <1>5, <1>6 DEF UsesInv

\* What is destroyed while frames are in flight outlives its last use: the destruction is deferred
\* to the fence of the frame it was asked for in, which closes after every operation that may use
\* it, and an upload is waited for.  This asks of the client not to shut the renderer down between
\* frames: what is deferred then goes with the frame to come, whose fence does not wait for the one
\* that has just been presented.
THEOREM NothingDestroyedInUse ==
  ASSUME ~DestroyBetweenFrames
  PROVE  Spec => []NoUseAfterDestroy
<1>1. Init => UsesInv
  BY InitUses DEF UsesInv
<1>2. Types /\ SyncInv /\ Phases /\ UsesInv /\ [Next]_vars => SyncInv' /\ Phases' /\ UsesInv'
  BY SyncKept, PhasesKept, UsesInvKept
<1>3. SyncInv /\ Phases /\ UsesInv => NoUseAfterDestroy
  BY UsedMeansValid DEF UsesInv
<1> QED BY <1>1, <1>2, <1>3, InitTypes, InitSync, TypesKept, PTL DEF Spec

\* While the device works on a frame, its lists and its slot of uniforms and descriptors are left
\* alone: the slots of the renderer and the frames of the context advance together through frames
\* without an image, uploads, and swap chains that are made anew.
THEOREM FramesAreAtRest ==
  ASSUME ~DestroyBetweenFrames
  PROVE  Spec => []FrameAtRest
<1>1. Init => UsesInv
  BY InitUses DEF UsesInv
<1>2. Types /\ SyncInv /\ Phases /\ UsesInv /\ [Next]_vars => SyncInv' /\ Phases' /\ UsesInv'
  BY SyncKept, PhasesKept, UsesInvKept
<1>3. Types /\ SyncInv /\ Phases /\ UsesInv => FrameAtRest
  BY InStepMeansRest DEF UsesInv
<1> QED BY <1>1, <1>2, <1>3, InitTypes, InitSync, TypesKept, PTL DEF Spec
=============================================================================

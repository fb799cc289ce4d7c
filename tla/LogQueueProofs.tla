--------------------------- MODULE LogQueueProofs ---------------------------
EXTENDS LogQueue, Integers, SequenceTheorems, TLAPS

-----------------------------------------------------------------------------
(* Arithmetic of the ring: a cell is a position modulo the capacity.       *)

\* Division with remainder of naturals.
LEMMA DivMod ==
  ASSUME NEW p \in Nat, NEW c \in Nat \ {0}
  PROVE  /\ p \div c \in Nat
         /\ p % c \in 0 .. c - 1
         /\ p = c * (p \div c) + (p % c)
<1>1. p \div c \in Nat OBVIOUS
<1>2. p % c \in 0 .. c - 1 OBVIOUS
<1>3. p = c * (p \div c) + (p % c) OBVIOUS
<1> QED BY <1>1, <1>2, <1>3

\* Two different multiples of c are at least c apart.
LEMMA NextMultiple ==
  ASSUME NEW c \in Nat \ {0}, NEW a \in Int, NEW b \in Int, a < b
  PROVE  c * a + c <= c * b
<1>1. c * (b - a - 1) >= 0
  OBVIOUS
<1> QED BY <1>1

\* The remainder of a number is unique.
LEMMA DivModUnique ==
  ASSUME NEW c \in Nat \ {0}, NEW a \in Nat, NEW b \in Nat,
         NEW r \in 0 .. c - 1, NEW s \in 0 .. c - 1, c * a + r = c * b + s
  PROVE  r = s
<1> DEFINE x == c * a
           y == c * b
<1>1. x \in Int /\ y \in Int OBVIOUS
<1>2. x + r = y + s OBVIOUS
<1>3. ~ (a < b)
  <2>1. a < b => x + c <= y BY NextMultiple
  <2> HIDE DEF x, y
  <2> QED BY <2>1, <1>1, <1>2
<1>4. ~ (b < a)
  <2>1. b < a => y + c <= x BY NextMultiple
  <2> HIDE DEF x, y
  <2> QED BY <2>1, <1>1, <1>2
<1>5. a = b BY <1>3, <1>4
<1> QED BY <1>1, <1>2, <1>5

\* The constructor allocates at least one cell.
LEMMA CapacityPositive == Capacity \in Nat \ {0}
BY QueueAssumption

\* Every position is on a cell of the ring.
LEMMA CellRange ==
  ASSUME NEW p \in Nat
  PROVE  CellOf(p) \in Cells
BY QueueAssumption DEF CellOf, Cells

\* The first Capacity positions are on the cells of the same number.
LEMMA FirstLap ==
  ASSUME NEW p \in Cells
  PROVE  CellOf(p) = p
BY QueueAssumption DEF CellOf, Cells

\* A position and the one a lap later share a cell.
LEMMA CellOfNextLap ==
  ASSUME NEW p \in Nat
  PROVE  CellOf(p + Capacity) = CellOf(p)
<1> DEFINE a == p \div Capacity
           b == (p + Capacity) \div Capacity
           r == p % Capacity
           s == (p + Capacity) % Capacity
<1>1. Capacity \in Nat \ {0} BY QueueAssumption
<1>2. a \in Nat /\ r \in 0 .. Capacity - 1 /\ p = Capacity * a + r
  BY <1>1, DivMod
<1>3. b \in Nat /\ s \in 0 .. Capacity - 1 /\ p + Capacity = Capacity * b + s
  <2>1. p + Capacity \in Nat BY <1>1
  <2> QED BY <2>1, <1>1, DivMod
<1> HIDE DEF a, b, r, s
<1>4. Capacity * (a + 1) + r = Capacity * b + s
  BY <1>1, <1>2, <1>3
<1>5. r = s
  BY <1>1, <1>2, <1>3, <1>4, a + 1 \in Nat, DivModUnique
<1> QED BY <1>5 DEF CellOf, r, s

\* Two positions that share a cell are a lap apart.
LEMMA CellsApart ==
  ASSUME NEW p \in Nat, NEW q \in Nat, p < q, CellOf(p) = CellOf(q)
  PROVE  p + Capacity <= q
<1> DEFINE a == p \div Capacity
           b == q \div Capacity
           r == p % Capacity
           x == Capacity * a
           y == Capacity * b
<1>1. Capacity \in Nat \ {0} BY QueueAssumption
<1>2. a \in Nat /\ r \in Nat /\ p = x + r
  <2>1. r \in 0 .. Capacity - 1 BY <1>1, DivMod
  <2>2. a \in Nat /\ p = x + r BY <1>1, DivMod
  <2> QED BY <2>1, <2>2, <1>1
<1>3. b \in Nat /\ q = y + r
  BY <1>1, DivMod DEF CellOf
<1>4. x \in Int /\ y \in Int BY <1>1, <1>2, <1>3
<1>5. x < y BY <1>2, <1>3, <1>4
<1>6. a < b
  <2>1. b < a => y + Capacity <= x BY <1>1, <1>2, <1>3, NextMultiple
  <2>2. b = a => x = y OBVIOUS
  <2> HIDE DEF x, y, a, b, r
  <2> QED BY <2>1, <2>2, <1>1, <1>2, <1>3, <1>4, <1>5
<1>7. x + Capacity <= y BY <1>1, <1>2, <1>3, <1>6, NextMultiple
<1> HIDE DEF x, y, a, b, r
<1> QED BY <1>1, <1>2, <1>3, <1>4, <1>7
-----------------------------------------------------------------------------
(* Type correctness.                                                       *)

\* A new queue has every variable in its range.
LEMMA TypeInit == Init => TypeOK
<1> SUFFICES ASSUME Init PROVE TypeOK
  OBVIOUS
<1>1. sequence \in [Cells -> Nat] BY CapacityPositive DEF Init, Cells
<1>2. pc \in [Threads -> Pc] BY DEF Init, Pc
<1>3. accepted \in Seq(Records) BY DEF Init
<1>4. \A t \in Pushers : pc[t] \notin PushPc BY DEF Init, PushPc, Threads
<1> QED BY <1>1, <1>2, <1>3, <1>4 DEF Init, TypeOK

\* Every step of the queue keeps every variable in its range.
LEMMA TypeNext == TypeOK /\ [Next]_vars => TypeOK'
<1> SUFFICES ASSUME TypeOK, [Next]_vars
             PROVE  TypeOK'
  OBVIOUS
<1> USE DEF TypeOK, Pc, PushPc, PopPc
<1>1. ASSUME NEW t \in Pushers, PushStep(t)
      PROVE  TypeOK'
  <2> t \in Threads BY DEF Threads
  <2>1. ASSUME NEW r \in Records, PushBegin(t, r) PROVE TypeOK'
    BY <2>1 DEF PushBegin, Goto, MoveTo, Pc, Loads
  <2>2. CASE PushFree(t) BY <2>2 DEF PushFree, Goto
  <2>3. CASE PushFull(t) BY <2>3 DEF PushFull, Goto
  <2>4. CASE PushRetry(t) BY <2>4 DEF PushRetry, MoveTo, Loads
  <2>5. CASE PushClaim(t) BY <2>5 DEF PushClaim, Goto
  <2>6. CASE PushClaimFails(t) BY <2>6 DEF PushClaimFails, Goto, MoveTo 
  <2>7. CASE PushWrite(t)
    <3>1. CellOf(position[t]) \in Cells /\ arg[t] \in Records
      BY <2>7, CellRange DEF PushWrite
    <3>2. record' \in [Cells -> Records \cup {NoRecord}]
      BY <2>7, <3>1 DEF PushWrite
    <3>3. pc' \in [Threads -> Pc] BY <2>7 DEF PushWrite, Goto
    <3>4. \A u \in Pushers : pc'[u] \in PushPc => pc[u] \in PushPc
      BY <2>7 DEF PushWrite, Goto, Threads
    <3> QED BY <2>7, <3>2, <3>3, <3>4 DEF PushWrite
  <2>8. CASE PushPublish(t)
    <3>1. position[t] + 1 \in Nat OBVIOUS
    <3>2. sequence' \in [Cells -> Nat] BY <2>8, <3>1 DEF PushPublish
    <3>3. pc' \in [Threads -> Pc] BY <2>8 DEF PushPublish, Goto
    <3>4. \A u \in Pushers : pc'[u] \in PushPc => pc[u] \in PushPc
      BY <2>8 DEF PushPublish, Goto, Threads
    <3> QED BY <2>8, <3>2, <3>3, <3>4 DEF PushPublish
  <2> QED BY <1>1, <2>1, <2>2, <2>3, <2>4, <2>5, <2>6, <2>7, <2>8 DEF PushStep
<1>2. ASSUME NEW t \in Poppers, PopStep(t)
      PROVE  TypeOK'
  <2> t \in Threads BY DEF Threads
  <2>1. CASE PopBegin(t) BY <2>1 DEF PopBegin, Goto, MoveTo, Pc, Loads
  <2>2. CASE PopReady(t) BY <2>2 DEF PopReady, Goto
  <2>3. CASE PopEmpty(t) BY <2>3 DEF PopEmpty, Goto
  <2>4. CASE PopRetry(t) BY <2>4 DEF PopRetry, MoveTo, Loads
  <2>5. CASE PopClaim(t) BY <2>5 DEF PopClaim, Goto
  <2>6. CASE PopClaimFails(t) BY <2>6 DEF PopClaimFails, Goto, MoveTo 
  <2>7. CASE PopCopy(t)
    <3>1. CellOf(position[t]) \in Cells BY CellRange
    <3>2. out' \in [Poppers -> Records \cup {NoRecord}]
      BY <2>7, <3>1 DEF PopCopy
    <3>3. pc' \in [Threads -> Pc] BY <2>7 DEF PopCopy, Goto
    <3>4. \A u \in Pushers : pc'[u] \in PushPc => pc[u] \in PushPc
      BY <2>7 DEF PopCopy, Goto, Threads
    <3> QED BY <2>7, <3>2, <3>3, <3>4 DEF PopCopy
  <2>8. CASE PopRelease(t)
    <3>1. position[t] + Capacity \in Nat BY CapacityPositive
    <3>2. sequence' \in [Cells -> Nat] BY <2>8, <3>1 DEF PopRelease
    <3>3. pc' \in [Threads -> Pc] BY <2>8 DEF PopRelease, Goto
    <3>4. \A u \in Pushers : pc'[u] \in PushPc => pc[u] \in PushPc
      BY <2>8 DEF PopRelease, Goto, Threads
    <3> QED BY <2>8, <3>2, <3>3, <3>4 DEF PopRelease
  <2> QED BY <1>2, <2>1, <2>2, <2>3, <2>4, <2>5, <2>6, <2>7, <2>8 DEF PopStep
<1>3. CASE UNCHANGED vars BY <1>3 DEF vars
<1> QED BY <1>1, <1>2, <1>3 DEF Next

\* The variables of the queue stay in their ranges, for any threads, records and
\* capacity: Push and Pop of logger.cc never index outside the ring.
THEOREM TypeCorrect == Spec => []TypeOK
<1> QED BY TypeInit, TypeNext, PTL DEF Spec

-----------------------------------------------------------------------------
(* The inductive invariant, one lemma per kind of step.                    *)

\* Positions less than a lap apart are on different cells.
LEMMA NearPositions ==
  ASSUME NEW p \in Nat, NEW q \in Nat, p # q, p < q + Capacity, q < p + Capacity
  PROVE  CellOf(p) # CellOf(q)
<1>1. CASE p < q BY <1>1, CellsApart, CapacityPositive
<1>2. CASE q < p BY <1>2, CellsApart, CapacityPositive
<1> QED BY <1>1, <1>2

\* A new queue satisfies the invariant: every cell is free for its own number.
LEMMA InvInit == Init => QueueInv
<1> SUFFICES ASSUME Init PROVE QueueInv
  OBVIOUS
<1> USE CapacityPositive DEF Init
<1>1. TypeOK BY TypeInit
<1>2. CountersAgree BY DEF CountersAgree
<1>3. QueuedCells BY DEF QueuedCells
<1>4. FreeCells
  <2>1. \A p \in 0 .. Capacity - 1 : sequence[CellOf(p)] = p BY FirstLap DEF Cells
  <2>2. enqueue_pos .. dequeue_pos + Capacity - 1 = 0 .. Capacity - 1 OBVIOUS
  <2> QED BY <2>1, <2>2 DEF FreeCells
<1>5. \A t \in Threads : pc[t] = "idle" OBVIOUS
<1> QED
  BY <1>1, <1>2, <1>3, <1>4, <1>5
  DEF QueueInv, PusherClaims, PopperClaims, PushersOwn, PoppersOwn, OneOwner, Checks,
      Pushing, Popping, Threads

\* Steps that touch no shared location and leave the thread outside a claim.
LEMMA LocalStep ==
  ASSUME QueueInv, TypeOK',
         NEW t \in Threads, NEW label \in {"idle", "push_check", "pop_check"},
         pc' = [pc EXCEPT ![t] = label],
         \A u \in Threads : u # t => position'[u] = position[u],
         \A u \in Pushers : u # t => arg'[u] = arg[u],
         label = "push_check" => position'[t] <= enqueue_pos,
         label = "pop_check" => position'[t] <= dequeue_pos,
         UNCHANGED <<enqueue_pos, dequeue_pos, sequence, record, out, accepted>>
  PROVE  QueueInv'
<1> USE DEF QueueInv
<1>1. CountersAgree' /\ QueuedCells' /\ FreeCells'
  BY DEF CountersAgree, QueuedCells, FreeCells
<1>2. /\ pc'[t] = label
      /\ \A u \in Threads : u # t => pc'[u] = pc[u]
  BY DEF TypeOK
<1>3. PusherClaims' /\ PopperClaims'
  BY <1>2 DEF PusherClaims, PopperClaims, Threads
<1>4. PushersOwn' /\ PoppersOwn'
  BY <1>2 DEF PushersOwn, PoppersOwn, Pushing, Popping, Threads
<1>5. OneOwner'
  BY <1>2 DEF OneOwner, Pushing, Popping
<1>6. Checks'
  BY <1>2 DEF Checks
<1> QED BY <1>1, <1>3, <1>4, <1>5, <1>6

\* A thread that owns a cell is at a position of the window, and no two of
\* them are at the same cell.
LEMMA OwnerWindow ==
  ASSUME QueueInv, NEW u \in Threads, Pushing(u) \/ Popping(u)
  PROVE  /\ position[u] \in Nat
         /\ position[u] < enqueue_pos
         /\ enqueue_pos <= position[u] + Capacity
<1> USE CapacityPositive DEF QueueInv, TypeOK, CountersAgree
<1>1. position[u] \in Nat OBVIOUS
<1>2. CASE Pushing(u)
  <2>1. position[u] \in dequeue_pos .. enqueue_pos - 1
    BY <1>2 DEF PushersOwn, Pushing
  <2> QED BY <1>1, <2>1
<1>3. CASE Popping(u)
  <2>1. position[u] < dequeue_pos /\ enqueue_pos <= position[u] + Capacity
    BY <1>3 DEF PoppersOwn, Popping
  <2> QED BY <1>1, <2>1
<1> QED BY <1>2, <1>3

\* Two threads between claim and sequence store are on different cells.
LEMMA OwnersApart ==
  ASSUME QueueInv, NEW t \in Threads, NEW u \in Threads, t # u,
         Pushing(t) \/ Popping(t), Pushing(u) \/ Popping(u)
  PROVE  CellOf(position[t]) # CellOf(position[u])
<1> DEFINE p == position[t]
           q == position[u]
<1>1. p # q BY DEF QueueInv, OneOwner
<1>2. p \in Nat /\ p < enqueue_pos /\ enqueue_pos <= p + Capacity BY OwnerWindow
<1>3. q \in Nat /\ q < enqueue_pos /\ enqueue_pos <= q + Capacity BY OwnerWindow
<1>4. enqueue_pos \in Nat BY DEF QueueInv, TypeOK
<1> HIDE DEF p, q
<1>5. p < q + Capacity /\ q < p + Capacity BY <1>2, <1>3, <1>4, CapacityPositive
<1>6. CellOf(p) # CellOf(q) BY <1>1, <1>2, <1>3, <1>5, NearPositions
<1> QED BY <1>6 DEF p, q

\* Push finding its cell free: at the counter, what it saw still holds.
LEMMA PushFreeStep ==
  ASSUME QueueInv, TypeOK', Capacity >= 2, NEW t \in Pushers, PushFree(t)
  PROVE  QueueInv'
<1> USE CapacityPositive DEF QueueInv, TypeOK
<1> t \in Threads BY DEF Threads
<1>1. /\ pc' = [pc EXCEPT ![t] = "push_claim"] /\ pc[t] = "push_check"
      /\ UNCHANGED <<enqueue_pos, dequeue_pos, sequence, record, position, arg, out,
                     accepted>>
  BY DEF PushFree, Goto
<1>2. /\ pc'[t] = "push_claim"
      /\ \A u \in Threads : u # t => pc'[u] = pc[u]
  BY <1>1
<1>3. position[t] <= sequence[CellOf(position[t])]
  BY CellRange DEF PushFree, SequenceLoads
<1>4. position[t] <= enqueue_pos BY <1>1 DEF Checks
<1>5. ASSUME position[t] = enqueue_pos
      PROVE  /\ enqueue_pos < dequeue_pos + Capacity
             /\ sequence[CellOf(enqueue_pos)] = enqueue_pos
  <2>1. CASE enqueue_pos < dequeue_pos + Capacity
    <3>1. enqueue_pos \in enqueue_pos .. dequeue_pos + Capacity - 1 BY <2>1
    <3>2. \/ sequence[CellOf(enqueue_pos)] = enqueue_pos
          \/ sequence[CellOf(enqueue_pos)] + Capacity = enqueue_pos + 1
      BY <3>1 DEF FreeCells
    <3>3. sequence[CellOf(enqueue_pos)] \in Nat BY CellRange
    <3>4. enqueue_pos <= sequence[CellOf(enqueue_pos)] BY <1>3, <1>5
    <3>5. sequence[CellOf(enqueue_pos)] = enqueue_pos BY <3>2, <3>3, <3>4
    <3> QED BY <3>5, <2>1
  <2>2. CASE enqueue_pos = dequeue_pos + Capacity
    <3>1. dequeue_pos \in dequeue_pos .. enqueue_pos - 1 BY <2>2
    <3>2. CellOf(enqueue_pos) = CellOf(dequeue_pos) BY <2>2, CellOfNextLap
    <3>3. \/ sequence[CellOf(dequeue_pos)] = dequeue_pos
          \/ sequence[CellOf(dequeue_pos)] = dequeue_pos + 1
      BY <3>1 DEF QueuedCells
    <3>4. enqueue_pos <= sequence[CellOf(dequeue_pos)] BY <3>2, <1>3, <1>5
    <3>5. sequence[CellOf(dequeue_pos)] \in Nat BY CellRange
    <3>6. FALSE BY <3>3, <3>4, <3>5, <2>2
    <3> QED BY <3>6
  <2> QED BY <2>1, <2>2 DEF CountersAgree
<1>6. CountersAgree' /\ QueuedCells' /\ FreeCells'
  BY <1>1 DEF CountersAgree, QueuedCells, FreeCells
<1>7. PusherClaims'
  BY <1>1, <1>2, <1>4, <1>5 DEF PusherClaims, Threads
<1>8. PopperClaims'
  BY <1>1, <1>2 DEF PopperClaims, Threads
<1>9. PushersOwn' /\ PoppersOwn' /\ OneOwner' /\ Checks'
  BY <1>1, <1>2 DEF PushersOwn, PoppersOwn, OneOwner, Checks, Pushing, Popping, Threads
<1> QED BY <1>6, <1>7, <1>8, <1>9

\* Pop finding its cell filled: at the counter, what it saw still holds.
LEMMA PopReadyStep ==
  ASSUME QueueInv, TypeOK', Capacity >= 2, NEW t \in Poppers, PopReady(t)
  PROVE  QueueInv'
<1> USE CapacityPositive DEF QueueInv, TypeOK
<1> t \in Threads BY DEF Threads
<1>1. /\ pc' = [pc EXCEPT ![t] = "pop_claim"] /\ pc[t] = "pop_check"
      /\ UNCHANGED <<enqueue_pos, dequeue_pos, sequence, record, position, arg, out,
                     accepted>>
  BY DEF PopReady, Goto
<1>2. /\ pc'[t] = "pop_claim"
      /\ \A u \in Threads : u # t => pc'[u] = pc[u]
  BY <1>1
<1>3. position[t] + 1 <= sequence[CellOf(position[t])]
  BY CellRange DEF PopReady, SequenceLoads
<1>4. position[t] <= dequeue_pos BY <1>1 DEF Checks
<1>5. ASSUME position[t] = dequeue_pos
      PROVE  /\ dequeue_pos < enqueue_pos
             /\ sequence[CellOf(dequeue_pos)] = dequeue_pos + 1
  <2>1. CASE dequeue_pos < enqueue_pos
    <3>1. dequeue_pos \in dequeue_pos .. enqueue_pos - 1 BY <2>1
    <3> QED BY <3>1, <2>1, <1>3, <1>5 DEF QueuedCells
  <2>2. CASE dequeue_pos = enqueue_pos
    <3>1. dequeue_pos \in enqueue_pos .. dequeue_pos + Capacity - 1 BY <2>2
    <3>2. \/ sequence[CellOf(dequeue_pos)] = dequeue_pos
          \/ sequence[CellOf(dequeue_pos)] + Capacity = dequeue_pos + 1
      BY <3>1 DEF FreeCells
    <3>3. sequence[CellOf(dequeue_pos)] \in Nat BY CellRange
    <3> QED BY <3>2, <3>3, <1>3, <1>5
  <2> QED BY <2>1, <2>2 DEF CountersAgree
<1>6. CountersAgree' /\ QueuedCells' /\ FreeCells'
  BY <1>1 DEF CountersAgree, QueuedCells, FreeCells
<1>7. PopperClaims'
  BY <1>1, <1>2, <1>4, <1>5 DEF PopperClaims, Threads
<1>8. PusherClaims'
  BY <1>1, <1>2 DEF PusherClaims, Threads
<1>9. PushersOwn' /\ PoppersOwn' /\ OneOwner' /\ Checks'
  BY <1>1, <1>2 DEF PushersOwn, PoppersOwn, OneOwner, Checks, Pushing, Popping, Threads
<1> QED BY <1>6, <1>7, <1>8, <1>9

\* A push winning its position.
LEMMA PushClaimStep ==
  ASSUME QueueInv, TypeOK', Capacity >= 2, NEW t \in Pushers, PushClaim(t)
  PROVE  QueueInv'
<1> USE CapacityPositive DEF QueueInv, TypeOK
<1> t \in Threads BY DEF Threads
<1>1. /\ pc' = [pc EXCEPT ![t] = "push_write"] /\ pc[t] = "push_claim"
      /\ position[t] = enqueue_pos
      /\ enqueue_pos' = enqueue_pos + 1
      /\ accepted' = Append(accepted, arg[t])
      /\ UNCHANGED <<dequeue_pos, sequence, record, position, arg, out>>
  BY DEF PushClaim, Goto
<1>2. /\ pc'[t] = "push_write"
      /\ \A u \in Threads : u # t => pc'[u] = pc[u]
  BY <1>1
<1>3. /\ enqueue_pos < dequeue_pos + Capacity
      /\ sequence[CellOf(enqueue_pos)] = enqueue_pos
  BY <1>1 DEF PusherClaims
<1>4. arg[t] \in Records BY <1>1 DEF PushPc
<1>5. /\ Len(accepted') = enqueue_pos'
      /\ accepted'[enqueue_pos + 1] = arg[t]
      /\ \A i \in 1 .. enqueue_pos : accepted'[i] = accepted[i]
  BY <1>1, <1>4 DEF CountersAgree
<1>6. CountersAgree'
  BY <1>1, <1>3, <1>5 DEF CountersAgree
<1>7. QueuedCells'
  BY <1>1, <1>3, <1>5 DEF QueuedCells
<1>8. FreeCells'
  BY <1>1, <1>3 DEF FreeCells
<1>9. PusherClaims' /\ PopperClaims'
  BY <1>1, <1>2 DEF PusherClaims, PopperClaims, Threads
<1>10. PushersOwn'
  BY <1>1, <1>2, <1>3, <1>5 DEF PushersOwn, Pushing, Threads, CountersAgree
<1>11. ASSUME NEW u \in Poppers, Popping(u)
       PROVE  position[u] + Capacity # enqueue_pos
  <2>1. sequence[CellOf(position[u])] = position[u] + 1 BY <1>11 DEF PoppersOwn
  <2>2. position[u] \in Nat BY <1>11 DEF Threads
  <2>3. CellOf(position[u] + Capacity) = CellOf(position[u]) BY <2>2, CellOfNextLap
  <2> QED BY <1>3, <2>1, <2>2, <2>3
<1>12. PoppersOwn'
  <2>1. ASSUME NEW u \in Poppers, Popping(u)
        PROVE  /\ position[u] \in Nat
               /\ position[u] < dequeue_pos
               /\ enqueue_pos + 1 <= position[u] + Capacity
    <3>1. position[u] \in Nat BY DEF Threads
    <3>2. position[u] < dequeue_pos /\ enqueue_pos <= position[u] + Capacity
      BY <2>1 DEF PoppersOwn
    <3>3. position[u] + Capacity # enqueue_pos BY <2>1, <1>11
    <3>4. enqueue_pos \in Nat /\ Capacity \in Nat OBVIOUS
    <3>5. enqueue_pos + 1 <= position[u] + Capacity BY ONLY <3>1, <3>2, <3>3, <3>4
    <3> QED BY <3>1, <3>2, <3>5
  <2>2. ASSUME NEW u \in Poppers, Popping(u)
        PROVE  accepted'[position[u] + 1] = accepted[position[u] + 1]
    <3>1. position[u] + 1 \in 1 .. enqueue_pos BY <2>1, <2>2 DEF CountersAgree
    <3> QED BY <3>1, <1>5
  <2>3. \A u \in Poppers : Popping(u)' => Popping(u) /\ pc'[u] = pc[u]
    BY <1>1, <1>2 DEF Popping, Threads
  <2> QED BY <1>1, <2>1, <2>2, <2>3 DEF PoppersOwn
<1>13. OneOwner'
  <2>1. \A u \in Threads : Pushing(u) \/ Popping(u) => position[u] # enqueue_pos
    BY OwnerWindow
  <2> QED BY <1>1, <1>2, <2>1 DEF OneOwner, Pushing, Popping
<1>14. Checks'
  BY <1>1, <1>2 DEF Checks
<1> QED BY <1>6, <1>7, <1>8, <1>9, <1>10, <1>12, <1>13, <1>14

\* A push copying its record into the cell it owns.
LEMMA PushWriteStep ==
  ASSUME QueueInv, TypeOK', Capacity >= 2, NEW t \in Pushers, PushWrite(t)
  PROVE  QueueInv'
<1> USE CapacityPositive DEF QueueInv, TypeOK
<1> DEFINE p == position[t]
<1> t \in Threads BY DEF Threads
<1>1. /\ pc' = [pc EXCEPT ![t] = "push_publish"] /\ pc[t] = "push_write"
      /\ record' = [record EXCEPT ![CellOf(p)] = arg[t]]
      /\ UNCHANGED <<enqueue_pos, dequeue_pos, sequence, position, arg, out, accepted>>
  BY DEF PushWrite, Goto
<1>2. /\ pc'[t] = "push_publish"
      /\ \A u \in Threads : u # t => pc'[u] = pc[u]
  BY <1>1
<1>3. p \in Nat /\ p \in dequeue_pos .. enqueue_pos - 1 /\ sequence[CellOf(p)] = p
  BY <1>1 DEF PushersOwn, Pushing
<1> HIDE DEF p
<1>4. /\ record'[CellOf(p)] = arg[t]
      /\ \A c \in Cells : c # CellOf(p) => record'[c] = record[c]
  BY <1>1, <1>3, CellRange
<1>5. CountersAgree' /\ FreeCells' /\ PusherClaims' /\ PopperClaims'
  BY <1>1, <1>2 DEF CountersAgree, FreeCells, PusherClaims, PopperClaims, Threads
<1>6. QueuedCells'
  <2> SUFFICES ASSUME NEW q \in dequeue_pos .. enqueue_pos - 1
               PROVE  \/ sequence[CellOf(q)] = q
                      \/ sequence[CellOf(q)] = q + 1 /\ record'[CellOf(q)] = accepted[q + 1]
    BY <1>1 DEF QueuedCells
  <2>1. CASE q = p BY <2>1, <1>3
  <2>2. CASE q # p
    <3>1. CellOf(q) # CellOf(p) BY <2>2, <1>3, NearPositions DEF CountersAgree
    <3>2. CellOf(q) \in Cells BY CellRange
    <3>3. record'[CellOf(q)] = record[CellOf(q)] BY <3>1, <3>2, <1>4
    <3> QED BY <3>3 DEF QueuedCells
  <2> QED BY <2>1, <2>2
<1>7. ASSUME NEW u \in Threads, u # t, Pushing(u) \/ Popping(u)
      PROVE  record'[CellOf(position[u])] = record[CellOf(position[u])]
  <2>1. CellOf(position[u]) # CellOf(p)
    BY <1>1, <1>7, OwnersApart DEF Pushing, p
  <2>2. position[u] \in Nat OBVIOUS
  <2> QED BY <2>1, <2>2, <1>4, CellRange
<1>8. PushersOwn'
  BY <1>1, <1>2, <1>4, <1>7 DEF PushersOwn, Pushing, Threads, p
<1>9. PoppersOwn'
  BY <1>1, <1>2, <1>7 DEF PoppersOwn, Popping, Threads
<1>10. OneOwner' /\ Checks'
  BY <1>1, <1>2 DEF OneOwner, Checks, Pushing, Popping
<1> QED BY <1>5, <1>6, <1>8, <1>9, <1>10

\* A push handing its cell to the readers.
LEMMA PushPublishStep ==
  ASSUME QueueInv, TypeOK', Capacity >= 2, NEW t \in Pushers, PushPublish(t)
  PROVE  QueueInv'
<1> USE CapacityPositive DEF QueueInv, TypeOK
<1> DEFINE p == position[t]
<1> t \in Threads BY DEF Threads
<1>1. /\ pc' = [pc EXCEPT ![t] = "idle"] /\ pc[t] = "push_publish"
      /\ sequence' = [sequence EXCEPT ![CellOf(p)] = p + 1]
      /\ UNCHANGED <<enqueue_pos, dequeue_pos, record, position, arg, out, accepted>>
  BY DEF PushPublish, Goto
<1>2. /\ pc'[t] = "idle"
      /\ \A u \in Threads : u # t => pc'[u] = pc[u]
  BY <1>1
<1>3. /\ p \in Nat
      /\ p \in dequeue_pos .. enqueue_pos - 1
      /\ sequence[CellOf(p)] = p
      /\ record[CellOf(p)] = accepted[p + 1]
  BY <1>1 DEF PushersOwn, Pushing
<1> HIDE DEF p
<1>4. /\ sequence'[CellOf(p)] = p + 1
      /\ \A c \in Cells : c # CellOf(p) => sequence'[c] = sequence[c]
  BY <1>1, <1>3, CellRange
\* Every other cell keeps its number: the positions about to be asked of.
<1>5. ASSUME NEW q \in Nat, q # p, q < p + Capacity, p < q + Capacity
      PROVE  sequence'[CellOf(q)] = sequence[CellOf(q)]
  <2>1. CellOf(q) # CellOf(p) BY <1>3, <1>5, NearPositions
  <2>2. CellOf(q) \in Cells BY CellRange
  <2> QED BY <2>1, <2>2, <1>4
<1>6. CountersAgree' BY <1>1 DEF CountersAgree
<1>7. QueuedCells'
  <2> SUFFICES ASSUME NEW q \in dequeue_pos .. enqueue_pos - 1
               PROVE  \/ sequence'[CellOf(q)] = q
                      \/ sequence'[CellOf(q)] = q + 1 /\ record[CellOf(q)] = accepted[q + 1]
    BY <1>1 DEF QueuedCells
  <2>1. CASE q = p BY <2>1, <1>3, <1>4
  <2>2. CASE q # p
    <3>1. q \in Nat /\ q < p + Capacity /\ p < q + Capacity BY <1>3 DEF CountersAgree
    <3>2. sequence'[CellOf(q)] = sequence[CellOf(q)] BY <2>2, <3>1, <1>5
    <3> QED BY <3>2 DEF QueuedCells
  <2> QED BY <2>1, <2>2
<1>8. FreeCells'
  <2> SUFFICES ASSUME NEW q \in enqueue_pos .. dequeue_pos + Capacity - 1
               PROVE  \/ sequence'[CellOf(q)] = q
                      \/ sequence'[CellOf(q)] + Capacity = q + 1
    BY <1>1 DEF FreeCells
  <2>1. q \in Nat /\ q # p /\ q < p + Capacity /\ p < q + Capacity BY <1>3
  <2>2. sequence'[CellOf(q)] = sequence[CellOf(q)] BY <2>1, <1>5
  <2> QED BY <2>2 DEF FreeCells
<1>9. PusherClaims'
  <2>1. enqueue_pos < dequeue_pos + Capacity =>
          sequence'[CellOf(enqueue_pos)] = sequence[CellOf(enqueue_pos)]
    BY <1>3, <1>5
  <2> QED BY <1>1, <1>2, <2>1 DEF PusherClaims, Threads
<1>10. PopperClaims'
  <2>1. dequeue_pos # p => sequence'[CellOf(dequeue_pos)] = sequence[CellOf(dequeue_pos)]
    BY <1>3, <1>5 DEF CountersAgree
  <2>2. dequeue_pos = p => sequence'[CellOf(dequeue_pos)] = dequeue_pos + 1
    BY <1>4
  <2> QED BY <1>1, <1>2, <2>1, <2>2 DEF PopperClaims, Threads
<1>11. ASSUME NEW u \in Threads, u # t, Pushing(u) \/ Popping(u)
       PROVE  sequence'[CellOf(position[u])] = sequence[CellOf(position[u])]
  <2>1. CellOf(position[u]) # CellOf(p)
    BY <1>1, <1>11, OwnersApart DEF Pushing, p
  <2>2. CellOf(position[u]) \in Cells BY CellRange
  <2> QED BY <2>1, <2>2, <1>4
<1>12. PushersOwn'
  BY <1>1, <1>2, <1>11 DEF PushersOwn, Pushing, Threads
<1>13. PoppersOwn'
  BY <1>1, <1>2, <1>11 DEF PoppersOwn, Popping, Threads
<1>14. OneOwner' /\ Checks'
  BY <1>1, <1>2 DEF OneOwner, Checks, Pushing, Popping
<1> QED BY <1>6, <1>7, <1>8, <1>9, <1>10, <1>12, <1>13, <1>14

\* A pop winning its position.
LEMMA PopClaimStep ==
  ASSUME QueueInv, TypeOK', Capacity >= 2, NEW t \in Poppers, PopClaim(t)
  PROVE  QueueInv'
<1> USE CapacityPositive DEF QueueInv, TypeOK
<1> t \in Threads BY DEF Threads
<1>1. /\ pc' = [pc EXCEPT ![t] = "pop_copy"] /\ pc[t] = "pop_claim"
      /\ position[t] = dequeue_pos
      /\ dequeue_pos' = dequeue_pos + 1
      /\ UNCHANGED <<enqueue_pos, sequence, record, position, arg, out, accepted>>
  BY DEF PopClaim, Goto
<1>2. /\ pc'[t] = "pop_copy"
      /\ \A u \in Threads : u # t => pc'[u] = pc[u]
  BY <1>1
<1>3. /\ dequeue_pos < enqueue_pos
      /\ sequence[CellOf(dequeue_pos)] = dequeue_pos + 1
  BY <1>1 DEF PopperClaims
<1>4. record[CellOf(dequeue_pos)] = accepted[dequeue_pos + 1]
  <2>1. dequeue_pos \in dequeue_pos .. enqueue_pos - 1 BY <1>3
  <2> QED BY <2>1, <1>3 DEF QueuedCells
<1>5. CountersAgree' BY <1>1, <1>3 DEF CountersAgree
<1>6. QueuedCells' BY <1>1 DEF QueuedCells
<1>7. FreeCells'
  <2> SUFFICES ASSUME NEW q \in enqueue_pos .. dequeue_pos + Capacity
               PROVE  \/ sequence[CellOf(q)] = q
                      \/ sequence[CellOf(q)] + Capacity = q + 1
    BY <1>1 DEF FreeCells
  <2>1. CASE q = dequeue_pos + Capacity
    <3>1. CellOf(q) = CellOf(dequeue_pos) BY <2>1, CellOfNextLap
    <3> QED BY <3>1, <2>1, <1>3
  <2>2. CASE q # dequeue_pos + Capacity
    <3>1. q \in enqueue_pos .. dequeue_pos + Capacity - 1 BY <2>2
    <3> QED BY <3>1 DEF FreeCells
  <2> QED BY <2>1, <2>2
<1>8. PusherClaims' /\ PopperClaims'
  BY <1>1, <1>2 DEF PusherClaims, PopperClaims, Threads
<1>9. ASSUME NEW u \in Pushers, Pushing(u)
      PROVE  position[u] # dequeue_pos
  BY <1>3, <1>9 DEF PushersOwn
<1>10. PushersOwn'
  <2>1. \A u \in Pushers : Pushing(u)' => Pushing(u) /\ pc'[u] = pc[u]
    BY <1>1, <1>2 DEF Pushing, Threads
  <2>2. \A u \in Pushers : Pushing(u) => position[u] \in dequeue_pos' .. enqueue_pos - 1
    BY <1>1, <1>9 DEF PushersOwn
  <2> QED BY <1>1, <2>1, <2>2 DEF PushersOwn
<1>11. PoppersOwn'
  <2>1. ASSUME NEW u \in Poppers, Popping(u)', u # t
        PROVE  Popping(u) /\ pc'[u] = pc[u] /\ position[u] < dequeue_pos'
    <3>1. Popping(u) /\ pc'[u] = pc[u] BY <1>1, <1>2, <2>1 DEF Popping, Threads
    <3>2. position[u] \in Nat BY DEF Threads
    <3> QED BY <3>1, <3>2, <1>1 DEF PoppersOwn
  <2> QED BY <1>1, <1>2, <1>3, <1>4, <2>1 DEF PoppersOwn, CountersAgree
<1>12. OneOwner'
  <2>1. \A u \in Threads : Pushing(u) \/ Popping(u) => position[u] # dequeue_pos
    BY <1>9 DEF PoppersOwn, Pushing, Popping
  <2> QED BY <1>1, <1>2, <2>1 DEF OneOwner, Pushing, Popping
<1>13. Checks'
  BY <1>1, <1>2 DEF Checks
<1> QED BY <1>5, <1>6, <1>7, <1>8, <1>10, <1>11, <1>12, <1>13

\* A pop copying the record out of the cell it owns.
LEMMA PopCopyStep ==
  ASSUME QueueInv, TypeOK', NEW t \in Poppers, PopCopy(t)
  PROVE  QueueInv'
<1> USE DEF QueueInv, TypeOK
<1> t \in Threads BY DEF Threads
<1>1. /\ pc' = [pc EXCEPT ![t] = "pop_release"] /\ pc[t] = "pop_copy"
      /\ out' = [out EXCEPT ![t] = record[CellOf(position[t])]]
      /\ UNCHANGED <<enqueue_pos, dequeue_pos, sequence, record, position, arg, accepted>>
  BY DEF PopCopy, Goto
<1>2. /\ pc'[t] = "pop_release"
      /\ \A u \in Threads : u # t => pc'[u] = pc[u]
  BY <1>1
<1>3. /\ out'[t] = record[CellOf(position[t])]
      /\ \A u \in Poppers : u # t => out'[u] = out[u]
  BY <1>1
<1>4. CountersAgree' /\ QueuedCells' /\ FreeCells' /\ PusherClaims' /\ PopperClaims'
  BY <1>1, <1>2
  DEF CountersAgree, QueuedCells, FreeCells, PusherClaims, PopperClaims, Threads
<1>5. PushersOwn' /\ OneOwner' /\ Checks'
  BY <1>1, <1>2 DEF PushersOwn, OneOwner, Checks, Pushing, Popping, Threads
<1>6. PoppersOwn'
  BY <1>1, <1>2, <1>3 DEF PoppersOwn, Popping, Threads
<1> QED BY <1>4, <1>5, <1>6

\* A pop handing its cell to the push one lap later.
LEMMA PopReleaseStep ==
  ASSUME QueueInv, TypeOK', Capacity >= 2, NEW t \in Poppers, PopRelease(t)
  PROVE  QueueInv'
<1> USE CapacityPositive DEF QueueInv, TypeOK
<1> DEFINE p == position[t]
<1> t \in Threads BY DEF Threads
<1>1. /\ pc' = [pc EXCEPT ![t] = "idle"] /\ pc[t] = "pop_release"
      /\ sequence' = [sequence EXCEPT ![CellOf(p)] = p + Capacity]
      /\ UNCHANGED <<enqueue_pos, dequeue_pos, record, position, arg, out, accepted>>
  BY DEF PopRelease, Goto
<1>2. /\ pc'[t] = "idle"
      /\ \A u \in Threads : u # t => pc'[u] = pc[u]
  BY <1>1
<1>3. /\ p \in Nat
      /\ p < dequeue_pos /\ enqueue_pos <= p + Capacity
      /\ sequence[CellOf(p)] = p + 1
  BY <1>1 DEF PoppersOwn, Popping
<1> HIDE DEF p
<1>4. /\ sequence'[CellOf(p)] = p + Capacity
      /\ \A c \in Cells : c # CellOf(p) => sequence'[c] = sequence[c]
  BY <1>1, <1>3, CellRange
<1>5. ASSUME NEW q \in Nat, q # p, q < p + Capacity, p < q + Capacity
      PROVE  sequence'[CellOf(q)] = sequence[CellOf(q)]
  <2>1. CellOf(q) # CellOf(p) BY <1>3, <1>5, NearPositions
  <2>2. CellOf(q) \in Cells BY CellRange
  <2> QED BY <2>1, <2>2, <1>4
<1>6. CountersAgree' BY <1>1 DEF CountersAgree
<1>7. QueuedCells'
  <2> SUFFICES ASSUME NEW q \in dequeue_pos .. enqueue_pos - 1
               PROVE  \/ sequence'[CellOf(q)] = q
                      \/ sequence'[CellOf(q)] = q + 1 /\ record[CellOf(q)] = accepted[q + 1]
    BY <1>1 DEF QueuedCells
  <2>1. q \in Nat /\ q # p /\ q < p + Capacity /\ p < q + Capacity BY <1>3
  <2>2. sequence'[CellOf(q)] = sequence[CellOf(q)] BY <2>1, <1>5
  <2> QED BY <2>2 DEF QueuedCells
<1>8. FreeCells'
  <2> SUFFICES ASSUME NEW q \in enqueue_pos .. dequeue_pos + Capacity - 1
               PROVE  \/ sequence'[CellOf(q)] = q
                      \/ sequence'[CellOf(q)] + Capacity = q + 1
    BY <1>1 DEF FreeCells
  <2>1. CASE q = p + Capacity
    <3>1. CellOf(q) = CellOf(p) BY <2>1, <1>3, CellOfNextLap
    <3> QED BY <3>1, <2>1, <1>4
  <2>2. CASE q # p + Capacity
    <3>1. CellOf(p + Capacity) = CellOf(p) BY <1>3, CellOfNextLap
    <3>2. p + Capacity \in Nat /\ q \in Nat BY <1>3
    <3>3. q < (p + Capacity) + Capacity /\ p + Capacity < q + Capacity
      BY <1>3 DEF CountersAgree
    <3>4. CellOf(q) # CellOf(p) BY <2>2, <3>1, <3>2, <3>3, NearPositions
    <3>5. CellOf(q) \in Cells BY <3>2, CellRange
    <3>6. sequence'[CellOf(q)] = sequence[CellOf(q)] BY <3>4, <3>5, <1>4
    <3> QED BY <3>6 DEF FreeCells
  <2> QED BY <2>1, <2>2
<1>9. PusherClaims'
  <2>1. CASE enqueue_pos = p + Capacity
    <3>1. sequence'[CellOf(enqueue_pos)] = enqueue_pos
      BY <2>1, <1>3, <1>4, CellOfNextLap
    <3> QED BY <1>1, <1>2, <3>1 DEF PusherClaims, Threads
  <2>2. CASE enqueue_pos # p + Capacity
    <3>1. enqueue_pos # p /\ enqueue_pos < p + Capacity /\ p < enqueue_pos + Capacity
      BY <2>2, <1>3 DEF CountersAgree
    <3>2. sequence'[CellOf(enqueue_pos)] = sequence[CellOf(enqueue_pos)] BY <3>1, <1>5
    <3> QED BY <1>1, <1>2, <3>2 DEF PusherClaims, Threads
  <2> QED BY <2>1, <2>2
<1>10. PopperClaims'
  <2>1. dequeue_pos < enqueue_pos =>
          sequence'[CellOf(dequeue_pos)] = sequence[CellOf(dequeue_pos)]
    BY <1>3, <1>5
  <2> QED BY <1>1, <1>2, <2>1 DEF PopperClaims, Threads
<1>11. ASSUME NEW u \in Threads, u # t, Pushing(u) \/ Popping(u)
       PROVE  sequence'[CellOf(position[u])] = sequence[CellOf(position[u])]
  <2>1. CellOf(position[u]) # CellOf(p)
    BY <1>1, <1>11, OwnersApart DEF Popping, p
  <2>2. CellOf(position[u]) \in Cells BY CellRange
  <2> QED BY <2>1, <2>2, <1>4
<1>12. PushersOwn'
  BY <1>1, <1>2, <1>11 DEF PushersOwn, Pushing, Threads
<1>13. PoppersOwn'
  BY <1>1, <1>2, <1>11 DEF PoppersOwn, Popping, Threads
<1>14. OneOwner' /\ Checks'
  BY <1>1, <1>2 DEF OneOwner, Checks, Pushing, Popping
<1> QED BY <1>6, <1>7, <1>8, <1>9, <1>10, <1>12, <1>13, <1>14

\* Every step of the queue keeps the invariant, from two cells up.
LEMMA InvNext ==
  ASSUME Capacity >= 2, QueueInv, [Next]_vars
  PROVE  QueueInv'
<1>1. TypeOK' BY TypeNext DEF QueueInv
<1>2. ASSUME NEW t \in Pushers, PushStep(t)
      PROVE  QueueInv'
  <2> t \in Threads BY DEF Threads
  <2> USE DEF QueueInv, TypeOK
  <2>1. ASSUME NEW r \in Records, PushBegin(t, r) PROVE QueueInv'
    <3>1. PICK p \in Loads(enqueue_pos, 0) : position' = [position EXCEPT ![t] = p]
      BY <2>1 DEF PushBegin, MoveTo
    <3>2. p <= enqueue_pos BY DEF Loads
    <3>3. position'[t] <= enqueue_pos /\ \A u \in Threads : u # t => position'[u] = position[u]
      BY <3>1, <3>2
    <3>4. \A u \in Pushers : u # t => arg'[u] = arg[u] BY <2>1 DEF PushBegin
    <3>5. pc' = [pc EXCEPT ![t] = "push_check"] BY <2>1 DEF PushBegin, Goto
    <3>6. UNCHANGED <<enqueue_pos, dequeue_pos, sequence, record, out, accepted>>
      BY <2>1 DEF PushBegin
    <3> HIDE DEF QueueInv, TypeOK
    <3> QED BY <1>1, <3>3, <3>4, <3>5, <3>6, LocalStep
  <2>2. CASE PushFree(t) BY <1>1, <2>2, PushFreeStep
  <2>3. CASE PushFull(t) BY <1>1, <2>3, LocalStep DEF PushFull, Goto
  <2>4. CASE PushRetry(t) BY <1>1, <2>4, LocalStep DEF PushRetry, MoveTo, Loads
  <2>5. CASE PushClaim(t) BY <1>1, <2>5, PushClaimStep
  <2>6. CASE PushClaimFails(t)
    <3>1. position' = [position EXCEPT ![t] = enqueue_pos] BY <2>6 DEF PushClaimFails, MoveTo
    <3>2. position'[t] <= enqueue_pos /\ \A u \in Threads : u # t => position'[u] = position[u]
      BY <3>1
    <3>3. pc' = [pc EXCEPT ![t] = "push_check"] BY <2>6 DEF PushClaimFails, Goto
    <3>4. UNCHANGED <<enqueue_pos, dequeue_pos, sequence, record, arg, out, accepted>>
      BY <2>6 DEF PushClaimFails
    <3> HIDE DEF QueueInv, TypeOK
    <3> QED BY <1>1, <3>2, <3>3, <3>4, LocalStep
  <2>7. CASE PushWrite(t) BY <1>1, <2>7, PushWriteStep
  <2>8. CASE PushPublish(t) BY <1>1, <2>8, PushPublishStep
  <2> QED BY <1>2, <2>1, <2>2, <2>3, <2>4, <2>5, <2>6, <2>7, <2>8 DEF PushStep
<1>3. ASSUME NEW t \in Poppers, PopStep(t)
      PROVE  QueueInv'
  <2> t \in Threads BY DEF Threads
  <2> USE DEF QueueInv, TypeOK
  <2>1. CASE PopBegin(t)
    <3>1. PICK p \in Loads(dequeue_pos, 0) : position' = [position EXCEPT ![t] = p]
      BY <2>1 DEF PopBegin, MoveTo
    <3>2. p <= dequeue_pos BY DEF Loads
    <3>3. position'[t] <= dequeue_pos /\ \A u \in Threads : u # t => position'[u] = position[u]
      BY <3>1, <3>2
    <3>4. pc' = [pc EXCEPT ![t] = "pop_check"] BY <2>1 DEF PopBegin, Goto
    <3>5. UNCHANGED <<enqueue_pos, dequeue_pos, sequence, record, arg, out, accepted>>
      BY <2>1 DEF PopBegin
    <3> HIDE DEF QueueInv, TypeOK
    <3> QED BY <1>1, <3>3, <3>4, <3>5, LocalStep
  <2>2. CASE PopReady(t) BY <1>1, <2>2, PopReadyStep
  <2>3. CASE PopEmpty(t) BY <1>1, <2>3, LocalStep DEF PopEmpty, Goto
  <2>4. CASE PopRetry(t) BY <1>1, <2>4, LocalStep DEF PopRetry, MoveTo, Loads
  <2>5. CASE PopClaim(t) BY <1>1, <2>5, PopClaimStep
  <2>6. CASE PopClaimFails(t)
    <3>1. position' = [position EXCEPT ![t] = dequeue_pos] BY <2>6 DEF PopClaimFails, MoveTo
    <3>2. position'[t] <= dequeue_pos /\ \A u \in Threads : u # t => position'[u] = position[u]
      BY <3>1
    <3>3. pc' = [pc EXCEPT ![t] = "pop_check"] BY <2>6 DEF PopClaimFails, Goto
    <3>4. UNCHANGED <<enqueue_pos, dequeue_pos, sequence, record, arg, out, accepted>>
      BY <2>6 DEF PopClaimFails
    <3> HIDE DEF QueueInv, TypeOK
    <3> QED BY <1>1, <3>2, <3>3, <3>4, LocalStep
  <2>7. CASE PopCopy(t) BY <1>1, <2>7, PopCopyStep
  <2>8. CASE PopRelease(t) BY <1>1, <2>8, PopReleaseStep
  <2> QED BY <1>3, <2>1, <2>2, <2>3, <2>4, <2>5, <2>6, <2>7, <2>8 DEF PopStep
<1>4. CASE UNCHANGED vars
  BY <1>4 DEF vars, QueueInv, TypeOK, CountersAgree, QueuedCells, FreeCells, PusherClaims,
              PopperClaims, PushersOwn, PoppersOwn, OneOwner, Checks, Pushing, Popping
<1> QED BY <1>2, <1>3, <1>4 DEF Next

-----------------------------------------------------------------------------
\* The invariant keeps owners of a cell apart.
LEMMA InvImpliesNoRace == QueueInv => NoRecordRace
BY OwnersApart DEF NoRecordRace

\* Under the invariant the cell at a counter never has a sequence number from
\* the future.
LEMMA InvImpliesProgress == QueueInv => RetryMeansProgress
<1> SUFFICES ASSUME QueueInv PROVE RetryMeansProgress
  OBVIOUS
<1> USE CapacityPositive DEF QueueInv, TypeOK, CountersAgree
<1>1. sequence[CellOf(dequeue_pos)] <= dequeue_pos + 1
  <2>1. CASE dequeue_pos < enqueue_pos
    <3>1. dequeue_pos \in dequeue_pos .. enqueue_pos - 1 BY <2>1
    <3>2. \/ sequence[CellOf(dequeue_pos)] = dequeue_pos
          \/ sequence[CellOf(dequeue_pos)] = dequeue_pos + 1
      BY <3>1 DEF QueuedCells
    <3> QED BY <3>2
  <2>2. CASE dequeue_pos = enqueue_pos
    <3>1. dequeue_pos \in enqueue_pos .. dequeue_pos + Capacity - 1 BY <2>2
    <3>2. \/ sequence[CellOf(dequeue_pos)] = dequeue_pos
          \/ sequence[CellOf(dequeue_pos)] + Capacity = dequeue_pos + 1
      BY <3>1 DEF FreeCells
    <3>3. sequence[CellOf(dequeue_pos)] \in Nat BY CellRange
    <3> QED BY <3>2, <3>3
  <2> QED BY <2>1, <2>2
<1>2. sequence[CellOf(enqueue_pos)] <= enqueue_pos
  <2>1. CASE enqueue_pos < dequeue_pos + Capacity
    <3>1. enqueue_pos \in enqueue_pos .. dequeue_pos + Capacity - 1 BY <2>1
    <3>2. \/ sequence[CellOf(enqueue_pos)] = enqueue_pos
          \/ sequence[CellOf(enqueue_pos)] + Capacity = enqueue_pos + 1
      BY <3>1 DEF FreeCells
    <3>3. sequence[CellOf(enqueue_pos)] \in Nat BY CellRange
    <3> QED BY <3>2, <3>3
  <2>2. CASE enqueue_pos = dequeue_pos + Capacity
    <3>1. CellOf(enqueue_pos) = CellOf(dequeue_pos) BY <2>2, CellOfNextLap
    <3>2. sequence[CellOf(dequeue_pos)] \in Nat BY CellRange
    <3> QED BY <3>1, <3>2, <2>2, <1>1
  <2> QED BY <2>1, <2>2
<1> QED BY <1>1, <1>2 DEF RetryMeansProgress

\* Sequence numbers, counters and threads of Logger::Queue agree for ever, for
\* any number of threads and any capacity but one, where the code breaks it.
THEOREM QueueInvariant ==
  ASSUME Capacity >= 2
  PROVE  Spec => []QueueInv
<1>1. QueueInv /\ [Next]_vars => QueueInv' BY InvNext
<1> QED BY <1>1, InvInit, PTL DEF Spec

\* The unlocked copies of a record in Push and Pop never race on a cell.
THEOREM RecordsNeverRace ==
  ASSUME Capacity >= 2
  PROVE  Spec => []NoRecordRace
BY QueueInvariant, InvImpliesNoRace, PTL

\* The retry loops of Push and Pop never spin on a counter nobody moved.
THEOREM RetriesAlwaysProgress ==
  ASSUME Capacity >= 2
  PROVE  Spec => []RetryMeansProgress
BY QueueInvariant, InvImpliesProgress, PTL

-----------------------------------------------------------------------------
(* Logger::Queue implements a bounded first-in first-out queue, for any      *)
(* number of threads and any capacity but one.                               *)
\* A step that moves neither a counter nor what a reader holds is a stutter.
LEMMA Stutter ==
  ASSUME UNCHANGED <<enqueue_pos, dequeue_pos, accepted>>,
         \A u \in Poppers : FifoHolding'[u] = FifoHolding[u]
  PROVE  UNCHANGED Fifo!fifoVars
<1>1. FifoItems' = FifoItems BY DEF FifoItems
<1>2. FifoHolding' = FifoHolding BY DEF FifoHolding
<1> QED BY <1>1, <1>2 DEF Fifo!fifoVars

\* A pusher's step leaves the readers' holdings alone if it leaves the record
\* at every reader's position: pc and position of other threads are unchanged.
LEMMA HoldingKept ==
  ASSUME TypeOK,
         NEW t \in Threads,
         pc[t] # "pop_copy", pc'[t] # "pop_copy",
         \A u \in Threads : u # t => pc'[u] = pc[u] /\ position'[u] = position[u],
         \A u \in Poppers : out'[u] = out[u],
         \A u \in Poppers : pc[u] = "pop_copy" =>
           accepted'[position[u] + 1] = accepted[position[u] + 1]
  PROVE  \A u \in Poppers : FifoHolding'[u] = FifoHolding[u]
BY DEF FifoHolding, Threads

\* A new queue is an empty buffer.
LEMMA FifoInit == Init => Fifo!Init
<1> SUFFICES ASSUME Init PROVE Fifo!Init OBVIOUS
<1>1. FifoItems = <<>> BY DEF Init, FifoItems
<1>2. FifoHolding = [t \in Poppers |-> NoRecord]
  BY DEF Init, FifoHolding, Threads
<1> QED BY <1>1, <1>2 DEF Fifo!Init

-----------------------------------------------------------------------------
\* Appending one element to a sequence appends it to every suffix.
LEMMA SuffixOfAppend ==
  ASSUME NEW S, NEW s \in Seq(S), NEW x \in S, NEW m \in 0 .. Len(s)
  PROVE  SubSeq(Append(s, x), m + 1, Len(s) + 1) = Append(SubSeq(s, m + 1, Len(s)), x)
<1> DEFINE a == Append(s, x)
           L == Len(s)
           b == SubSeq(s, m + 1, L)
<1>1. /\ L \in Nat /\ a \in Seq(S) /\ Len(a) = L + 1 /\ a[L + 1] = x
      /\ a = s \o <<x>> /\ <<x>> \in Seq(S)
  BY AppendProperties, AppendIsConcat
<1>2. m + 1 \in 1 .. Len(a) /\ L + 1 \in m + 1 .. Len(a) BY <1>1
<1>3. SubSeq(a, m + 1, L + 1) = SubSeq(a, m + 1, (L + 1) - 1) \o <<a[L + 1]>>
  BY <1>1, <1>2, SubSeqRecursiveSecond
<1>4. SubSeq(a, m + 1, L) = b
  <2>1. CASE m = L BY <2>1, <1>1, SubSeqEmpty
  <2>2. CASE m < L
    <3>1. m + 1 \in 1 .. Len(s) /\ L \in 1 .. Len(s) BY <2>2, <1>1
    <3> QED BY <3>1, <1>1, SubSeqOfConcat1
  <2> QED BY <2>1, <2>2, <1>1
<1>5. b \in Seq(S)
  <2>1. \A i \in m + 1 .. L : s[i] \in S BY <1>1
  <2> QED BY <2>1, <1>1, SubSeqProperties
<1>6. (L + 1) - 1 = L BY <1>1
<1> QED BY <1>1, <1>3, <1>4, <1>5, <1>6, AppendIsConcat

\* A suffix that is not empty starts at its first position and goes on with
\* the suffix after it.
LEMMA HeadOfSuffix ==
  ASSUME NEW S, NEW s \in Seq(S), NEW m \in 0 .. Len(s) - 1
  PROVE  /\ SubSeq(s, m + 1, Len(s)) # <<>>
         /\ Head(SubSeq(s, m + 1, Len(s))) = s[m + 1]
         /\ Tail(SubSeq(s, m + 1, Len(s))) = SubSeq(s, m + 2, Len(s))
<1>1. m + 1 \in 1 .. Len(s) /\ Len(s) \in m + 1 .. Len(s) /\ (m + 1) + 1 = m + 2
  OBVIOUS
<1>2. Len(SubSeq(s, m + 1, Len(s))) = Len(s) - m
  <2>1. \A i \in m + 1 .. Len(s) : s[i] \in S BY <1>1
  <2> QED BY <2>1, <1>1, SubSeqProperties
<1>3. SubSeq(s, m + 1, Len(s)) # <<>>
  <2>1. Len(SubSeq(s, m + 1, Len(s))) # 0
    <3> DEFINE d == Len(SubSeq(s, m + 1, Len(s)))
               L == Len(s)
    <3>1. d = L - m /\ L \in Nat /\ m \in 0 .. L - 1 BY <1>2
    <3> HIDE DEF d, L
    <3>2. d # 0 BY <3>1
    <3> QED BY <3>2 DEF d
  <2>2. SubSeq(s, m + 1, Len(s)) = <<>> => Len(SubSeq(s, m + 1, Len(s))) = 0 BY EmptySeq
  <2> QED BY <2>1, <2>2
<1> QED BY <1>1, <1>3, HeadTailOfSubSeq

\* A reader between claim and copy is at a position that was accepted.
LEMMA CopierPosition ==
  ASSUME QueueInv, NEW u \in Poppers, pc[u] = "pop_copy"
  PROVE  position[u] + 1 \in 1 .. Len(accepted)
<1>1. Popping(u) BY DEF Popping
<1>2. position[u] < dequeue_pos /\ position[u] \in Nat
  BY <1>1 DEF QueueInv, PoppersOwn, TypeOK, Threads
<1> QED BY <1>2 DEF QueueInv, CountersAgree, TypeOK

\* A push that wins its position puts its record at the back of the buffer,
\* which has room.
LEMMA PutStep ==
  ASSUME QueueInv, NEW t \in Pushers, PushClaim(t)
  PROVE  Fifo!Next
<1> USE DEF QueueInv
<1>1. /\ enqueue_pos \in Nat /\ dequeue_pos \in Nat
      /\ accepted \in Seq(Records) /\ arg[t] \in Records
  BY DEF TypeOK, PushClaim, PushPc
<1>2. Len(accepted) = enqueue_pos /\ dequeue_pos <= enqueue_pos
  BY DEF CountersAgree
<1>3. enqueue_pos < dequeue_pos + Capacity BY DEF PusherClaims, PushClaim
<1>4. accepted' = Append(accepted, arg[t]) /\ enqueue_pos' = enqueue_pos + 1
      /\ dequeue_pos' = dequeue_pos
  BY DEF PushClaim
<1>5. Len(FifoItems) < Capacity
  <2>1. Len(FifoItems) = enqueue_pos - dequeue_pos BY <1>1, <1>2 DEF FifoItems
  <2> QED BY <2>1, <1>1, <1>3, CapacityPositive
<1>6. FifoItems' = Append(FifoItems, arg[t])
  <2>1. dequeue_pos \in 0 .. Len(accepted) BY <1>1, <1>2
  <2>2. SubSeq(Append(accepted, arg[t]), dequeue_pos + 1, Len(accepted) + 1)
          = Append(SubSeq(accepted, dequeue_pos + 1, Len(accepted)), arg[t])
    BY <1>1, <2>1, SuffixOfAppend
  <2> QED BY <2>2, <1>2, <1>4 DEF FifoItems
<1>7. \A u \in Poppers : FifoHolding'[u] = FifoHolding[u]
  <2>1. t \in Threads /\ pc[t] # "pop_copy" BY DEF PushClaim, Threads
  <2>2. pc'[t] # "pop_copy" /\ \A u \in Threads : u # t =>
          pc'[u] = pc[u] /\ position'[u] = position[u]
    BY <2>1 DEF TypeOK, PushClaim, Goto
  <2>3. \A u \in Poppers : pc[u] = "pop_copy" =>
          accepted'[position[u] + 1] = accepted[position[u] + 1]
    BY <1>1, <1>4, CopierPosition
  <2>4. \A u \in Poppers : out'[u] = out[u] BY DEF PushClaim
  <2> QED BY <2>1, <2>2, <2>3, <2>4, HoldingKept
<1>8. UNCHANGED FifoHolding BY <1>7 DEF FifoHolding
<1> HIDE DEF QueueInv
<1>9. Fifo!Put(arg[t]) BY <1>5, <1>6, <1>8 DEF Fifo!Put
<1> QED BY <1>1, <1>9 DEF Fifo!Next

\* A pop that wins its position takes the record at the front of the buffer.
LEMMA TakeStep ==
  ASSUME QueueInv, NEW t \in Poppers, PopClaim(t)
  PROVE  Fifo!Next
<1> USE DEF QueueInv
<1>1. /\ enqueue_pos \in Nat /\ dequeue_pos \in Nat
      /\ accepted \in Seq(Records) /\ t \in Threads
  BY DEF TypeOK, Threads
<1>2. Len(accepted) = enqueue_pos /\ position[t] = dequeue_pos
      /\ dequeue_pos < enqueue_pos
  BY DEF CountersAgree, PopperClaims, PopClaim
<1>3. /\ accepted' = accepted /\ enqueue_pos' = enqueue_pos
      /\ dequeue_pos' = dequeue_pos + 1 /\ position' = position /\ out' = out
      /\ pc' = [pc EXCEPT ![t] = "pop_copy"]
  BY <1>2 DEF PopClaim, Goto
<1>4. dequeue_pos \in 0 .. Len(accepted) - 1 BY <1>1, <1>2
<1>5. /\ FifoItems # <<>>
      /\ Head(FifoItems) = accepted[dequeue_pos + 1]
      /\ Tail(FifoItems) = SubSeq(accepted, dequeue_pos + 2, Len(accepted))
  BY <1>1, <1>2, <1>4, HeadOfSuffix DEF FifoItems
<1>6. FifoItems' = Tail(FifoItems)
  <2>1. dequeue_pos' + 1 = dequeue_pos + 2 BY <1>1, <1>3
  <2> QED BY <2>1, <1>2, <1>3, <1>5 DEF FifoItems
<1>7. FifoHolding' = [FifoHolding EXCEPT ![t] = Head(FifoItems)]
  <2>1. /\ pc'[t] = "pop_copy"
        /\ \A u \in Threads : u # t => pc'[u] = pc[u]
    BY <1>1, <1>3 DEF TypeOK
  <2> QED BY <2>1, <1>2, <1>3, <1>5 DEF FifoHolding, Threads
<1> HIDE DEF QueueInv
<1>8. Fifo!Take(t) BY <1>5, <1>6, <1>7 DEF Fifo!Take
<1> QED BY <1>8 DEF Fifo!Next

\* A reader's copy makes real what it already held.
LEMMA CopyStep ==
  ASSUME QueueInv, NEW t \in Poppers, PopCopy(t)
  PROVE  UNCHANGED Fifo!fifoVars
<1> USE DEF QueueInv
<1>1. UNCHANGED <<enqueue_pos, dequeue_pos, accepted, position>> /\ t \in Threads
  BY DEF PopCopy, Threads
<1>2. /\ pc'[t] = "pop_release"
      /\ \A u \in Threads : u # t => pc'[u] = pc[u]
      /\ \A u \in Poppers : u # t => out'[u] = out[u]
  BY <1>1 DEF PopCopy, Goto, TypeOK
<1>3. out'[t] = accepted[position[t] + 1]
  <2>1. record[CellOf(position[t])] = accepted[position[t] + 1]
    BY DEF PoppersOwn, Popping, PopCopy
  <2>2. out'[t] = record[CellOf(position[t])] BY DEF PopCopy, TypeOK
  <2> QED BY <2>1, <2>2
<1>4. \A u \in Poppers : FifoHolding'[u] = FifoHolding[u]
  BY <1>1, <1>2, <1>3 DEF FifoHolding, Threads, PopCopy
<1> QED BY <1>1, <1>4, Stutter

\* Every other step is invisible to the users of the queue.
LEMMA QuietStep ==
  ASSUME TypeOK,
         NEW t \in Threads, pc[t] # "pop_copy", pc'[t] # "pop_copy",
         \A u \in Threads : u # t => pc'[u] = pc[u] /\ position'[u] = position[u],
         UNCHANGED <<enqueue_pos, dequeue_pos, accepted, out>>
  PROVE  UNCHANGED Fifo!fifoVars
<1>1. \A u \in Poppers : FifoHolding'[u] = FifoHolding[u] BY HoldingKept
<1> QED BY <1>1, Stutter

\* Every step of the queue is a step of the buffer or changes nothing of it.
LEMMA FifoStep ==
  ASSUME QueueInv, [Next]_vars
  PROVE  [Fifo!Next]_Fifo!fifoVars
<1>1. TypeOK BY DEF QueueInv
<1>2. ASSUME NEW t \in Pushers, PushStep(t)
      PROVE  Fifo!Next \/ UNCHANGED Fifo!fifoVars
  <2>1. CASE PushClaim(t) BY <2>1, PutStep
  <2>2. CASE ~PushClaim(t)
    <3>1. /\ pc[t] # "pop_copy" /\ pc'[t] # "pop_copy"
          /\ \A u \in Threads : u # t => pc'[u] = pc[u] /\ position'[u] = position[u]
      BY <1>1, <1>2, <2>2 DEF PushStep, PushBegin, PushFree, PushFull, PushRetry,
         PushClaimFails, PushWrite, PushPublish, Goto, MoveTo, TypeOK, Threads
    <3>2. UNCHANGED <<enqueue_pos, dequeue_pos, accepted, out>>
      BY <1>2, <2>2 DEF PushStep, PushBegin, PushFree, PushFull, PushRetry,
         PushClaimFails, PushWrite, PushPublish
    <3> QED BY <1>1, <3>1, <3>2, QuietStep DEF Threads
  <2> QED BY <2>1, <2>2
<1>3. ASSUME NEW t \in Poppers, PopStep(t)
      PROVE  Fifo!Next \/ UNCHANGED Fifo!fifoVars
  <2>1. CASE PopClaim(t) BY <2>1, TakeStep
  <2>2. CASE PopCopy(t) BY <2>2, CopyStep
  <2>3. CASE ~PopClaim(t) /\ ~PopCopy(t)
    <3>1. /\ pc[t] # "pop_copy" /\ pc'[t] # "pop_copy"
          /\ \A u \in Threads : u # t => pc'[u] = pc[u] /\ position'[u] = position[u]
      BY <1>1, <1>3, <2>3 DEF PopStep, PopBegin, PopReady, PopEmpty, PopRetry,
         PopClaimFails, PopRelease, Goto, MoveTo, TypeOK, Threads
    <3>2. UNCHANGED <<enqueue_pos, dequeue_pos, accepted, out>>
      BY <1>3, <2>3 DEF PopStep, PopBegin, PopReady, PopEmpty, PopRetry,
         PopClaimFails, PopRelease
    <3> QED BY <1>1, <3>1, <3>2, QuietStep DEF Threads
  <2> QED BY <2>1, <2>2, <2>3
<1>4. CASE UNCHANGED vars
  BY <1>4 DEF vars, FifoItems, FifoHolding, Fifo!fifoVars
<1> QED BY <1>2, <1>3, <1>4 DEF Next

\* Logger::Queue is a bounded first-in first-out buffer to its users: records
\* come out once each, whole, in the order they were accepted, never more than
\* Capacity of them at a time.
THEOREM ImplementsFifoQueue ==
  ASSUME Capacity >= 2
  PROVE  Spec => ImplementsFifo
<1>1. Init => Fifo!Init BY FifoInit
<1>2. QueueInv /\ [Next]_vars => [Fifo!Next]_Fifo!fifoVars BY FifoStep
<1> QED BY <1>1, <1>2, QueueInvariant, PTL DEF Spec, ImplementsFifo, Fifo!Spec
=============================================================================

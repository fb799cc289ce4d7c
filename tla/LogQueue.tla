------------------------------ MODULE LogQueue ------------------------------
(***************************************************************************)
(* Logger::Queue (engine/core/logging/logger.cc): the lock-free ring of    *)
(* cells between the threads that submit log records and the threads that  *)
(* write them (the worker, and every caller of Flush).                     *)
(*                                                                         *)
(* A step is one atomic operation of the code, or the copy of one record.  *)
(* A cell's sequence number says whose turn it is: p when the cell waits   *)
(* for the push at position p, p + 1 when it holds that push's record, and *)
(* p + Capacity once the record is out.                                    *)
(*                                                                         *)
(* Loads are relaxed or acquire in the code, so here they may return any   *)
(* value the location has held (Loads, SequenceLoads), a superset of what  *)
(* the C++ memory model allows; read-modify-writes see the last one.  A    *)
(* failing compare_exchange_weak hands back the current position and may   *)
(* fail for no reason.                                                     *)
(***************************************************************************)
EXTENDS Integers, Sequences

CONSTANTS
  Pushers,            \* threads that call Push
  Poppers,            \* threads that call Pop; a thread may be in both sets
  Records,            \* the records, told apart by identity only
  NoRecord,           \* a cell's or a caller's default-constructed record
  RequestedCapacity,  \* LoggerConfig::queue_capacity
  Capacity,           \* the number of cells the constructor allocates
  MaxPushes           \* bound: no push begins once this many were accepted

\* logger.cc's NextPowerOfTwo: doubling from one until it reaches value.
NextPowerOfTwo(value) ==
  LET powers == {2 ^ k : k \in 0 .. value}
  IN  CHOOSE p \in powers : /\ p >= value
                            /\ \A q \in powers : q >= value => p <= q

ASSUME QueueAssumption ==
  /\ RequestedCapacity \in Nat
  /\ Capacity \in Nat \ {0}
  /\ Capacity = NextPowerOfTwo(RequestedCapacity)
  /\ MaxPushes \in Nat
  /\ NoRecord \notin Records

VARIABLES
  enqueue_pos,  \* positions claimed by pushes
  dequeue_pos,  \* positions claimed by pops
  sequence,     \* each cell's sequence number
  record,       \* each cell's record
  pc,           \* where each thread is inside Push or Pop
  position,     \* each thread's local `position`
  arg,          \* the record each pusher is pushing
  out,          \* what each popper last copied to *out_record
  accepted      \* history: the record pushed at each position, in order

vars == <<enqueue_pos, dequeue_pos, sequence, record, pc, position, arg, out,
          accepted>>

Threads == Pushers \cup Poppers
Cells == 0 .. Capacity - 1

\* position & mask_, the capacity being a power of two.
CellOf(p) == p % Capacity

PushPc == {"push_check", "push_claim", "push_write", "push_publish"}
PopPc == {"pop_check", "pop_claim", "pop_copy", "pop_release"}
Pc == {"idle"} \cup PushPc \cup PopPc

\* What a load of a position counter may return to a thread that has already
\* seen the value `seen` of it.
Loads(counter, seen) == seen .. counter

\* What a load of the sequence number of cell c may return: a value it has held.
SequenceLoads(c) ==
  {s \in c .. sequence[c] : s % Capacity \in {c, CellOf(c + 1)}}

-----------------------------------------------------------------------------
Init ==
  /\ enqueue_pos = 0
  /\ dequeue_pos = 0
  /\ sequence = [c \in Cells |-> c]
  /\ record = [c \in Cells |-> NoRecord]
  /\ pc = [t \in Threads |-> "idle"]
  /\ position = [t \in Threads |-> 0]
  /\ arg = [t \in Pushers |-> NoRecord]
  /\ out = [t \in Poppers |-> NoRecord]
  /\ accepted = <<>>

Goto(t, label) == pc' = [pc EXCEPT ![t] = label]
MoveTo(t, p) == position' = [position EXCEPT ![t] = p]

-----------------------------------------------------------------------------
(* Push.  PushFull is `return false`; PushRetry reloads the position.      *)

PushBegin(t, r) ==
  /\ pc[t] = "idle"
  /\ enqueue_pos < MaxPushes
  /\ \E p \in Loads(enqueue_pos, 0) : MoveTo(t, p)
  /\ Goto(t, "push_check")
  /\ arg' = [arg EXCEPT ![t] = r]
  /\ UNCHANGED <<enqueue_pos, dequeue_pos, sequence, record, out, accepted>>

\* A push that takes any cell for a free one.
PushFreeUnchecked(t) ==
  /\ pc[t] = "push_check"
  /\ Goto(t, "push_claim")
  /\ UNCHANGED <<enqueue_pos, dequeue_pos, sequence, record, position, arg, out,
                 accepted>>

PushFree(t) ==
  /\ pc[t] = "push_check"
  /\ position[t] \in SequenceLoads(CellOf(position[t]))
  /\ Goto(t, "push_claim")
  /\ UNCHANGED <<enqueue_pos, dequeue_pos, sequence, record, position, arg, out,
                 accepted>>

PushFull(t) ==
  /\ pc[t] = "push_check"
  /\ \E s \in SequenceLoads(CellOf(position[t])) : s < position[t]
  /\ Goto(t, "idle")
  /\ UNCHANGED <<enqueue_pos, dequeue_pos, sequence, record, position, arg, out,
                 accepted>>

PushRetry(t) ==
  /\ pc[t] = "push_check"
  /\ \E s \in SequenceLoads(CellOf(position[t])) : s > position[t]
  /\ \E p \in Loads(enqueue_pos, position[t]) : MoveTo(t, p)
  /\ UNCHANGED <<enqueue_pos, dequeue_pos, sequence, record, pc, arg, out, accepted>>

\* A claim by a plain store: not refused when another push won the position.
PushClaimByStore(t) ==
  /\ pc[t] = "push_claim"
  /\ enqueue_pos' = position[t] + 1
  /\ accepted' = Append(accepted, arg[t])
  /\ Goto(t, "push_write")
  /\ UNCHANGED <<dequeue_pos, sequence, record, position, arg, out>>

PushClaim(t) ==
  /\ pc[t] = "push_claim"
  /\ enqueue_pos = position[t]
  /\ enqueue_pos' = position[t] + 1
  /\ accepted' = Append(accepted, arg[t])
  /\ Goto(t, "push_write")
  /\ UNCHANGED <<dequeue_pos, sequence, record, position, arg, out>>

PushClaimFails(t) ==
  /\ pc[t] = "push_claim"
  /\ MoveTo(t, enqueue_pos)
  /\ Goto(t, "push_check")
  /\ UNCHANGED <<enqueue_pos, dequeue_pos, sequence, record, arg, out, accepted>>

PushWrite(t) ==
  /\ pc[t] = "push_write"
  /\ record' = [record EXCEPT ![CellOf(position[t])] = arg[t]]
  /\ Goto(t, "push_publish")
  /\ UNCHANGED <<enqueue_pos, dequeue_pos, sequence, position, arg, out, accepted>>

PushPublish(t) ==
  /\ pc[t] = "push_publish"
  /\ sequence' = [sequence EXCEPT ![CellOf(position[t])] = position[t] + 1]
  /\ Goto(t, "idle")
  /\ UNCHANGED <<enqueue_pos, dequeue_pos, record, position, arg, out, accepted>>

-----------------------------------------------------------------------------
(* Pop.  PopEmpty is `return false`; PopRetry reloads the position.        *)

PopBegin(t) ==
  /\ pc[t] = "idle"
  /\ \E p \in Loads(dequeue_pos, 0) : MoveTo(t, p)
  /\ Goto(t, "pop_check")
  /\ UNCHANGED <<enqueue_pos, dequeue_pos, sequence, record, arg, out, accepted>>

\* A pop that takes any cell for one that holds a record.
PopReadyUnchecked(t) ==
  /\ pc[t] = "pop_check"
  /\ Goto(t, "pop_claim")
  /\ UNCHANGED <<enqueue_pos, dequeue_pos, sequence, record, position, arg, out,
                 accepted>>

PopReady(t) ==
  /\ pc[t] = "pop_check"
  /\ position[t] + 1 \in SequenceLoads(CellOf(position[t]))
  /\ Goto(t, "pop_claim")
  /\ UNCHANGED <<enqueue_pos, dequeue_pos, sequence, record, position, arg, out,
                 accepted>>

PopEmpty(t) ==
  /\ pc[t] = "pop_check"
  /\ \E s \in SequenceLoads(CellOf(position[t])) : s < position[t] + 1
  /\ Goto(t, "idle")
  /\ UNCHANGED <<enqueue_pos, dequeue_pos, sequence, record, position, arg, out,
                 accepted>>

PopRetry(t) ==
  /\ pc[t] = "pop_check"
  /\ \E s \in SequenceLoads(CellOf(position[t])) : s > position[t] + 1
  /\ \E p \in Loads(dequeue_pos, position[t]) : MoveTo(t, p)
  /\ UNCHANGED <<enqueue_pos, dequeue_pos, sequence, record, pc, arg, out, accepted>>

PopClaim(t) ==
  /\ pc[t] = "pop_claim"
  /\ dequeue_pos = position[t]
  /\ dequeue_pos' = position[t] + 1
  /\ Goto(t, "pop_copy")
  /\ UNCHANGED <<enqueue_pos, sequence, record, position, arg, out, accepted>>

PopClaimFails(t) ==
  /\ pc[t] = "pop_claim"
  /\ MoveTo(t, dequeue_pos)
  /\ Goto(t, "pop_check")
  /\ UNCHANGED <<enqueue_pos, dequeue_pos, sequence, record, arg, out, accepted>>

PopCopy(t) ==
  /\ pc[t] = "pop_copy"
  /\ out' = [out EXCEPT ![t] = record[CellOf(position[t])]]
  /\ Goto(t, "pop_release")
  /\ UNCHANGED <<enqueue_pos, dequeue_pos, sequence, record, position, arg, accepted>>

\* A release that skips a position, as `mask_ + 1` counted once too often would.
PopReleaseOffByOne(t) ==
  /\ pc[t] = "pop_release"
  /\ sequence' = [sequence EXCEPT ![CellOf(position[t])] = position[t] + Capacity + 1]
  /\ Goto(t, "idle")
  /\ UNCHANGED <<enqueue_pos, dequeue_pos, record, position, arg, out, accepted>>

PopRelease(t) ==
  /\ pc[t] = "pop_release"
  /\ sequence' = [sequence EXCEPT ![CellOf(position[t])] = position[t] + Capacity]
  /\ Goto(t, "idle")
  /\ UNCHANGED <<enqueue_pos, dequeue_pos, record, position, arg, out, accepted>>

-----------------------------------------------------------------------------
PushStep(t) ==
  \/ \E r \in Records : PushBegin(t, r)
  \/ PushFree(t) \/ PushFull(t) \/ PushRetry(t)
  \/ PushClaim(t) \/ PushClaimFails(t)
  \/ PushWrite(t) \/ PushPublish(t)

PopStep(t) ==
  \/ PopBegin(t)
  \/ PopReady(t) \/ PopEmpty(t) \/ PopRetry(t)
  \/ PopClaim(t) \/ PopClaimFails(t)
  \/ PopCopy(t) \/ PopRelease(t)

Next ==
  \/ \E t \in Pushers : PushStep(t)
  \/ \E t \in Poppers : PopStep(t)

Spec == Init /\ [][Next]_vars

-----------------------------------------------------------------------------
(* Properties.                                                             *)

\* Every variable stays in its range.
TypeOK ==
  /\ enqueue_pos \in Nat
  /\ dequeue_pos \in Nat
  /\ sequence \in [Cells -> Nat]
  /\ record \in [Cells -> Records \cup {NoRecord}]
  /\ pc \in [Threads -> Pc]
  /\ position \in [Threads -> Nat]
  /\ arg \in [Pushers -> Records \cup {NoRecord}]
  /\ out \in [Poppers -> Records \cup {NoRecord}]
  /\ accepted \in Seq(Records)
  /\ \A t \in Pushers : pc[t] \in PushPc => arg[t] \in Records

Pushing(t) == t \in Pushers /\ pc[t] \in {"push_write", "push_publish"}
Popping(t) == t \in Poppers /\ pc[t] \in {"pop_copy", "pop_release"}

\* A record is copied into or out of a cell without a lock: no two threads
\* are ever between their claim and their sequence store on the same cell
\* (`cell->record = record` and `*out_record = cell->record` never race).
NoRecordRace ==
  \A t, u \in Threads :
    /\ t # u
    /\ Pushing(t) \/ Popping(t)
    /\ Pushing(u) \/ Popping(u)
    => CellOf(position[t]) # CellOf(position[u])

\* The loops of Push and Pop go round again only when another thread moved the
\* counter: the cell at the counter itself never has a sequence number from
\* the future, on which the loop would reload the same position for ever.
RetryMeansProgress ==
  /\ sequence[CellOf(enqueue_pos)] <= enqueue_pos
  /\ sequence[CellOf(dequeue_pos)] <= dequeue_pos + 1

\* queue_capacity is the most records buffered at a time: what logger.h says of
\* it, and what Push promises by refusing when the cell is still taken.
WithinCapacity == enqueue_pos - dequeue_pos <= Capacity

-----------------------------------------------------------------------------
(* The inductive invariant.  Positions enqueue_pos - Capacity up to        *)
(* dequeue_pos + Capacity - 1 are the only ones a sequence number speaks   *)
(* of, and any Capacity consecutive positions are on different cells.      *)

CountersAgree ==
  /\ Len(accepted) = enqueue_pos
  /\ dequeue_pos <= enqueue_pos
  /\ enqueue_pos <= dequeue_pos + Capacity

\* A claimed position holds its record, or its pusher has not published it.
QueuedCells ==
  \A p \in dequeue_pos .. enqueue_pos - 1 :
    \/ sequence[CellOf(p)] = p
    \/ sequence[CellOf(p)] = p + 1 /\ record[CellOf(p)] = accepted[p + 1]

\* A position not claimed yet is free, or waits for the reader one lap behind.
FreeCells ==
  \A p \in enqueue_pos .. dequeue_pos + Capacity - 1 :
    \/ sequence[CellOf(p)] = p
    \/ sequence[CellOf(p)] + Capacity = p + 1

\* A pusher that sees its position free can only win the counter if it still is.
PusherClaims ==
  \A t \in Pushers : pc[t] = "push_claim" =>
    /\ position[t] <= enqueue_pos
    /\ position[t] = enqueue_pos =>
         /\ enqueue_pos < dequeue_pos + Capacity
         /\ sequence[CellOf(enqueue_pos)] = enqueue_pos

PopperClaims ==
  \A t \in Poppers : pc[t] = "pop_claim" =>
    /\ position[t] <= dequeue_pos
    /\ position[t] = dequeue_pos =>
         /\ dequeue_pos < enqueue_pos
         /\ sequence[CellOf(dequeue_pos)] = dequeue_pos + 1

PushersOwn ==
  \A t \in Pushers : Pushing(t) =>
    /\ position[t] \in dequeue_pos .. enqueue_pos - 1
    /\ sequence[CellOf(position[t])] = position[t]
    /\ arg[t] = accepted[position[t] + 1]
    /\ pc[t] = "push_publish" => record[CellOf(position[t])] = arg[t]

PoppersOwn ==
  \A t \in Poppers : Popping(t) =>
    /\ position[t] < dequeue_pos
    /\ enqueue_pos <= position[t] + Capacity
    /\ sequence[CellOf(position[t])] = position[t] + 1
    /\ IF pc[t] = "pop_copy" THEN record[CellOf(position[t])] = accepted[position[t] + 1]
                             ELSE out[t] = accepted[position[t] + 1]

OneOwner ==
  \A t, u \in Threads :
    /\ t # u
    /\ Pushing(t) \/ Popping(t)
    /\ Pushing(u) \/ Popping(u)
    => position[t] # position[u]

\* A thread checks a position the counter has reached.
Checks ==
  \A t \in Threads :
    /\ pc[t] = "push_check" => position[t] <= enqueue_pos
    /\ pc[t] = "pop_check" => position[t] <= dequeue_pos

\* Sequence numbers, counters and threads agree on whose turn each cell is:
\* what makes every other property of the queue hold.
QueueInv ==
  /\ TypeOK
  /\ CountersAgree
  /\ QueuedCells
  /\ FreeCells
  /\ PusherClaims
  /\ PopperClaims
  /\ PushersOwn
  /\ PoppersOwn
  /\ OneOwner
  /\ Checks

-----------------------------------------------------------------------------
(* Refinement: claims are the linearization points.  A reader that has     *)
(* claimed but not copied yet already holds, abstractly, the record of its *)
(* position.                                                               *)

FifoItems == SubSeq(accepted, dequeue_pos + 1, enqueue_pos)
FifoHolding ==
  [t \in Poppers |-> IF pc[t] = "pop_copy" THEN accepted[position[t] + 1] ELSE out[t]]

Fifo == INSTANCE BoundedFifo WITH items <- FifoItems, holding <- FifoHolding

\* Whatever the interleaving, records come out once each, in the order their
\* pushes claimed positions, never torn or overwritten, and no more than
\* Capacity are buffered.
ImplementsFifo == Fifo!Spec
=============================================================================

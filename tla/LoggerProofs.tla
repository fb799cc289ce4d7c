---------------------------- MODULE LoggerProofs ----------------------------
(***************************************************************************)
(* What Logger promises of every record, for any number of threads, any    *)
(* capacity and any number of records: none is lost or written twice, each *)
(* thread writes what it pops in the order the queue accepted it, and a    *)
(* flush leaves nothing behind that it could have reached.                 *)
(*                                                                         *)
(* The argument is one inductive invariant, LoggerInv.  Phases says which  *)
(* threads can be where while the logger is down, up, stopping or ended;   *)
(* from it follow that a record is written only while there is a sink and  *)
(* that Shutdown destroys an empty queue.  Hands ties a thread's place to  *)
(* whether the record it holds is still in the queue.  RecordsInv says     *)
(* where every record is, and is preserved by the kinds of step a record   *)
(* can see (RecordStep), of which every action is one (RecordSteps).       *)
(*                                                                         *)
(* The theorems assume ExclusiveShutdown: with a Shutdown that overlaps    *)
(* other calls the records in the queue it destroys are lost.              *)
(***************************************************************************)
EXTENDS Logger, FiniteSetTheorems, SequenceTheorems, FunctionTheorems, TLAPS

\* Thread t is in Shutdown, and no other caller is in a call.
Closing(t) ==
  /\ \A u \in Callers \ {t} : pc[u] = "idle"
  /\ \/ /\ pc[t] = "join" /\ has_queue /\ has_sink
        /\ pc[Worker] \in WorkerPc
        /\ pc[Worker] = "exited" => queue = <<>>
     \/ /\ pc[t] = "reset" /\ has_queue
        /\ pc[Worker] = "exited" /\ queue = <<>>
     \/ /\ pc[t] = "shutdown_done" /\ ~has_queue
        /\ pc[Worker] = "exited" /\ queue = <<>>

\* The four phases of the logger's life.
Ended == \A t \in Threads : pc[t] = "terminated"

Down ==
  /\ ~initialized /\ ~running /\ ~has_queue /\ queue = <<>>
  /\ pc[Worker] = "exited"
  /\ \A t \in Callers : pc[t] \in {"idle", "submit_init"}

Up ==
  /\ initialized /\ running /\ has_queue /\ has_sink
  /\ pc[Worker] \in {"work", "work_write", "check", "wait"}
  /\ \A t \in Callers : pc[t] \in CallerPc \ {"join", "reset", "shutdown_done"}

Stopping == initialized /\ ~running /\ \E t \in Callers : Closing(t)

Phases == Ended \/ Down \/ Up \/ Stopping

\* Where a thread has a record in its hands, and where it has none.
HoldingPc == {"publish", "direct", "flush_write", "work_write"}

RestingPc == {"idle", "submit_init", "submit", "after_push", "flush_pop", "join", "reset",
              "shutdown_done", "exited", "work", "check", "wait"}

\* A claimed record is still in the queue; any other held record is not.
HandOf(t) ==
  /\ pc[t] = "publish" => held[t] \in Queued
  /\ pc[t] \in HoldingPc \ {"publish"} => held[t] \notin Queued \cup {NoRecord}
  /\ pc[t] \notin HoldingPc \cup {"terminated"} => held[t] = NoRecord

Hands == \A t \in Threads : HandOf(t)

\* The queue holds accepted records, the oldest first.
QueueInOrder ==
  /\ \A i \in DOMAIN queue : queue[i].id \in DOMAIN records
  /\ \A i \in DOMAIN queue : records[queue[i].id] = "accepted"
  /\ \A i, j \in DOMAIN queue : i < j => queue[i].id < queue[j].id

\* No record is in two hands; a queued one is in its claimant's until published.
HeldOnce ==
  /\ \A t \in Threads : held[t] \in DOMAIN records \cup {NoRecord}
  /\ \A t, u \in Threads : held[t] = held[u] /\ held[t] # NoRecord => t = u
  /\ \A i \in DOMAIN queue :
       queue[i].ready <=> \A t \in Threads : held[t] # queue[i].id

\* A written record is on one line only, and neither queued nor held.
WrittenOnce ==
  /\ \A line \in written : line.id \notin Queued
  /\ \A line \in written, t \in Threads : held[t] # line.id
  /\ \A line, other \in written : line.id = other.id => line = other

Accounted == Queued \cup Held \cup Written = Kept

\* What was accepted and has left the queue is older than all that is in it.
OldestGoFirst ==
  /\ \A line \in written, i \in DOMAIN queue :
       records[line.id] = "accepted" => line.id < queue[i].id
  /\ \A t \in Holders, i \in DOMAIN queue :
       records[held[t]] = "accepted" => held[t] < queue[i].id

\* What a flush has yet to pop was reachable when it began, and still is.
ReadyPrefix ==
  \A t \in Threads :
    /\ pending[t] \subseteq DOMAIN records
    /\ \A i \in DOMAIN queue : queue[i].id \in pending[t] => \A k \in 1 .. i : queue[k].ready

RecordsInv ==
  QueueInOrder /\ HeldOnce /\ WrittenOnce /\ Accounted /\ OldestGoFirst /\ WrittenInOrder

\* The inductive invariant.
LoggerInv == TypeOK /\ Phases /\ Hands /\ RecordsInv /\ ReadyPrefix

-----------------------------------------------------------------------------

LEMMA LoggerInitially == Init => LoggerInv
<1> SUFFICES ASSUME Init PROVE LoggerInv
  OBVIOUS
<1> USE LoggerAssumption DEF Init, NoRecord, Threads
<1>1. TypeOK
  <2>1. queue \in Seq([id : Ids, ready : BOOLEAN]) /\ Len(queue) <= Capacity
    BY SMT
  <2>2. records \in Seq({"accepted", "refused", "dropped"}) /\ Len(records) <= MaxRecords
    BY SMT
  <2>3. pc \in [Threads -> CallerPc \cup WorkerPc \cup {"terminated"}]
    BY DEF CallerPc, WorkerPc
  <2>4. level \in [Callers -> Levels]
    BY DEF Levels
  <2> QED
    BY <2>1, <2>2, <2>3, <2>4 DEF TypeOK, Ids
<1>2. Phases
  BY DEF Phases, Down
<1>3. Hands
  BY DEF Hands, HandOf, HoldingPc
<1>4. RecordsInv
  <2>1. QueueInOrder /\ HeldOnce /\ WrittenOnce /\ OldestGoFirst /\ WrittenInOrder
    BY DEF QueueInOrder, HeldOnce, WrittenOnce, OldestGoFirst, WrittenInOrder, Holders
  <2>2. Accounted
    BY DEF Accounted, Queued, Held, Holders, Written, Kept
  <2> QED
    BY <2>1, <2>2 DEF RecordsInv
<1>5. ReadyPrefix
  BY DEF ReadyPrefix
<1> QED
  BY <1>1, <1>2, <1>3, <1>4, <1>5 DEF LoggerInv

-----------------------------------------------------------------------------
(* The kinds of step a record can see.  Every action is one of these.      *)

Claims(t) ==
  /\ held[t] = NoRecord
  /\ Len(queue) < Capacity
  /\ Stamp("accepted")
  /\ queue' = Append(queue, [id |-> Len(records'), ready |-> FALSE])
  /\ held' = [held EXCEPT ![t] = Len(records')]
  /\ UNCHANGED written

Publishes(t) ==
  /\ held[t] \in Queued
  /\ queue' = [i \in DOMAIN queue |->
                 IF queue[i].id = held[t] THEN [queue[i] EXCEPT !.ready = TRUE]
                 ELSE queue[i]]
  /\ held' = [held EXCEPT ![t] = NoRecord]
  /\ UNCHANGED <<records, written>>

Drops == Stamp("dropped") /\ UNCHANGED <<queue, written, held>>

Refuses(t) ==
  /\ held[t] = NoRecord
  /\ Stamp("refused")
  /\ held' = [held EXCEPT ![t] = Len(records')]
  /\ UNCHANGED <<queue, written>>

Takes(t) ==
  /\ held[t] = NoRecord
  /\ HeadReady
  /\ held' = [held EXCEPT ![t] = Head(queue).id]
  /\ queue' = Tail(queue)
  /\ UNCHANGED <<records, written>>

Writes(t) ==
  /\ held[t] \notin Queued \cup {NoRecord}
  /\ written' = written \cup {[id |-> held[t], by |-> t]}
  /\ held' = [held EXCEPT ![t] = NoRecord]
  /\ UNCHANGED <<queue, records>>

Quiet == UNCHANGED <<queue, records, written, held>>

RecordStep ==
  \/ Quiet \/ Drops
  \/ \E t \in Threads : Claims(t) \/ Publishes(t) \/ Refuses(t) \/ Takes(t) \/ Writes(t)

\* A record that is being written has a sink to go to.
LEMMA SinkWhileWriting ==
  ASSUME Phases, NEW t \in Threads, pc[t] \in {"direct", "flush_write", "work_write"}
  PROVE  has_sink
BY LoggerAssumption DEF Phases, Ended, Down, Up, Stopping, Closing, Threads, WorkerPc

LEMMA RecordStepWrite ==
  ASSUME LoggerInv, NEW t \in Threads, pc[t] \in {"direct", "flush_write", "work_write"},
         WriteLine(t), UNCHANGED <<queue, records>>
  PROVE  RecordStep
<1>1. has_sink
  BY SinkWhileWriting DEF LoggerInv
<1>2. held[t] \notin Queued \cup {NoRecord}
  BY DEF LoggerInv, Hands, HandOf, HoldingPc
<1> QED
  BY <1>1, <1>2 DEF WriteLine, RecordStep, Writes

LEMMA RecordStepPop ==
  ASSUME LoggerInv, NEW t \in Threads, pc[t] \in {"flush_pop", "work"}, NEW next,
         Pop(t, next), UNCHANGED <<records, written>>
  PROVE  RecordStep
<1>1. held[t] = NoRecord
  BY DEF LoggerInv, Hands, HandOf, HoldingPc
<1> QED
  BY <1>1 DEF Pop, RecordStep, Takes

\* Every step of the logger is a step of a kind above.
LEMMA RecordSteps == ASSUME LoggerInv, Next PROVE RecordStep
<1> USE DEF LoggerInv
<1>1. CASE WorkerStep
  <2> Worker \in Threads
    BY DEF Threads
  <2>1. CASE WorkerPop
    BY <2>1, RecordStepPop DEF WorkerPop
  <2>2. CASE WorkerWrite
    BY <2>2, RecordStepWrite DEF WorkerWrite
  <2>3. CASE FlushPop(Worker)
    BY <2>3, RecordStepPop DEF FlushPop
  <2>4. CASE FlushWrite(Worker)
    BY <2>4, RecordStepWrite DEF FlushWrite
  <2>5. CASE WorkerEmpty \/ WorkerCheck \/ WorkerWake \/ FlushEnd(Worker)
    BY <2>5 DEF WorkerEmpty, WorkerCheck, WorkerWake, FlushEnd, RecordStep, Quiet
  <2> QED
    BY <1>1, <2>1, <2>2, <2>3, <2>4, <2>5 DEF WorkerStep
<1>2. ASSUME NEW t \in Callers, CallerStep(t) PROVE RecordStep
  <2> t \in Threads
    BY DEF Threads
  <2>1. CASE SubmitClaim(t)
    <3>1. held[t] = NoRecord
      BY <2>1 DEF SubmitClaim, Hands, HandOf, HoldingPc
    <3> QED
      BY <2>1, <3>1 DEF SubmitClaim, RecordStep, Claims
  <2>2. CASE SubmitPublish(t)
    <3>1. held[t] \in Queued
      BY <2>2 DEF SubmitPublish, Hands, HandOf
    <3> QED
      BY <2>2, <3>1 DEF SubmitPublish, RecordStep, Publishes
  <2>3. CASE SubmitRefused(t)
    <3>1. held[t] = NoRecord
      BY <2>3 DEF SubmitRefused, Hands, HandOf, HoldingPc
    <3>2. CASE ~has_queue
      BY <2>3, <3>2 DEF SubmitRefused, RecordStep, Quiet
    <3>3. CASE has_queue /\ level[t] = "info"
      BY <2>3, <3>3 DEF SubmitRefused, RecordStep, Drops
    <3>4. CASE has_queue /\ level[t] # "info"
      BY <2>3, <3>1, <3>4 DEF SubmitRefused, RecordStep, Refuses
    <3> QED
      BY <3>2, <3>3, <3>4
  <2>4. CASE DirectWrite(t)
    BY <2>4, RecordStepWrite DEF DirectWrite
  <2>5. CASE FlushPop(t)
    BY <2>5, RecordStepPop DEF FlushPop
  <2>6. CASE FlushWrite(t)
    BY <2>6, RecordStepWrite DEF FlushWrite
  <2>7. CASE ShutdownReset(t)
    <3>1. queue = <<>>
      BY <2>7, LoggerAssumption DEF ShutdownReset, Phases, Ended, Down, Up, Stopping, Closing, Threads, CallerPc
    <3> QED
      BY <2>7, <3>1 DEF ShutdownReset, RecordStep, Quiet
  <2>8. CASE SubmitInitialize(t) \/ SubmitFiltered(t) \/ AfterPush(t) \/ FlushEnd(t)
    BY <2>8 DEF SubmitInitialize, Initialize, SubmitFiltered, AfterPush, FlushEnd,
                RecordStep, Quiet
  <2>9. CASE ShutdownJoined(t) \/ ShutdownDone(t)
    BY <2>9 DEF ShutdownJoined, ShutdownDone, RecordStep, Quiet
  <2> QED
    BY <1>2, <2>1, <2>2, <2>3, <2>4, <2>5, <2>6, <2>7, <2>8, <2>9 DEF CallerStep
<1>3. ASSUME NEW t \in Callers, Call(t) PROVE RecordStep
  BY <1>3 DEF Call, CallInitialize, Initialize, FlushBegin, ShutdownBegin, SubmitBegin,
              RecordStep, Quiet
<1> QED
  BY <1>1, <1>2, <1>3 DEF Next

-----------------------------------------------------------------------------

Fates == {"accepted", "refused", "dropped"}
Entries == [id : Ids, ready : BOOLEAN]

(* What the operations of the queue do to it, and Stamp to the history.    *)

LEMMA EntryFacts ==
  ASSUME NEW s \in Seq(Entries), NEW i \in DOMAIN s
  PROVE  i \in Nat \ {0} /\ i <= Len(s) /\ s[i] \in Entries /\ s[i].id \in Ids /\ s[i].id # NoRecord
<1>1. Len(s) \in Nat /\ DOMAIN s = 1 .. Len(s) /\ s[i] \in Entries
  BY LenProperties, ElementOfSeq
<1> QED
  BY <1>1 DEF Entries, NoRecord, Ids

LEMMA StampFacts ==
  ASSUME records \in Seq(Fates), NEW fate \in Fates, Stamp(fate)
  PROVE  /\ Len(records) \in Nat
         /\ Len(records') = Len(records) + 1
         /\ Len(records') \notin DOMAIN records
         /\ DOMAIN records' = DOMAIN records \cup {Len(records')}
         /\ \A id \in DOMAIN records : records'[id] = records[id] /\ id < Len(records')
         /\ records'[Len(records')] = fate
         /\ records' \in Seq(Fates)
         /\ Len(records') \in Ids
<1>1. records' = Append(records, fate) /\ Len(records) < MaxRecords
  BY DEF Stamp
<1>2. Len(records) \in Nat /\ DOMAIN records = 1 .. Len(records)
  BY LenProperties
<1>3. /\ Len(records') = Len(records) + 1 /\ DOMAIN records' = 1 .. Len(records')
      /\ records' \in Seq(Fates)
  BY <1>1
<1>4. \A id \in 1 .. Len(records) : records'[id] = records[id]
  BY <1>1
<1>5. records'[Len(records')] = fate
  BY <1>1, <1>3
<1> QED
  BY <1>1, <1>2, <1>3, <1>4, <1>5, LoggerAssumption DEF Ids

LEMMA ClaimFacts ==
  ASSUME queue \in Seq(Entries), NEW n \in Ids,
         queue' = Append(queue, [id |-> n, ready |-> FALSE])
  PROVE  /\ Len(queue) \in Nat
         /\ Len(queue') = Len(queue) + 1 /\ Len(queue') \in Nat
         /\ queue' \in Seq(Entries)
         /\ DOMAIN queue' = DOMAIN queue \cup {Len(queue')}
         /\ Len(queue') \notin DOMAIN queue
         /\ \A i \in DOMAIN queue : queue'[i] = queue[i] /\ i < Len(queue') /\ i \in Nat
         /\ queue'[Len(queue')] = [id |-> n, ready |-> FALSE]
         /\ queue'[Len(queue')].id = n /\ ~queue'[Len(queue')].ready
         /\ Queued' = Queued \cup {n}
<1>1. Len(queue) \in Nat /\ DOMAIN queue = 1 .. Len(queue)
  BY LenProperties
<1>2. [id |-> n, ready |-> FALSE] \in Entries
  BY DEF Entries
<1>3. /\ Len(queue') = Len(queue) + 1 /\ DOMAIN queue' = 1 .. Len(queue')
      /\ queue' \in Seq(Entries)
  BY <1>2
<1>4. \A i \in 1 .. Len(queue) : queue'[i] = queue[i]
  BY <1>2
<1>5. queue'[Len(queue')] = [id |-> n, ready |-> FALSE]
  BY <1>2, <1>3
<1>6. DOMAIN queue' = DOMAIN queue \cup {Len(queue')} /\ Len(queue') \notin DOMAIN queue
  BY <1>1, <1>3
<1>7. Queued' = Queued \cup {n}
  BY <1>1, <1>4, <1>5, <1>6 DEF Queued
<1> QED
  BY <1>1, <1>3, <1>4, <1>5, <1>6, <1>7

LEMMA PopFacts ==
  ASSUME queue \in Seq(Entries), HeadReady, queue' = Tail(queue), QueueInOrder
  PROVE  /\ Len(queue) \in Nat \ {0}
         /\ Len(queue') = Len(queue) - 1
         /\ queue' \in Seq(Entries)
         /\ 1 \in DOMAIN queue /\ Head(queue) = queue[1] /\ Head(queue).id \in Ids
         /\ Head(queue).id \in DOMAIN records /\ records[Head(queue).id] = "accepted"
         /\ \A i \in DOMAIN queue' :
              /\ i \in Nat \ {0}
              /\ i + 1 \in DOMAIN queue /\ queue'[i] = queue[i + 1]
              /\ Head(queue).id < queue'[i].id
         /\ Queued' = Queued \ {Head(queue).id}
         /\ Head(queue).id \in Queued /\ Head(queue).ready
<1>1. Len(queue) \in Nat /\ DOMAIN queue = 1 .. Len(queue) /\ queue # <<>> /\ Head(queue).ready
  BY LenProperties DEF HeadReady
<1>2. Len(queue) # 0
  BY <1>1, EmptySeq
<1>3. /\ Len(queue') = Len(queue) - 1 /\ DOMAIN queue' = 1 .. Len(queue')
      /\ queue' \in Seq(Entries)
  BY <1>1, <1>2
<1>4. \A i \in 1 .. Len(queue') : queue'[i] = queue[i + 1]
  BY <1>1, <1>2, <1>3
<1>5. /\ 1 \in DOMAIN queue /\ Head(queue) = queue[1] /\ Head(queue).id \in Ids
      /\ Head(queue).id \in DOMAIN records /\ records[Head(queue).id] = "accepted"
  <2>1. 1 \in DOMAIN queue /\ Head(queue) = queue[1] /\ queue[1] \in Entries
    BY <1>1, <1>2
  <2> QED
    BY <2>1 DEF QueueInOrder, Entries
<1>6. \A i \in DOMAIN queue' :
        /\ i \in Nat \ {0}
        /\ i + 1 \in DOMAIN queue /\ queue'[i] = queue[i + 1] /\ 1 < i + 1
  BY <1>1, <1>2, <1>3, <1>4
<1>7. \A i \in DOMAIN queue' : Head(queue).id < queue'[i].id
  BY <1>5, <1>6 DEF QueueInOrder
<1>8. Queued' = Queued \ {Head(queue).id}
  <2>1. \A id \in Queued' : id \in Queued /\ id # Head(queue).id
    <3> SUFFICES ASSUME NEW i \in DOMAIN queue'
                 PROVE  queue'[i].id \in Queued /\ queue'[i].id # Head(queue).id
      BY DEF Queued
    <3>1. queue'[i] = queue[i + 1] /\ i + 1 \in DOMAIN queue /\ i + 1 \in 1 .. Len(queue)
      BY <1>6, <1>1
    <3>2. queue[i + 1] \in Entries
      BY <1>1, <3>1
    <3> QED
      BY <1>5, <1>7, <3>1, <3>2 DEF Queued, Entries, Ids
  <2>2. \A j \in DOMAIN queue : queue[j].id # Head(queue).id => queue[j].id \in Queued'
    <3> SUFFICES ASSUME NEW j \in DOMAIN queue, queue[j].id # Head(queue).id
                 PROVE  queue[j].id \in Queued'
      OBVIOUS
    <3>1. j # 1 /\ j - 1 \in DOMAIN queue' /\ (j - 1) + 1 = j
      BY <1>1, <1>2, <1>3, <1>5
    <3>2. queue'[j - 1] = queue[j]
      BY <1>6, <3>1
    <3> QED
      BY <3>1, <3>2 DEF Queued
  <2> QED
    BY <2>1, <2>2 DEF Queued
<1> QED
  BY <1>1, <1>2, <1>3, <1>5, <1>6, <1>7, <1>8 DEF Queued

LEMMA PublishFacts ==
  ASSUME queue \in Seq(Entries), NEW t \in Threads, Publishes(t)
  PROVE  /\ queue' \in Seq(Entries)
         /\ DOMAIN queue' = DOMAIN queue
         /\ Len(queue') = Len(queue)
         /\ \A i \in DOMAIN queue :
              /\ queue'[i].id = queue[i].id
              /\ queue'[i].ready <=> queue[i].ready \/ queue[i].id = held[t]
         /\ Queued' = Queued
<1>1. Len(queue) \in Nat /\ DOMAIN queue = 1 .. Len(queue)
      /\ \A i \in DOMAIN queue : queue[i] \in Entries
  BY LenProperties, ElementOfSeq
<1>2. queue' = [i \in 1 .. Len(queue) |->
                 IF queue[i].id = held[t] THEN [queue[i] EXCEPT !.ready = TRUE]
                 ELSE queue[i]]
  BY <1>1 DEF Publishes
<1>3. queue' \in [1 .. Len(queue) -> Entries]
  BY <1>1, <1>2 DEF Entries
<1>4. queue' \in Seq(Entries) /\ DOMAIN queue' = DOMAIN queue
  BY <1>1, <1>3
<1>5. Len(queue') = Len(queue)
  BY <1>1, <1>4, LenProperties
<1>6. \A i \in DOMAIN queue :
              /\ queue'[i].id = queue[i].id
              /\ queue'[i].ready <=> queue[i].ready \/ queue[i].id = held[t]
  BY <1>1, <1>2 DEF Entries
<1> QED
  BY <1>4, <1>5, <1>6 DEF Queued

-----------------------------------------------------------------------------

\* What the steps of every kind share: the records of a thread that does not
\* move stay where they are.
LEMMA HandsFrame ==
  ASSUME LoggerInv, RecordStep
  PROVE  \A u \in Threads :
           held'[u] = held[u] => (held[u] \in Queued <=> held[u] \in Queued')
<1> USE DEF LoggerInv, RecordsInv
<1>0. queue \in Seq(Entries) /\ records \in Seq(Fates) /\ held \in [Threads -> Ids \cup {NoRecord}]
  BY DEF TypeOK, Entries, Fates
<1>1. CASE Quiet \/ Drops \/ \E t \in Threads : Refuses(t) \/ Writes(t)
  BY <1>1 DEF Quiet, Drops, Refuses, Writes, Queued
<1>2. ASSUME NEW t \in Threads, Claims(t), NEW u \in Threads, held'[u] = held[u]
      PROVE  held[u] \in Queued <=> held[u] \in Queued'
  <2>1. /\ Len(records') \in Ids /\ Len(records') \notin DOMAIN records
        /\ Len(records') = Len(records) + 1 /\ Len(records) \in Nat
    BY <1>0, <1>2, StampFacts DEF Claims, Fates
  <2>2. Queued' = Queued \cup {Len(records')}
    BY <1>0, <1>2, <2>1, ClaimFacts DEF Claims
  <2>3. held[u] # Len(records')
    BY <2>1 DEF HeldOnce, NoRecord
  <2> QED
    BY <2>2, <2>3
<1>3. ASSUME NEW t \in Threads, Publishes(t), NEW u \in Threads, held'[u] = held[u]
      PROVE  held[u] \in Queued <=> held[u] \in Queued'
  BY <1>0, <1>3, PublishFacts
<1>4. ASSUME NEW t \in Threads, Takes(t), NEW u \in Threads, held'[u] = held[u]
      PROVE  held[u] \in Queued <=> held[u] \in Queued'
  <2>1. /\ Queued' = Queued \ {Head(queue).id} /\ 1 \in DOMAIN queue
        /\ Head(queue) = queue[1] /\ Head(queue).ready
    BY <1>0, <1>4, PopFacts DEF Takes
  <2>2. held[u] # Head(queue).id
    BY <2>1 DEF HeldOnce
  <2> QED
    BY <2>1, <2>2
<1> QED
  BY <1>1, <1>2, <1>3, <1>4 DEF RecordStep

-----------------------------------------------------------------------------

(* Each part of RecordsInv survives each kind of step.                     *)

LEMMA QueueInOrderKept ==
  ASSUME LoggerInv, RecordStep PROVE QueueInOrder'
<1> USE DEF LoggerInv, RecordsInv
<1>0. queue \in Seq(Entries) /\ records \in Seq(Fates)
  BY DEF TypeOK, Entries, Fates
<1>1. CASE Quiet \/ \E t \in Threads : Writes(t)
  BY <1>1 DEF Quiet, Writes, QueueInOrder
<1>2. CASE Drops \/ \E t \in Threads : Refuses(t)
  <2>1. PICK fate \in Fates : Stamp(fate)
    BY <1>2 DEF Drops, Refuses, Fates
  <2>2. UNCHANGED queue
    BY <1>2 DEF Drops, Refuses
  <2> QED
    BY <1>0, <2>1, <2>2, StampFacts DEF QueueInOrder
<1>3. ASSUME NEW t \in Threads, Claims(t) PROVE QueueInOrder'
  <2>1. /\ Len(records') \in Ids
        /\ DOMAIN records' = DOMAIN records \cup {Len(records')}
        /\ \A id \in DOMAIN records : records'[id] = records[id] /\ id < Len(records')
        /\ records'[Len(records')] = "accepted"
    BY <1>0, <1>3, StampFacts DEF Claims, Fates
  <2>2. /\ DOMAIN queue' = DOMAIN queue \cup {Len(queue')}
        /\ \A i \in DOMAIN queue : queue'[i] = queue[i] /\ i < Len(queue') /\ i \in Nat
        /\ queue'[Len(queue')].id = Len(records') /\ Len(queue') \in Nat
    BY <1>0, <1>3, <2>1, ClaimFacts DEF Claims
  <2>3. \A i \in DOMAIN queue' :
          queue'[i].id \in DOMAIN records' /\ records'[queue'[i].id] = "accepted"
    BY <2>1, <2>2 DEF QueueInOrder
  <2>4. ASSUME NEW i \in DOMAIN queue', NEW j \in DOMAIN queue', i < j
        PROVE  queue'[i].id < queue'[j].id
    <3> DEFINE last == Len(queue')
    <3>0. /\ DOMAIN queue' = DOMAIN queue \cup {last} /\ last \in Nat
          /\ \A k \in DOMAIN queue : k < last /\ k \in Nat
      BY <2>2
    <3> HIDE DEF last
    <3>1. i \in DOMAIN queue
      BY <2>4, <3>0
    <3>2. CASE j \in DOMAIN queue
      BY <2>2, <2>4, <3>1, <3>2 DEF QueueInOrder
    <3>3. CASE j = Len(queue')
      BY <2>1, <2>2, <3>1, <3>3 DEF QueueInOrder
    <3> QED
      BY <2>2, <3>2, <3>3
  <2> QED
    BY <2>3, <2>4 DEF QueueInOrder
<1>4. ASSUME NEW t \in Threads, Publishes(t) PROVE QueueInOrder'
  BY <1>0, <1>4, PublishFacts DEF Publishes, QueueInOrder
<1>5. ASSUME NEW t \in Threads, Takes(t) PROVE QueueInOrder'
  BY <1>0, <1>5, PopFacts DEF Takes, QueueInOrder
<1> QED
  BY <1>1, <1>2, <1>3, <1>4, <1>5 DEF RecordStep

LEMMA HeldOnceKept ==
  ASSUME LoggerInv, RecordStep PROVE HeldOnce'
<1> USE DEF LoggerInv, RecordsInv
<1>0. queue \in Seq(Entries) /\ records \in Seq(Fates) /\ held \in [Threads -> Ids \cup {NoRecord}]
  BY DEF TypeOK, Entries, Fates
<1>1. CASE Quiet
  BY <1>1 DEF Quiet, HeldOnce
<1>2. CASE Drops
  BY <1>0, <1>2, StampFacts DEF Drops, Fates, HeldOnce
<1>3. ASSUME NEW t \in Threads, Refuses(t) PROVE HeldOnce'
  <2>1. /\ Len(records') \in Ids /\ Len(records') \notin DOMAIN records
        /\ DOMAIN records' = DOMAIN records \cup {Len(records')}
    BY <1>0, <1>3, StampFacts DEF Refuses, Fates
  <2>2. held' = [held EXCEPT ![t] = Len(records')] /\ UNCHANGED queue /\ held[t] = NoRecord
    BY <1>3 DEF Refuses
  <2>3. \A i \in DOMAIN queue : queue[i].id \in DOMAIN records /\ queue[i].id # NoRecord
    BY <1>0, EntryFacts DEF QueueInOrder
  <2>4. \A i \in DOMAIN queue, u \in Threads : held'[u] = queue[i].id <=> held[u] = queue[i].id
    BY <1>0, <2>1, <2>2, <2>3
  <2>5. \A u \in Threads : held[u] # Len(records')
    <3>1. Len(records') # NoRecord
      BY <2>1, LoggerAssumption DEF NoRecord, Ids
    <3> QED
      BY <2>1, <3>1 DEF HeldOnce
  <2> QED
    BY <1>0, <2>1, <2>2, <2>4, <2>5 DEF HeldOnce
<1>4. ASSUME NEW t \in Threads, Claims(t) PROVE HeldOnce'
  <2> DEFINE n == Len(records')
  <2>1. /\ n \in Ids /\ n \notin DOMAIN records
        /\ DOMAIN records' = DOMAIN records \cup {n}
    BY <1>0, <1>4, StampFacts DEF Claims, Fates
  <2>2. /\ DOMAIN queue' = DOMAIN queue \cup {Len(queue')}
        /\ \A i \in DOMAIN queue : queue'[i] = queue[i]
        /\ queue'[Len(queue')].id = n /\ ~queue'[Len(queue')].ready
    BY <1>0, <1>4, <2>1, ClaimFacts DEF Claims
  <2>3. held' = [held EXCEPT ![t] = n] /\ held[t] = NoRecord
    BY <1>4 DEF Claims
  <2>4. \A i \in DOMAIN queue : queue[i].id \in DOMAIN records /\ queue[i].id # NoRecord
    BY <1>0, EntryFacts DEF QueueInOrder
  <2> HIDE DEF n
  <2>5. \A i \in DOMAIN queue, u \in Threads : held'[u] = queue[i].id <=> held[u] = queue[i].id
    BY <1>0, <2>1, <2>3, <2>4
  <2>6. \A u \in Threads : held[u] # n
    BY <2>1 DEF HeldOnce, NoRecord, Ids
  <2>7. /\ \A u \in Threads : held'[u] \in DOMAIN records' \cup {NoRecord}
        /\ \A u, v \in Threads : held'[u] = held'[v] /\ held'[u] # NoRecord => u = v
    BY <1>0, <2>1, <2>3, <2>6 DEF HeldOnce
  <2>8. \A i \in DOMAIN queue' :
          queue'[i].ready <=> \A u \in Threads : held'[u] # queue'[i].id
    BY <1>0, <2>2, <2>3, <2>5 DEF HeldOnce
  <2> QED
    BY <2>7, <2>8 DEF HeldOnce
<1>5. ASSUME NEW t \in Threads, Publishes(t) PROVE HeldOnce'
  <2>1. /\ DOMAIN queue' = DOMAIN queue
        /\ \A i \in DOMAIN queue :
              /\ queue'[i].id = queue[i].id
              /\ queue'[i].ready <=> queue[i].ready \/ queue[i].id = held[t]
    BY <1>0, <1>5, PublishFacts
  <2>2. held' = [held EXCEPT ![t] = NoRecord] /\ UNCHANGED records
    BY <1>5 DEF Publishes
  <2>3. \A i \in DOMAIN queue : queue[i].id \in Ids /\ queue[i].id # NoRecord
    BY <1>0, EntryFacts
  <2>4. \A i \in DOMAIN queue' :
          queue'[i].ready <=> \A u \in Threads : held'[u] # queue'[i].id
    BY <1>0, <2>1, <2>2, <2>3 DEF HeldOnce
  <2>5. /\ \A u \in Threads : held'[u] \in DOMAIN records' \cup {NoRecord}
        /\ \A u, v \in Threads : held'[u] = held'[v] /\ held'[u] # NoRecord => u = v
    BY <1>0, <2>2 DEF HeldOnce
  <2> QED
    BY <2>4, <2>5 DEF HeldOnce
<1>6. ASSUME NEW t \in Threads, Takes(t) PROVE HeldOnce'
  <2> DEFINE n == Head(queue).id
  <2>1. /\ 1 \in DOMAIN queue /\ Head(queue) = queue[1] /\ n \in Ids /\ n \in DOMAIN records
        /\ Head(queue).ready
        /\ \A i \in DOMAIN queue' :
              /\ i + 1 \in DOMAIN queue /\ queue'[i] = queue[i + 1]
              /\ n < queue'[i].id
        /\ queue' \in Seq(Entries)
    BY <1>0, <1>6, PopFacts DEF Takes
  <2>2. held' = [held EXCEPT ![t] = n] /\ held[t] = NoRecord /\ UNCHANGED records
    BY <1>6 DEF Takes
  <2>3. \A u \in Threads : held[u] # n
    BY <2>1 DEF HeldOnce
  <2>4. \A i \in DOMAIN queue' : queue'[i].id \in Ids
    BY <2>1, EntryFacts
  <2> HIDE DEF n
  <2>5. /\ \A u \in Threads : held'[u] \in DOMAIN records' \cup {NoRecord}
        /\ \A u, v \in Threads : held'[u] = held'[v] /\ held'[u] # NoRecord => u = v
    BY <1>0, <2>1, <2>2, <2>3 DEF HeldOnce
  <2>6. \A i \in DOMAIN queue', u \in Threads : held'[u] = queue'[i].id <=> held[u] = queue'[i].id
    BY <1>0, <2>1, <2>2, <2>4 DEF NoRecord, Ids
  <2>7. \A i \in DOMAIN queue' :
          queue'[i].ready <=> \A u \in Threads : held[u] # queue'[i].id
    BY <2>1 DEF HeldOnce
  <2> QED
    BY <2>5, <2>6, <2>7 DEF HeldOnce
<1>7. ASSUME NEW t \in Threads, Writes(t) PROVE HeldOnce'
  <2>1. held' = [held EXCEPT ![t] = NoRecord] /\ UNCHANGED <<queue, records>> /\ held[t] \notin Queued
    BY <1>7 DEF Writes
  <2>2. \A i \in DOMAIN queue : queue[i].id \in Ids /\ queue[i].id # NoRecord
    BY <1>0, EntryFacts
  <2>3. \A i \in DOMAIN queue, u \in Threads : held'[u] = queue[i].id <=> held[u] = queue[i].id
    BY <1>0, <2>1, <2>2 DEF Queued
  <2> QED
    BY <1>0, <2>1, <2>3 DEF HeldOnce
<1> QED
  BY <1>1, <1>2, <1>3, <1>4, <1>5, <1>6, <1>7 DEF RecordStep

LEMMA WrittenIds ==
  ASSUME LoggerInv
  PROVE  /\ \A line \in written : line.id \in DOMAIN records /\ line.id \in Ids /\ line.id # NoRecord
         /\ Queued \subseteq DOMAIN records
         /\ Held \subseteq DOMAIN records
<1>1. \A line \in written : line.id \in DOMAIN records
  BY DEF LoggerInv, RecordsInv, Accounted, Written, Kept
<1>2. \A line \in written : line.id \in Ids /\ line.id # NoRecord
  BY DEF LoggerInv, TypeOK, NoRecord, Ids
<1> QED
  BY <1>1, <1>2 DEF LoggerInv, RecordsInv, Accounted, Kept

LEMMA KeptFacts ==
  ASSUME records \in Seq(Fates), NEW fate \in Fates, Stamp(fate)
  PROVE  Kept' = IF fate = "dropped" THEN Kept ELSE Kept \cup {Len(records')}
<1>1. /\ Len(records') \notin DOMAIN records
      /\ DOMAIN records' = DOMAIN records \cup {Len(records')}
      /\ \A id \in DOMAIN records : records'[id] = records[id]
      /\ records'[Len(records')] = fate
  BY StampFacts
<1> QED
  BY <1>1 DEF Kept


\* How each kind of step changes who holds a record outside the queue.
LEMMA HoldersSame ==
  ASSUME LoggerInv, NEW t \in Threads, Claims(t) \/ Publishes(t)
  PROVE  /\ Holders' = Holders /\ Held' = Held
         /\ \A u \in Holders : held'[u] = held[u]
<1>0. /\ queue \in Seq(Entries) /\ records \in Seq(Fates) /\ held \in [Threads -> Ids \cup {NoRecord}]
  BY DEF TypeOK, Entries, Fates, LoggerInv
<1>1. \A u \in Threads : held'[u] = held[u] => (held[u] \in Queued <=> held[u] \in Queued')
  BY HandsFrame DEF RecordStep
<1>2. /\ \A u \in Threads \ {t} : held'[u] = held[u]
      /\ held[t] \in Queued \cup {NoRecord} /\ held'[t] \in Queued' \cup {NoRecord}
  <2>1. CASE Claims(t)
    <3>1. Len(records') \in Ids
      BY <1>0, <2>1, StampFacts DEF Claims, Fates
    <3>2. Queued' = Queued \cup {Len(records')}
      BY <1>0, <2>1, <3>1, ClaimFacts DEF Claims
    <3> QED
      BY <1>0, <2>1, <3>2 DEF Claims
  <2>2. CASE Publishes(t)
    BY <1>0, <2>2 DEF Publishes
  <2> QED
    BY <2>1, <2>2
<1>3. Holders' = Holders /\ t \notin Holders
  BY <1>1, <1>2 DEF Holders
<1> QED
  BY <1>2, <1>3 DEF Held, Holders

LEMMA HoldersGain ==
  ASSUME LoggerInv, NEW t \in Threads, Refuses(t) \/ Takes(t)
  PROVE  /\ t \notin Holders /\ Holders' = Holders \cup {t}
         /\ Held' = Held \cup {held'[t]}
         /\ \A u \in Holders : held'[u] = held[u]
<1>0. /\ queue \in Seq(Entries) /\ records \in Seq(Fates) /\ held \in [Threads -> Ids \cup {NoRecord}]
      /\ QueueInOrder
  BY DEF TypeOK, Entries, Fates, LoggerInv, RecordsInv
<1>1. \A u \in Threads : held'[u] = held[u] => (held[u] \in Queued <=> held[u] \in Queued')
  BY HandsFrame DEF RecordStep
<1>2. /\ \A u \in Threads \ {t} : held'[u] = held[u]
      /\ held[t] = NoRecord /\ held'[t] \notin Queued' \cup {NoRecord}
  <2>1. CASE Refuses(t)
    <3>1. Len(records') \in Ids /\ Len(records') \notin DOMAIN records
      BY <1>0, <2>1, StampFacts DEF Refuses, Fates
    <3>2. Len(records') # NoRecord
      BY <3>1, LoggerAssumption DEF Ids, NoRecord
    <3>3. Len(records') \notin Queued /\ Queued' = Queued
      BY <2>1, <3>1, <1>0 DEF Refuses, Queued, QueueInOrder
    <3> QED
      BY <1>0, <2>1, <3>2, <3>3 DEF Refuses
  <2>2. CASE Takes(t)
    <3>1. Head(queue).id \in Ids /\ Queued' = Queued \ {Head(queue).id}
      BY <1>0, <2>2, PopFacts DEF Takes
    <3>2. Head(queue).id # NoRecord
      BY <3>1, LoggerAssumption DEF Ids, NoRecord
    <3> QED
      BY <1>0, <2>2, <3>1, <3>2 DEF Takes
  <2> QED
    BY <2>1, <2>2
<1>3. Holders' = Holders \cup {t} /\ t \notin Holders
  BY <1>1, <1>2 DEF Holders
<1> QED
  BY <1>2, <1>3 DEF Held, Holders

LEMMA HoldersLose ==
  ASSUME LoggerInv, NEW t \in Threads, Writes(t)
  PROVE  /\ t \in Holders /\ Holders' = Holders \ {t}
         /\ Held' = Held \ {held[t]}
         /\ \A u \in Holders' : held'[u] = held[u]
<1>0. held \in [Threads -> Ids \cup {NoRecord}] /\ HeldOnce
  BY DEF TypeOK, LoggerInv, RecordsInv
<1>1. \A u \in Threads : held'[u] = held[u] => (held[u] \in Queued <=> held[u] \in Queued')
  BY HandsFrame DEF RecordStep
<1>2. /\ \A u \in Threads \ {t} : held'[u] = held[u]
      /\ held[t] \notin Queued \cup {NoRecord} /\ held'[t] = NoRecord
  BY <1>0 DEF Writes
<1>3. Holders' = Holders \ {t} /\ t \in Holders
  BY <1>1, <1>2 DEF Holders
<1>4. \A u \in Holders' : held'[u] = held[u] /\ held[u] # held[t]
  BY <1>0, <1>2, <1>3 DEF Holders, HeldOnce
<1> QED
  BY <1>2, <1>3, <1>4 DEF Held

LEMMA AccountedKept ==
  ASSUME LoggerInv, RecordStep PROVE Accounted'
<1>0. /\ queue \in Seq(Entries) /\ records \in Seq(Fates) /\ held \in [Threads -> Ids \cup {NoRecord}]
      /\ QueueInOrder /\ Accounted
  BY DEF TypeOK, Entries, Fates, LoggerInv, RecordsInv
<1>1. CASE Quiet
  BY <1>0, <1>1 DEF Quiet, Accounted, Queued, Held, Holders, Written, Kept
<1>2. CASE Drops
  <2>1. Kept' = Kept
    BY <1>0, <1>2, KeptFacts DEF Drops, Fates
  <2>2. Queued' = Queued /\ Held' = Held /\ Written' = Written
    BY <1>2 DEF Drops, Queued, Held, Holders, Written
  <2> QED
    BY <1>0, <2>1, <2>2 DEF Accounted
<1>3. ASSUME NEW t \in Threads, Claims(t) PROVE Accounted'
  <2>1. Kept' = Kept \cup {Len(records')} /\ Len(records') \in Ids
    BY <1>0, <1>3, KeptFacts, StampFacts DEF Claims, Fates
  <2>2. Queued' = Queued \cup {Len(records')}
    BY <1>0, <1>3, <2>1, ClaimFacts DEF Claims
  <2>3. Held' = Held /\ Written' = Written
    BY <1>3, HoldersSame DEF Claims, Written
  <2> QED
    BY <1>0, <2>1, <2>2, <2>3 DEF Accounted
<1>4. ASSUME NEW t \in Threads, Publishes(t) PROVE Accounted'
  <2>1. Kept' = Kept /\ Written' = Written
    BY <1>4 DEF Publishes, Kept, Written
  <2>2. Queued' = Queued
    BY <1>0, <1>4, PublishFacts
  <2>3. Held' = Held
    BY <1>4, HoldersSame
  <2> QED
    BY <1>0, <2>1, <2>2, <2>3 DEF Accounted
<1>5. ASSUME NEW t \in Threads, Refuses(t) PROVE Accounted'
  <2>1. Kept' = Kept \cup {Len(records')}
    BY <1>0, <1>5, KeptFacts DEF Refuses, Fates
  <2>2. Held' = Held \cup {Len(records')}
    BY <1>0, <1>5, HoldersGain DEF Refuses
  <2>3. Queued' = Queued /\ Written' = Written
    BY <1>5 DEF Refuses, Queued, Written
  <2> QED
    BY <1>0, <2>1, <2>2, <2>3 DEF Accounted
<1>6. ASSUME NEW t \in Threads, Takes(t) PROVE Accounted'
  <2>1. Kept' = Kept /\ Written' = Written
    BY <1>6 DEF Takes, Kept, Written
  <2>2. Queued' = Queued \ {Head(queue).id} /\ Head(queue).id \in Queued
    BY <1>0, <1>6, PopFacts DEF Takes
  <2>3. Held' = Held \cup {Head(queue).id}
    BY <1>0, <1>6, HoldersGain DEF Takes
  <2> QED
    BY <1>0, <2>1, <2>2, <2>3 DEF Accounted
<1>7. ASSUME NEW t \in Threads, Writes(t) PROVE Accounted'
  <2>1. Kept' = Kept /\ Queued' = Queued
    BY <1>7 DEF Writes, Kept, Queued
  <2>2. Written' = Written \cup {held[t]}
    <3> DEFINE line == [id |-> held[t], by |-> t]
    <3>1. written' = written \cup {line} /\ line.id = held[t]
      BY <1>7 DEF Writes
    <3> HIDE DEF line
    <3> QED
      BY <3>1 DEF Written
  <2>3. Held' = Held \ {held[t]} /\ held[t] \in Held
    BY <1>7, HoldersLose DEF Held
  <2> QED
    BY <1>0, <2>1, <2>2, <2>3 DEF Accounted
<1> QED
  BY <1>1, <1>2, <1>3, <1>4, <1>5, <1>6, <1>7 DEF RecordStep

LEMMA WrittenOnceKept ==
  ASSUME LoggerInv, RecordStep PROVE WrittenOnce'
<1>0. /\ queue \in Seq(Entries) /\ records \in Seq(Fates) /\ held \in [Threads -> Ids \cup {NoRecord}]
      /\ QueueInOrder /\ HeldOnce /\ WrittenOnce
  BY DEF TypeOK, Entries, Fates, LoggerInv, RecordsInv
<1>1. CASE Quiet \/ Drops
  BY <1>0, <1>1 DEF Quiet, Drops, WrittenOnce, Queued
<1>2. ASSUME NEW t \in Threads, Claims(t) \/ Refuses(t) PROVE WrittenOnce'
  <2>1. /\ Len(records') \in Ids /\ Len(records') \notin DOMAIN records
        /\ UNCHANGED written /\ held' = [held EXCEPT ![t] = Len(records')]
    BY <1>0, <1>2, StampFacts DEF Claims, Refuses, Fates
  <2>2. Queued' \subseteq Queued \cup {Len(records')}
    BY <1>0, <1>2, <2>1, ClaimFacts DEF Claims, Refuses, Queued
  <2>3. \A line \in written : line.id # Len(records')
    BY <2>1, WrittenIds
  <2>4. \A line \in written : line.id \notin Queued'
    BY <1>0, <2>2, <2>3 DEF WrittenOnce
  <2>5. \A line \in written, u \in Threads : held'[u] # line.id
    BY <1>0, <2>1, <2>3 DEF WrittenOnce
  <2> QED
    BY <1>0, <2>1, <2>4, <2>5 DEF WrittenOnce
<1>3. ASSUME NEW t \in Threads, Publishes(t) PROVE WrittenOnce'
  <2>1. Queued' = Queued /\ UNCHANGED written /\ held' = [held EXCEPT ![t] = NoRecord]
    BY <1>0, <1>3, PublishFacts DEF Publishes
  <2>2. \A line \in written, u \in Threads : held'[u] # line.id
    BY <1>0, <2>1, WrittenIds DEF WrittenOnce
  <2> QED
    BY <1>0, <2>1, <2>2 DEF WrittenOnce
<1>4. ASSUME NEW t \in Threads, Takes(t) PROVE WrittenOnce'
  <2>1. /\ Queued' = Queued \ {Head(queue).id} /\ Head(queue).id \in Queued
        /\ UNCHANGED written /\ held' = [held EXCEPT ![t] = Head(queue).id]
    BY <1>0, <1>4, PopFacts DEF Takes
  <2> QED
    BY <1>0, <2>1 DEF WrittenOnce
<1>5. ASSUME NEW t \in Threads, Writes(t) PROVE WrittenOnce'
  <2> DEFINE line == [id |-> held[t], by |-> t]
  <2>1. /\ held[t] \notin Queued \cup {NoRecord}
        /\ UNCHANGED queue /\ held' = [held EXCEPT ![t] = NoRecord]
        /\ written' = written \cup {line} /\ line.id = held[t]
    BY <1>5 DEF Writes
  <2> HIDE DEF line
  <2>2. Queued' = Queued
    BY <2>1 DEF Queued
  <2>3. \A u \in Threads : held'[u] # held[t]
    BY <1>0, <2>1 DEF HeldOnce
  <2>4. \A other \in written, u \in Threads : held'[u] # other.id
    BY <1>0, <2>1, WrittenIds DEF WrittenOnce
  <2> QED
    BY <1>0, <2>1, <2>2, <2>3, <2>4 DEF WrittenOnce
<1> QED
  BY <1>1, <1>2, <1>3, <1>4, <1>5 DEF RecordStep

LEMMA RecordsGrow ==
  ASSUME LoggerInv, RecordStep
  PROVE  /\ DOMAIN records \subseteq DOMAIN records'
         /\ \A id \in DOMAIN records : records'[id] = records[id]
<1>0. records \in Seq(Fates)
  BY DEF TypeOK, Fates, LoggerInv
<1>1. UNCHANGED records \/ \E fate \in Fates : Stamp(fate)
  BY DEF RecordStep, Quiet, Drops, Claims, Publishes, Refuses, Takes, Writes, Fates
<1> QED
  BY <1>0, <1>1, StampFacts

LEMMA OrderKept ==
  ASSUME LoggerInv, RecordStep PROVE OldestGoFirst' /\ WrittenInOrder'
<1>0. /\ queue \in Seq(Entries) /\ records \in Seq(Fates) /\ held \in [Threads -> Ids \cup {NoRecord}]
      /\ QueueInOrder /\ OldestGoFirst /\ WrittenInOrder
  BY DEF TypeOK, Entries, Fates, LoggerInv, RecordsInv
<1>a. /\ \A id \in DOMAIN records : records'[id] = records[id]
      /\ \A line \in written : line.id \in DOMAIN records
      /\ \A t \in Holders : held[t] \in DOMAIN records
  BY RecordsGrow, WrittenIds DEF Held
<1>1. CASE Quiet \/ Drops
  <2>1. Holders' = Holders /\ UNCHANGED <<queue, written, held>>
    BY <1>1 DEF Quiet, Drops, Holders, Queued
  <2> QED
    BY <1>0, <1>a, <2>1 DEF OldestGoFirst, WrittenInOrder
<1>2. ASSUME NEW t \in Threads, Claims(t) PROVE OldestGoFirst' /\ WrittenInOrder'
  <2>1. /\ Len(records') \in Ids
        /\ \A id \in DOMAIN records : id < Len(records')
    BY <1>0, <1>2, StampFacts DEF Claims, Fates
  <2>2. /\ DOMAIN queue' = DOMAIN queue \cup {Len(queue')}
        /\ \A i \in DOMAIN queue : queue'[i] = queue[i]
        /\ queue'[Len(queue')].id = Len(records')
    BY <1>0, <1>2, <2>1, ClaimFacts DEF Claims
  <2>3. Holders' = Holders /\ (\A u \in Holders : held'[u] = held[u]) /\ UNCHANGED written
    BY <1>2, HoldersSame DEF Claims
  <2>4. WrittenInOrder'
    BY <1>0, <1>a, <2>3 DEF WrittenInOrder
  <2>5. \A line \in written, i \in DOMAIN queue' :
          records'[line.id] = "accepted" => line.id < queue'[i].id
    BY <1>0, <1>a, <2>1, <2>2 DEF OldestGoFirst
  <2>6. \A u \in Holders, i \in DOMAIN queue' :
          records'[held[u]] = "accepted" => held[u] < queue'[i].id
    BY <1>0, <1>a, <2>1, <2>2 DEF OldestGoFirst
  <2> QED
    BY <2>3, <2>4, <2>5, <2>6 DEF OldestGoFirst
<1>3. ASSUME NEW t \in Threads, Publishes(t) PROVE OldestGoFirst' /\ WrittenInOrder'
  <2>1. /\ DOMAIN queue' = DOMAIN queue
        /\ \A i \in DOMAIN queue : queue'[i].id = queue[i].id
    BY <1>0, <1>3, PublishFacts
  <2>2. /\ Holders' = Holders /\ (\A u \in Holders : held'[u] = held[u])
        /\ UNCHANGED <<written, records>>
    BY <1>3, HoldersSame DEF Publishes
  <2> QED
    BY <1>0, <2>1, <2>2 DEF OldestGoFirst, WrittenInOrder
<1>4. ASSUME NEW t \in Threads, Refuses(t) PROVE OldestGoFirst' /\ WrittenInOrder'
  <2>1. held'[t] = Len(records') /\ records'[Len(records')] = "refused" /\ UNCHANGED <<queue, written>>
    BY <1>0, <1>4, StampFacts DEF Refuses, Fates
  <2>2. Holders' = Holders \cup {t} /\ (\A u \in Holders : held'[u] = held[u])
    BY <1>4, HoldersGain
  <2> QED
    BY <1>0, <1>a, <2>1, <2>2 DEF OldestGoFirst, WrittenInOrder
<1>5. ASSUME NEW t \in Threads, Takes(t) PROVE OldestGoFirst' /\ WrittenInOrder'
  <2>1. /\ 1 \in DOMAIN queue /\ Head(queue) = queue[1]
        /\ \A i \in DOMAIN queue' :
              i + 1 \in DOMAIN queue /\ queue'[i] = queue[i + 1] /\ Head(queue).id < queue'[i].id
        /\ held'[t] = Head(queue).id /\ UNCHANGED <<written, records>>
    BY <1>0, <1>5, PopFacts DEF Takes
  <2>2. Holders' = Holders \cup {t} /\ (\A u \in Holders : held'[u] = held[u])
    BY <1>5, HoldersGain
  <2>3. OldestGoFirst'
    BY <1>0, <2>1, <2>2 DEF OldestGoFirst
  <2>4. \A line \in written : records[line.id] = "accepted" => line.id < held'[t]
    BY <1>0, <2>1 DEF OldestGoFirst
  <2>5. WrittenInOrder'
    BY <1>0, <2>1, <2>2, <2>4 DEF WrittenInOrder
  <2> QED
    BY <2>3, <2>5
<1>6. ASSUME NEW t \in Threads, Writes(t) PROVE OldestGoFirst' /\ WrittenInOrder'
  <2> DEFINE line == [id |-> held[t], by |-> t]
  <2>1. /\ UNCHANGED <<queue, records>>
        /\ written' = written \cup {line} /\ line.id = held[t] /\ line.by = t
    BY <1>6 DEF Writes
  <2> HIDE DEF line
  <2>2. t \in Holders /\ Holders' = Holders \ {t} /\ (\A u \in Holders' : held'[u] = held[u])
    BY <1>6, HoldersLose
  <2> QED
    BY <1>0, <2>1, <2>2 DEF OldestGoFirst, WrittenInOrder
<1> QED
  BY <1>1, <1>2, <1>3, <1>4, <1>5, <1>6 DEF RecordStep

LEMMA RecordsKept ==
  ASSUME LoggerInv, RecordStep PROVE RecordsInv'
BY QueueInOrderKept, HeldOnceKept, WrittenOnceKept, AccountedKept, OrderKept DEF RecordsInv

-----------------------------------------------------------------------------

(* What a flush found reachable at its start.                              *)

PendingStep ==
  \/ UNCHANGED pending
  \/ /\ UNCHANGED <<queue, records>>
     /\ \E t \in Threads : \/ pending' = [pending EXCEPT ![t] = Reachable]
                           \/ pending' = [pending EXCEPT ![t] = {}]

LEMMA PendingSteps == ASSUME Next PROVE PendingStep
<1> Worker \in Threads /\ Callers \subseteq Threads
  BY DEF Threads
<1> USE DEF PendingStep
<1>1. CASE WorkerStep
  BY <1>1 DEF WorkerStep, WorkerPop, WorkerWrite, WorkerEmpty, WorkerCheck, WorkerWake,
              FlushPop, FlushWrite, FlushEnd, EnterFlush, Return
<1>2. ASSUME NEW t \in Callers, CallerStep(t) PROVE PendingStep
  BY <1>2 DEF CallerStep, SubmitInitialize, Initialize, SubmitFiltered, SubmitClaim,
              SubmitPublish, SubmitRefused, DirectWrite, AfterPush, FlushPop, FlushWrite,
              FlushEnd, EnterFlush, Return, ShutdownJoined, ShutdownReset, ShutdownDone
<1>3. ASSUME NEW t \in Callers, Call(t) PROVE PendingStep
  BY <1>3 DEF Call, CallInitialize, Initialize, FlushBegin, EnterFlush, ShutdownBegin,
              SubmitBegin
<1> QED
  BY <1>1, <1>2, <1>3 DEF Next

LEMMA ReachableFacts ==
  ASSUME LoggerInv
  PROVE  /\ Reachable \subseteq DOMAIN records
         /\ \A i \in DOMAIN queue :
              queue[i].id \in Reachable => \A k \in 1 .. i : queue[k].ready
<1>0. queue \in Seq(Entries) /\ QueueInOrder
  BY DEF TypeOK, Entries, LoggerInv, RecordsInv
<1>1. \A i, j \in DOMAIN queue : queue[i].id = queue[j].id => i = j
  <2> SUFFICES ASSUME NEW i \in DOMAIN queue, NEW j \in DOMAIN queue, i # j
               PROVE  queue[i].id # queue[j].id
    OBVIOUS
  <2>1. i \in Nat /\ j \in Nat /\ queue[i].id \in Nat /\ queue[j].id \in Nat
    BY <1>0, EntryFacts, LoggerAssumption DEF Ids
  <2> QED
    BY <1>0, <2>1 DEF QueueInOrder
<1>2. \A id \in Reachable : \E i \in DOMAIN queue : id = queue[i].id /\ \A k \in 1 .. i : queue[k].ready
  BY DEF Reachable
<1> QED
  BY <1>0, <1>1, <1>2 DEF QueueInOrder

LEMMA ReadyPrefixKept ==
  ASSUME LoggerInv, RecordStep, PendingStep PROVE ReadyPrefix'
<1>0. /\ queue \in Seq(Entries) /\ records \in Seq(Fates) /\ pending \in [Threads -> SUBSET Ids]
      /\ QueueInOrder /\ HeldOnce /\ ReadyPrefix
  BY DEF TypeOK, Entries, Fates, LoggerInv, RecordsInv
<1>1. CASE ~UNCHANGED pending
  <2>1. PICK t \in Threads : \/ pending' = [pending EXCEPT ![t] = Reachable]
                             \/ pending' = [pending EXCEPT ![t] = {}]
    BY <1>1 DEF PendingStep
  <2>2. UNCHANGED <<queue, records>>
    BY <1>1 DEF PendingStep
  <2> QED
    BY <1>0, <2>1, <2>2, ReachableFacts DEF ReadyPrefix
<1> SUFFICES ASSUME UNCHANGED pending PROVE ReadyPrefix'
  BY <1>1
<1>b. \A i \in DOMAIN queue : \A k \in 1 .. i : k \in DOMAIN queue
  <2>1. DOMAIN queue = 1 .. Len(queue) /\ Len(queue) \in Nat
    BY <1>0, LenProperties
  <2> QED
    BY <2>1
<1>a. \A t \in Threads : pending[t] \subseteq DOMAIN records'
  BY <1>0, RecordsGrow DEF ReadyPrefix
<1>2. CASE UNCHANGED queue
  BY <1>0, <1>2, <1>a DEF ReadyPrefix
<1>3. ASSUME NEW t \in Threads, Claims(t) PROVE ReadyPrefix'
  <2>1. Len(records') \in Ids /\ Len(records') \notin DOMAIN records
    BY <1>0, <1>3, StampFacts DEF Claims, Fates
  <2>2. /\ DOMAIN queue' = DOMAIN queue \cup {Len(queue')}
        /\ \A i \in DOMAIN queue : queue'[i] = queue[i]
        /\ queue'[Len(queue')].id = Len(records')
    BY <1>0, <1>3, <2>1, ClaimFacts DEF Claims
  <2> QED
    BY <1>0, <1>a, <1>b, <2>1, <2>2 DEF ReadyPrefix
<1>4. ASSUME NEW t \in Threads, Publishes(t) PROVE ReadyPrefix'
  <2>1. /\ DOMAIN queue' = DOMAIN queue
        /\ \A i \in DOMAIN queue :
             queue'[i].id = queue[i].id /\ (queue[i].ready => queue'[i].ready)
    BY <1>0, <1>4, PublishFacts
  <2> QED
    BY <1>0, <1>a, <1>b, <2>1 DEF ReadyPrefix
<1>5. ASSUME NEW t \in Threads, Takes(t) PROVE ReadyPrefix'
  <2>1. \A i \in DOMAIN queue' :
          i \in Nat \ {0} /\ i + 1 \in DOMAIN queue /\ queue'[i] = queue[i + 1]
    BY <1>0, <1>5, PopFacts DEF Takes
  <2>2. \A i \in DOMAIN queue' : \A k \in 1 .. i : k \in DOMAIN queue' /\ k + 1 \in 1 .. (i + 1)
    BY <1>0, <1>5, PopFacts DEF Takes
  <2>3. ASSUME NEW u \in Threads, NEW i \in DOMAIN queue', queue'[i].id \in pending[u],
               NEW k \in 1 .. i
        PROVE  queue'[k].ready
    <3>1. queue[i + 1].id \in pending[u]
      BY <2>1, <2>3
    <3>2. \A j \in 1 .. (i + 1) : queue[j].ready
      BY <1>0, <2>1, <3>1 DEF ReadyPrefix
    <3> QED
      BY <2>1, <2>2, <3>2
  <2> QED
    BY <1>a, <2>3 DEF ReadyPrefix
<1> QED
  BY <1>2, <1>3, <1>4, <1>5 DEF RecordStep, Quiet, Drops, Refuses, Writes

-----------------------------------------------------------------------------

(* The types.                                                              *)

LEMMA RecordTypesKept ==
  ASSUME LoggerInv, RecordStep
  PROVE  /\ queue' \in Seq(Entries) /\ Len(queue') <= Capacity
         /\ records' \in Seq(Fates) /\ Len(records') <= MaxRecords
         /\ written' \subseteq [id : Ids, by : Threads]
         /\ held' \in [Threads -> Ids \cup {NoRecord}]
<1>0. /\ queue \in Seq(Entries) /\ records \in Seq(Fates) /\ held \in [Threads -> Ids \cup {NoRecord}]
      /\ written \subseteq [id : Ids, by : Threads] /\ QueueInOrder
      /\ Len(queue) <= Capacity /\ Len(records) <= MaxRecords
      /\ Len(queue) \in Nat /\ Capacity \in Nat /\ MaxRecords \in Nat
  BY LoggerAssumption, LenProperties DEF TypeOK, Entries, Fates, LoggerInv, RecordsInv
<1>1. CASE Quiet
  BY <1>0, <1>1 DEF Quiet
<1>2. CASE Drops
  <2>1. records' \in Seq(Fates) /\ Len(records') \in Ids
    BY <1>0, <1>2, StampFacts DEF Drops, Fates
  <2> QED
    BY <1>0, <1>2, <2>1 DEF Drops, Ids
<1>3. ASSUME NEW t \in Threads, Claims(t) \/ Refuses(t)
      PROVE  /\ records' \in Seq(Fates) /\ Len(records') \in Ids /\ Len(records') <= MaxRecords
             /\ UNCHANGED written /\ held' \in [Threads -> Ids \cup {NoRecord}]
             /\ queue' \in Seq(Entries) /\ Len(queue') <= Capacity
  <2>1. records' \in Seq(Fates) /\ Len(records') \in Ids
    BY <1>0, <1>3, StampFacts DEF Claims, Refuses, Fates
  <2>2. held' = [held EXCEPT ![t] = Len(records')] /\ UNCHANGED written
    BY <1>3 DEF Claims, Refuses
  <2>3. held' \in [Threads -> Ids \cup {NoRecord}]
    BY <1>0, <2>1, <2>2
  <2>4. Len(records') <= MaxRecords
    BY <1>0, <2>1 DEF Ids
  <2>5. CASE Claims(t)
    <3>1. /\ Len(queue) < Capacity
          /\ queue' = Append(queue, [id |-> Len(records'), ready |-> FALSE])
      BY <2>5 DEF Claims
    <3>2. queue' \in Seq(Entries) /\ Len(queue') = Len(queue) + 1
      BY <1>0, <2>1, <3>1, ClaimFacts
    <3> QED
      BY <1>0, <2>1, <2>2, <2>3, <2>4, <3>1, <3>2
  <2>6. CASE Refuses(t)
    BY <1>0, <2>1, <2>2, <2>3, <2>4, <2>6 DEF Refuses
  <2> QED
    BY <1>3, <2>5, <2>6
<1>4. ASSUME NEW t \in Threads, Publishes(t)
      PROVE  /\ queue' \in Seq(Entries) /\ Len(queue') = Len(queue)
             /\ UNCHANGED <<records, written>> /\ held' \in [Threads -> Ids \cup {NoRecord}]
  BY <1>0, <1>4, PublishFacts DEF Publishes
<1>5. ASSUME NEW t \in Threads, Takes(t)
      PROVE  /\ queue' \in Seq(Entries) /\ Len(queue') <= Capacity
             /\ UNCHANGED <<records, written>> /\ held' \in [Threads -> Ids \cup {NoRecord}]
  <2>1. /\ queue' \in Seq(Entries) /\ Len(queue') = Len(queue) - 1 /\ Head(queue).id \in Ids
    BY <1>0, <1>5, PopFacts DEF Takes
  <2> QED
    BY <1>0, <1>5, <2>1 DEF Takes
<1>6. ASSUME NEW t \in Threads, Writes(t)
      PROVE  /\ UNCHANGED <<queue, records>> /\ held' \in [Threads -> Ids \cup {NoRecord}]
             /\ written' \subseteq [id : Ids, by : Threads]
  BY <1>0, <1>6 DEF Writes
<1> QED
  BY <1>0, <1>1, <1>2, <1>3, <1>4, <1>5, <1>6 DEF RecordStep

ControlTypes ==
  /\ {initialized, running, has_sink, has_queue, consumed_any} \subseteq BOOLEAN
  /\ pc \in [Threads -> CallerPc \cup WorkerPc \cup {"terminated"}]
  /\ level \in [Callers -> Levels]
  /\ pending \in [Threads -> SUBSET Ids]

LEMMA ControlTypesKept ==
  ASSUME LoggerInv, Next PROVE ControlTypes'
<1>0. /\ ControlTypes
      /\ Callers \subseteq Threads /\ Worker \in Threads
  BY DEF LoggerInv, TypeOK, ControlTypes, Threads
<1>1. /\ CallerPc \subseteq CallerPc \cup WorkerPc \cup {"terminated"}
      /\ WorkerPc \subseteq CallerPc \cup WorkerPc \cup {"terminated"}
      /\ {"work", "check", "wait", "exited", "work_write"} \subseteq WorkerPc
      /\ {"flush_pop", "flush_write"} \subseteq WorkerPc
      /\ {"idle", "submit_init", "submit", "publish", "direct", "after_push", "flush_pop",
          "flush_write", "join", "reset", "shutdown_done"} \subseteq CallerPc
  BY DEF CallerPc, WorkerPc
<1>2. Reachable \subseteq Ids
  <2>1. queue \in Seq(Entries)
    BY DEF LoggerInv, TypeOK, Entries
  <2> QED
    BY <2>1, EntryFacts DEF Reachable
<1>3. "info" \in Levels
  BY DEF Levels
<1>4. CASE WorkerStep
  <2>1. CASE WorkerPop \/ WorkerWrite \/ WorkerEmpty \/ WorkerWake
    BY <1>0, <1>1, <2>1 DEF WorkerPop, Pop, WorkerWrite, WorkerEmpty, WorkerWake, Goto,
                            ControlTypes, config
  <2>2. CASE WorkerCheck
    BY <1>0, <1>1, <1>2, <2>2 DEF WorkerCheck, EnterFlush, Goto, ControlTypes, config
  <2>3. CASE FlushPop(Worker) \/ FlushWrite(Worker)
    BY <1>0, <1>1, <2>3 DEF FlushPop, Pop, FlushWrite, Goto, ControlTypes, config
  <2>4. CASE FlushEnd(Worker)
    BY <1>0, <1>1, <1>3, <2>4 DEF FlushEnd, Return, Goto, ControlTypes, config
  <2> QED
    BY <1>4, <2>1, <2>2, <2>3, <2>4 DEF WorkerStep
<1>5. ASSUME NEW t \in Callers, CallerStep(t) PROVE ControlTypes'
  <2>1. CASE SubmitInitialize(t)
    BY <1>0, <1>1, <2>1 DEF SubmitInitialize, Initialize, Configure, ControlTypes, config
  <2>2. CASE SubmitFiltered(t) \/ SubmitClaim(t) \/ SubmitPublish(t)
    BY <1>0, <1>1, <1>3, <2>2 DEF SubmitFiltered, SubmitClaim, SubmitPublish, Goto,
                                  ControlTypes, config
  <2>3. CASE SubmitRefused(t) \/ DirectWrite(t)
    BY <1>0, <1>1, <2>3 DEF SubmitRefused, DirectWrite, Goto, ControlTypes, config
  <2>4. CASE AfterPush(t)
    BY <1>0, <1>1, <1>2, <1>3, <2>4 DEF AfterPush, EnterFlush, Return, Goto, ControlTypes, config
  <2>5. CASE FlushPop(t) \/ FlushWrite(t)
    BY <1>0, <1>1, <2>5 DEF FlushPop, Pop, FlushWrite, Goto, ControlTypes, config
  <2>6. CASE FlushEnd(t)
    BY <1>0, <1>1, <1>3, <2>6 DEF FlushEnd, Return, Goto, ControlTypes, config
  <2>7. CASE ShutdownJoined(t) \/ ShutdownReset(t) \/ ShutdownDone(t)
    BY <1>0, <1>1, <2>7 DEF ShutdownJoined, ShutdownReset, ShutdownDone, Goto, ControlTypes, config
  <2> QED
    BY <1>5, <2>1, <2>2, <2>3, <2>4, <2>5, <2>6, <2>7 DEF CallerStep
<1>6. ASSUME NEW t \in Callers, Call(t) PROVE ControlTypes'
  <2>1. CASE CallInitialize(t)
    BY <1>0, <1>1, <2>1 DEF CallInitialize, Initialize, Configure, ControlTypes, config
  <2>2. CASE FlushBegin(t) \/ ShutdownBegin(t)
    BY <1>0, <1>1, <1>2, <2>2 DEF FlushBegin, ShutdownBegin, EnterFlush, Goto, ControlTypes, config
  <2>3. ASSUME NEW l \in Levels, SubmitBegin(t, l) PROVE ControlTypes'
    BY <1>0, <1>1, <2>3 DEF SubmitBegin, Goto, ControlTypes, config
  <2> QED
    BY <1>6, <2>1, <2>2, <2>3 DEF Call
<1> QED
  BY <1>4, <1>5, <1>6 DEF Next

LEMMA TypesKept == ASSUME LoggerInv, Next PROVE TypeOK'
BY RecordSteps, RecordTypesKept, ControlTypesKept DEF TypeOK, ControlTypes, Entries, Fates

-----------------------------------------------------------------------------

\* When one thread moves, it is enough to look at that thread's record.
LEMMA HandsMove ==
  ASSUME LoggerInv, RecordStep, NEW t \in Threads, HandOf(t)',
         \A u \in Threads \ {t} : pc'[u] = pc[u] /\ held'[u] = held[u]
  PROVE  Hands'
<1>1. ASSUME NEW u \in Threads \ {t} PROVE HandOf(u)'
  <2>1. HandOf(u) /\ (held[u] \in Queued <=> held[u] \in Queued') /\ pc'[u] = pc[u] /\ held'[u] = held[u]
    BY HandsFrame DEF LoggerInv, Hands
  <2> QED
    BY <2>1 DEF HandOf
<1> QED
  BY <1>1 DEF Hands

LEMMA HandsKept == ASSUME LoggerInv, Next PROVE Hands'
<1>0. /\ pc \in [Threads -> CallerPc \cup WorkerPc \cup {"terminated"}]
      /\ held \in [Threads -> Ids \cup {NoRecord}]
      /\ queue \in Seq(Entries) /\ records \in Seq(Fates) /\ QueueInOrder
      /\ Hands /\ Phases /\ RecordStep
      /\ Callers \subseteq Threads /\ Worker \in Threads
  BY RecordSteps DEF LoggerInv, TypeOK, Entries, Fates, RecordsInv, Threads
<1>1. ASSUME NEW t \in Threads, NEW label \in RestingPc, Goto(t, label),
             UNCHANGED held, pc[t] \notin HoldingPc \cup {"terminated"}
      PROVE  Hands'
  <2>1. /\ pc'[t] = label /\ held'[t] = NoRecord
        /\ \A u \in Threads \ {t} : pc'[u] = pc[u] /\ held'[u] = held[u]
    BY <1>0, <1>1 DEF Goto, Hands, HandOf
  <2>2. HandOf(t)'
    BY <2>1 DEF HandOf, HoldingPc, RestingPc
  <2> QED
    BY <1>0, <2>1, <2>2, HandsMove
<1>2. ASSUME NEW t \in Threads, NEW label \in {"work_write", "flush_write"}, Pop(t, label),
             RecordStep
      PROVE  Hands'
  <2>1. Head(queue).id \in Ids /\ Queued' = Queued \ {Head(queue).id}
    BY <1>0, <1>2, PopFacts DEF Pop
  <2>2. Head(queue).id # NoRecord
    BY <2>1, LoggerAssumption DEF Ids, NoRecord
  <2>3. /\ pc'[t] = label /\ held'[t] = Head(queue).id
        /\ \A u \in Threads \ {t} : pc'[u] = pc[u] /\ held'[u] = held[u]
    BY <1>0, <1>2 DEF Pop, Goto
  <2>4. HandOf(t)'
    BY <2>1, <2>2, <2>3 DEF HandOf, HoldingPc, RestingPc
  <2> QED
    BY <1>0, <2>3, <2>4, HandsMove
<1>3. ASSUME NEW t \in Threads, NEW label \in RestingPc, Goto(t, label),
             held' = [held EXCEPT ![t] = NoRecord]
      PROVE  Hands'
  <2>1. /\ pc'[t] = label /\ held'[t] = NoRecord
        /\ \A u \in Threads \ {t} : pc'[u] = pc[u] /\ held'[u] = held[u]
    BY <1>0, <1>3 DEF Goto
  <2>2. HandOf(t)'
    BY <2>1 DEF HandOf, HoldingPc, RestingPc
  <2> QED
    BY <1>0, <2>1, <2>2, HandsMove
<1>4. ASSUME NEW t \in Threads, Return(t), UNCHANGED held, pc[t] \in {"after_push", "flush_pop"}
      PROVE  Hands'
  <2>1. CASE pc' = [u \in Threads |-> "terminated"]
    BY <2>1 DEF Hands, HandOf, HoldingPc, RestingPc
  <2>2. CASE Goto(t, IF t = Worker THEN "exited" ELSE "idle")
    BY <1>1, <1>4, <2>2 DEF HoldingPc, RestingPc
  <2> QED
    BY <1>4, <2>1, <2>2 DEF Return
<1>5. ASSUME NEW t \in Callers, NEW sink \in BOOLEAN, NEW label \in {"idle", "submit"},
             Initialize(t, sink, label), pc[t] \in {"idle", "submit_init"}
      PROVE  Hands'
  <2>1. CASE pc' = [pc EXCEPT ![t] = label]
    BY <1>1, <1>5, <2>1, <1>0 DEF Goto, HoldingPc, RestingPc, Initialize
  <2>2. CASE ~initialized /\ pc' = [[pc EXCEPT ![t] = label] EXCEPT ![Worker] = "work"]
    <3>1. pc[Worker] = "exited"
      BY <1>0, <1>5, <2>2 DEF Phases, Ended, Down, Up, Stopping
    <3>2. /\ pc'[Worker] = "work" /\ pc'[t] = label /\ UNCHANGED <<held, queue>>
          /\ \A u \in Threads \ {t, Worker} : pc'[u] = pc[u]
      BY <1>0, <1>5, <2>2, LoggerAssumption DEF Initialize
    <3>3. held[t] = NoRecord /\ held[Worker] = NoRecord
      BY <1>0, <1>5, <3>1 DEF Hands, HandOf, HoldingPc, RestingPc
    <3>4. \A u \in Threads \ {t, Worker} : HandOf(u)'
      BY <1>0, <3>2 DEF Hands, HandOf, Queued
    <3>5. HandOf(t)' /\ HandOf(Worker)'
      BY <1>0, <3>2, <3>3 DEF HandOf, HoldingPc, RestingPc
    <3> QED
      BY <3>4, <3>5 DEF Hands
  <2> QED
    BY <1>5, <2>1, <2>2 DEF Initialize
<1>6. CASE WorkerStep
  <2>1. CASE WorkerPop
    BY <1>0, <1>2, <2>1 DEF WorkerPop
  <2>2. CASE FlushPop(Worker)
    BY <1>0, <1>2, <2>2 DEF FlushPop
  <2>3. CASE WorkerWrite
    BY <1>0, <1>3, <2>3 DEF WorkerWrite, WriteLine, HoldingPc, RestingPc
  <2>4. CASE FlushWrite(Worker)
    BY <1>0, <1>3, <2>4 DEF FlushWrite, WriteLine, HoldingPc, RestingPc
  <2>5. CASE WorkerEmpty
    BY <1>0, <1>1, <2>5 DEF WorkerEmpty, HoldingPc, RestingPc
  <2>6. CASE WorkerWake
    BY <1>0, <1>1, <2>6 DEF WorkerWake, HoldingPc, RestingPc
  <2>7. CASE WorkerCheck
    BY <1>0, <1>1, <2>7 DEF WorkerCheck, EnterFlush, HoldingPc, RestingPc
  <2>8. CASE FlushEnd(Worker)
    BY <1>0, <1>4, <2>8 DEF FlushEnd
  <2> QED
    BY <1>6, <2>1, <2>2, <2>3, <2>4, <2>5, <2>6, <2>7, <2>8 DEF WorkerStep
<1>7. ASSUME NEW t \in Callers, CallerStep(t) PROVE Hands'
  <2> t \in Threads
    BY <1>0
  <2>1. CASE SubmitInitialize(t)
    BY <1>5, <2>1 DEF SubmitInitialize
  <2>2. CASE SubmitFiltered(t)
    BY <1>0, <1>1, <2>2 DEF SubmitFiltered, HoldingPc, RestingPc
  <2>3. CASE SubmitClaim(t)
    <3>1. Len(records') \in Ids
      BY <1>0, <2>3, StampFacts DEF SubmitClaim, Fates
    <3>2. Queued' = Queued \cup {Len(records')}
      BY <1>0, <2>3, <3>1, ClaimFacts DEF SubmitClaim
    <3>3. /\ pc'[t] = "publish" /\ held'[t] = Len(records')
          /\ \A u \in Threads \ {t} : pc'[u] = pc[u] /\ held'[u] = held[u]
      BY <1>0, <2>3 DEF SubmitClaim, Goto
    <3>4. HandOf(t)'
      BY <3>2, <3>3 DEF HandOf, HoldingPc, RestingPc
    <3> QED
      BY <1>0, <3>3, <3>4, HandsMove
  <2>4. CASE SubmitPublish(t)
    BY <1>0, <1>3, <2>4 DEF SubmitPublish, HoldingPc, RestingPc
  <2>5. CASE SubmitRefused(t)
    <3>1. CASE ~has_queue \/ level[t] = "info"
      BY <1>0, <1>1, <2>5, <3>1 DEF SubmitRefused, HoldingPc, RestingPc
    <3>2. CASE has_queue /\ level[t] # "info"
      <4>1. Stamp("refused") /\ Goto(t, "direct") /\ held' = [held EXCEPT ![t] = Len(records')]
            /\ UNCHANGED queue
        BY <2>5, <3>2 DEF SubmitRefused
      <4>2. Len(records') \in Ids /\ Len(records') \notin DOMAIN records
        BY <1>0, <4>1, StampFacts DEF Fates
      <4>3. Len(records') \notin Queued' \cup {NoRecord}
        BY <1>0, <4>1, <4>2, LoggerAssumption DEF Queued, QueueInOrder, NoRecord, Ids
      <4>4. /\ pc'[t] = "direct" /\ held'[t] = Len(records')
            /\ \A u \in Threads \ {t} : pc'[u] = pc[u] /\ held'[u] = held[u]
        BY <1>0, <4>1 DEF Goto
      <4>5. HandOf(t)'
        BY <4>3, <4>4 DEF HandOf, HoldingPc, RestingPc
      <4> QED
        BY <1>0, <4>4, <4>5, HandsMove
    <3> QED
      BY <3>1, <3>2
  <2>6. CASE DirectWrite(t)
    BY <1>0, <1>3, <2>6 DEF DirectWrite, WriteLine, HoldingPc, RestingPc
  <2>7. CASE AfterPush(t)
    BY <1>0, <1>1, <1>4, <2>7 DEF AfterPush, EnterFlush, HoldingPc, RestingPc
  <2>8. CASE FlushPop(t)
    BY <1>0, <1>2, <2>8 DEF FlushPop
  <2>9. CASE FlushWrite(t)
    BY <1>0, <1>3, <2>9 DEF FlushWrite, WriteLine, HoldingPc, RestingPc
  <2>10. CASE FlushEnd(t)
    BY <1>0, <1>4, <2>10 DEF FlushEnd
  <2>11. CASE ShutdownJoined(t)
    BY <1>0, <1>1, <2>11 DEF ShutdownJoined, HoldingPc, RestingPc
  <2>12. CASE ShutdownReset(t)
    BY <1>0, <1>1, <2>12 DEF ShutdownReset, HoldingPc, RestingPc
  <2>13. CASE ShutdownDone(t)
    BY <1>0, <1>1, <2>13 DEF ShutdownDone, HoldingPc, RestingPc
  <2> QED
    BY <1>7, <2>1, <2>2, <2>3, <2>4, <2>5, <2>6, <2>7, <2>8, <2>9, <2>10, <2>11, <2>12, <2>13
    DEF CallerStep
<1>8. ASSUME NEW t \in Callers, Call(t) PROVE Hands'
  <2> t \in Threads
    BY <1>0
  <2>1. CASE CallInitialize(t)
    BY <1>5, <2>1 DEF CallInitialize, MayCall
  <2>2. CASE FlushBegin(t)
    BY <1>0, <1>1, <2>2 DEF FlushBegin, EnterFlush, MayCall, HoldingPc, RestingPc
  <2>3. CASE ShutdownBegin(t)
    BY <1>0, <1>1, <2>3 DEF ShutdownBegin, MayCall, HoldingPc, RestingPc
  <2>4. ASSUME NEW l \in Levels, SubmitBegin(t, l) PROVE Hands'
    BY <1>0, <1>1, <2>4 DEF SubmitBegin, MayCall, HoldingPc, RestingPc
  <2> QED
    BY <1>8, <2>1, <2>2, <2>3, <2>4 DEF Call
<1> QED
  BY <1>6, <1>7, <1>8 DEF Next

-----------------------------------------------------------------------------

\* While the logger is up, a caller may move anywhere but into a shutdown.
LEMMA StaysUp ==
  ASSUME Up, NEW t \in Callers, pc \in [Threads -> CallerPc \cup WorkerPc \cup {"terminated"}],
         NEW label \in CallerPc \ {"join", "reset", "shutdown_done"},
         Goto(t, label), UNCHANGED config
  PROVE  Up'
<1>1. pc'[t] = label /\ (\A u \in Callers \ {t} : pc'[u] = pc[u]) /\ pc'[Worker] = pc[Worker]
  BY LoggerAssumption DEF Goto, Threads
<1> QED
  BY <1>1 DEF Up, config

\* A caller in the middle of Submit or Flush finds the logger up.
LEMMA CallerMidCall ==
  ASSUME Phases, NEW t \in Callers,
         pc[t] \in {"submit", "publish", "direct", "after_push", "flush_pop", "flush_write"}
  PROVE  Up
BY LoggerAssumption DEF Phases, Ended, Down, Stopping, Closing, Threads

\* With no caller in a call, every queued record is published.
LEMMA NothingLeftToPublish ==
  ASSUME LoggerInv, NEW t \in Callers, Closing(t), pc[t] = "join", pc[Worker] = "flush_pop",
         ~HeadReady
  PROVE  queue = <<>>
<1>0. queue \in Seq(Entries) /\ HeldOnce /\ Hands
  BY DEF LoggerInv, TypeOK, Entries, RecordsInv
<1> SUFFICES ASSUME queue # <<>> PROVE FALSE
  OBVIOUS
<1>1. 1 \in DOMAIN queue /\ Head(queue) = queue[1] /\ ~queue[1].ready /\ queue[1].id # NoRecord
  <2>1. Len(queue) \in Nat /\ DOMAIN queue = 1 .. Len(queue) /\ Len(queue) # 0
    BY <1>0, LenProperties, EmptySeq
  <2>2. 1 \in DOMAIN queue /\ Head(queue) = queue[1]
    BY <1>0, <2>1
  <2> QED
    BY <1>0, <2>2, EntryFacts DEF HeadReady
<1>2. PICK u \in Threads : held[u] = queue[1].id
  BY <1>0, <1>1 DEF HeldOnce
<1>3. pc[u] \in {"idle", "join", "flush_pop"}
  BY DEF Closing, Threads
<1>4. held[u] = NoRecord
  BY <1>0, <1>3 DEF Hands, HandOf, HoldingPc
<1> QED
  BY <1>1, <1>2, <1>4

\* Phases survives every action, under exclusive shutdowns.
LEMMA PhasesKept ==
  ASSUME ExclusiveShutdown, LoggerInv, Next PROVE Phases'
<1>0. /\ pc \in [Threads -> CallerPc \cup WorkerPc \cup {"terminated"}]
      /\ Phases /\ Hands
      /\ Callers \subseteq Threads /\ Worker \in Threads /\ Worker \notin Callers
  BY LoggerAssumption DEF LoggerInv, TypeOK, RecordsInv, Threads
<1>1. ASSUME NEW t \in Callers, NEW label \in CallerPc \ {"join", "reset", "shutdown_done"},
             Goto(t, label), UNCHANGED config,
             pc[t] \in {"submit", "publish", "direct", "after_push", "flush_pop", "flush_write"}
      PROVE  Phases'
  BY <1>0, <1>1, CallerMidCall, StaysUp DEF Phases
<1>2. ASSUME NEW t \in Callers, Return(t), UNCHANGED config,
             pc[t] \in {"after_push", "flush_pop"}
      PROVE  Phases'
  <2>1. CASE pc' = [u \in Threads |-> "terminated"]
    BY <2>1 DEF Phases, Ended
  <2>2. CASE Goto(t, "idle")
    BY <1>1, <1>2, <2>2 DEF CallerPc
  <2> QED
    BY <1>0, <1>2, <2>1, <2>2 DEF Return
<1>3. CASE WorkerStep
  <2>0. /\ UNCHANGED config
        /\ \/ queue' = queue
           \/ queue # <<>>
        /\ \A u \in Callers : pc'[u] = pc[u]
        /\ \/ /\ pc[Worker] \in {"work", "work_write", "wait"}
              /\ pc'[Worker] \in {"work", "work_write", "check"}
           \/ /\ pc[Worker] = "check" /\ ~running /\ pc'[Worker] = "flush_pop"
           \/ /\ pc[Worker] = "check" /\ running /\ pc'[Worker] \in {"work", "wait"}
           \/ /\ pc[Worker] \in {"flush_pop", "flush_write"}
              /\ pc'[Worker] \in {"flush_pop", "flush_write"}
           \/ /\ pc[Worker] = "flush_pop" /\ ~HeadReady /\ pc'[Worker] = "exited"
              /\ UNCHANGED queue
    <3>1. CASE WorkerPop \/ WorkerWrite \/ WorkerEmpty \/ WorkerWake
      BY <1>0, <3>1 DEF WorkerPop, Pop, HeadReady, WorkerWrite, WorkerEmpty, WorkerWake, Goto
    <3>2. CASE WorkerCheck
      BY <1>0, <3>2 DEF WorkerCheck, EnterFlush, Goto
    <3>3. CASE FlushPop(Worker) \/ FlushWrite(Worker)
      BY <1>0, <3>3 DEF FlushPop, Pop, HeadReady, FlushWrite, Goto
    <3>4. CASE FlushEnd(Worker)
      BY <1>0, <3>4 DEF FlushEnd, Return, Goto
    <3> QED
      BY <1>3, <3>1, <3>2, <3>3, <3>4 DEF WorkerStep
  <2>1. CASE Ended \/ Down
    BY <1>0, <2>0, <2>1 DEF Ended, Down
  <2>2. CASE Up
    BY <1>0, <2>0, <2>2 DEF Phases, Up, config
  <2>3. ASSUME initialized, ~running, NEW t \in Callers, Closing(t) PROVE Phases'
    <3>1. pc[t] = "join" /\ has_queue /\ has_sink
      BY <2>0, <2>3 DEF Closing
    <3>2. pc'[Worker] = "exited" => queue' = <<>>
      BY <2>0, <2>3, <3>1, NothingLeftToPublish
    <3>3. pc'[Worker] \in WorkerPc
      BY <2>0 DEF WorkerPc
    <3>4. Closing(t)'
      BY <1>0, <2>0, <2>3, <3>1, <3>2, <3>3 DEF Closing, config
    <3> QED
      BY <2>0, <2>3, <3>4 DEF Phases, Stopping, config
  <2> QED
    BY <1>0, <2>1, <2>2, <2>3 DEF Phases, Stopping
<1>4. ASSUME NEW t \in Callers, NEW sink \in BOOLEAN, NEW label \in {"idle", "submit"},
             Initialize(t, sink, label), pc[t] \in {"idle", "submit_init"},
             label = "submit" => sink,
             pc[t] = "idle" => label = "idle" /\ \A u \in Callers : ~ShuttingDown(u)
      PROVE  Phases'
  <2>1. CASE Ended
    BY <1>0, <1>4, <2>1 DEF Ended
  <2>2. CASE Down
    <3>1. CASE sink
      <4>1. /\ initialized' /\ running' /\ has_queue' /\ has_sink'
            /\ pc' = [[pc EXCEPT ![t] = label] EXCEPT ![Worker] = "work"]
        BY <1>4, <2>2, <3>1 DEF Initialize, Configure, Down
      <4>2. /\ pc'[Worker] = "work" /\ pc'[t] = label
            /\ \A u \in Callers \ {t} : pc'[u] = pc[u]
        BY <1>0, <4>1
      <4>3. \A u \in Callers : pc'[u] \in CallerPc \ {"join", "reset", "shutdown_done"}
        BY <2>2, <4>2 DEF Down, CallerPc
      <4> QED
        BY <4>1, <4>2, <4>3 DEF Phases, Up
    <3>2. CASE ~sink
      <4>1. /\ UNCHANGED <<initialized, running, has_queue, queue>> /\ pc' = [pc EXCEPT ![t] = "idle"]
        BY <1>4, <2>2, <3>2 DEF Initialize, Configure, Down
      <4>2. pc'[Worker] = pc[Worker] /\ pc'[t] = "idle" /\ \A u \in Callers \ {t} : pc'[u] = pc[u]
        BY <1>0, <4>1
      <4> QED
        BY <2>2, <4>1, <4>2 DEF Phases, Down
    <3> QED
      BY <1>4, <3>1, <3>2
  <2>3. CASE initialized
    <3>1. UNCHANGED config /\ Goto(t, label) /\ UNCHANGED queue
      BY <1>4, <2>3 DEF Initialize, Configure, Goto, config
    <3>2. CASE Up
      <4>1. label \in CallerPc \ {"join", "reset", "shutdown_done"}
        BY DEF CallerPc
      <4> QED
        BY <1>0, <3>1, <3>2, <4>1, StaysUp DEF Phases
    <3>3. CASE Stopping
      BY <1>0, <1>4, <3>3 DEF Stopping, Closing, ShuttingDown
    <3> QED
      BY <1>0, <2>1, <2>3, <3>2, <3>3 DEF Phases, Down
  <2> QED
    BY <1>0, <2>1, <2>2, <2>3 DEF Phases, Up, Stopping
<1>5. ASSUME NEW t \in Callers, CallerStep(t) PROVE Phases'
  <2>1. CASE SubmitInitialize(t)
    BY <1>4, <2>1 DEF SubmitInitialize
  <2>2. CASE SubmitFiltered(t) \/ SubmitClaim(t) \/ SubmitPublish(t)
    BY <1>1, <2>2 DEF SubmitFiltered, SubmitClaim, SubmitPublish, CallerPc
  <2>3. CASE SubmitRefused(t)
    BY <1>1, <2>3 DEF SubmitRefused, CallerPc
  <2>4. CASE DirectWrite(t)
    BY <1>1, <2>4 DEF DirectWrite, CallerPc
  <2>5. CASE AfterPush(t)
    BY <1>1, <1>2, <2>5 DEF AfterPush, EnterFlush, CallerPc
  <2>6. CASE FlushPop(t) \/ FlushWrite(t)
    BY <1>1, <2>6 DEF FlushPop, Pop, FlushWrite, CallerPc
  <2>7. CASE FlushEnd(t)
    BY <1>2, <2>7 DEF FlushEnd
  <2>8. ASSUME pc[t] \in {"join", "reset", "shutdown_done"}
        PROVE  initialized /\ ~running /\ Closing(t)
    BY <1>0, <2>8 DEF Phases, Ended, Down, Up, Stopping, Closing
  <2>9. CASE ShutdownJoined(t)
    <3>1. /\ pc[t] = "join" /\ pc[Worker] = "exited" /\ UNCHANGED <<config, queue>>
          /\ pc' = [pc EXCEPT ![t] = "reset"]
      BY <2>9 DEF ShutdownJoined, Goto
    <3>2. Closing(t)'
      BY <1>0, <2>8, <3>1 DEF Closing, config
    <3> QED
      BY <2>8, <3>1, <3>2 DEF Phases, Stopping, config
  <2>10. CASE ShutdownReset(t)
    <3>1. /\ pc[t] = "reset" /\ ~has_queue' /\ queue' = <<>> /\ UNCHANGED <<initialized, running>>
          /\ pc' = [pc EXCEPT ![t] = "shutdown_done"]
      BY <2>10 DEF ShutdownReset, Goto
    <3>2. Closing(t)'
      BY <1>0, <2>8, <3>1 DEF Closing
    <3> QED
      BY <2>8, <3>1, <3>2 DEF Phases, Stopping
  <2>11. CASE ShutdownDone(t)
    <3>1. /\ pc[t] = "shutdown_done" /\ ~initialized' /\ UNCHANGED <<running, has_queue, queue>>
          /\ pc' = [pc EXCEPT ![t] = "idle"]
      BY <2>11 DEF ShutdownDone, Goto
    <3>2. Down'
      BY <1>0, <2>8, <3>1 DEF Closing, Down
    <3> QED
      BY <3>2 DEF Phases
  <2> QED
    BY <1>5, <2>1, <2>2, <2>3, <2>4, <2>5, <2>6, <2>7, <2>9, <2>10, <2>11 DEF CallerStep
<1>6. ASSUME NEW t \in Callers, Call(t) PROVE Phases'
  <2>1. CASE CallInitialize(t)
    BY <1>4, <2>1 DEF CallInitialize, MayCall
  <2>2. CASE FlushBegin(t)
    <3>1. Up
      BY <1>0, <2>2 DEF FlushBegin, MayCall, Phases, Ended, Down, Stopping, Closing, ShuttingDown
    <3> QED
      BY <1>0, <2>2, <3>1, StaysUp DEF FlushBegin, EnterFlush, CallerPc, Phases
  <2>3. CASE ShutdownBegin(t)
    <3>1. /\ pc[t] = "idle" /\ initialized /\ \A u \in Callers : pc[u] = "idle"
          /\ ~running' /\ UNCHANGED <<initialized, has_sink, has_queue, queue>>
          /\ pc' = [pc EXCEPT ![t] = "join"]
      BY <2>3 DEF ShutdownBegin, MayCall, Goto
    <3>2. Up
      BY <1>0, <3>1 DEF Phases, Ended, Down, Stopping, Closing
    <3>3. Closing(t)'
      BY <1>0, <3>1, <3>2 DEF Closing, Up, WorkerPc
    <3> QED
      BY <3>1, <3>3 DEF Phases, Stopping
  <2>4. ASSUME NEW l \in Levels, SubmitBegin(t, l) PROVE Phases'
    <3>1. /\ pc[t] = "idle" /\ \A u \in Callers : ~ShuttingDown(u)
          /\ UNCHANGED <<config, queue>>
          /\ Goto(t, IF initialized THEN "submit" ELSE "submit_init")
      BY <2>4 DEF SubmitBegin, MayCall
    <3>2. ~Ended /\ ~Stopping
      BY <1>0, <3>1 DEF Ended, Stopping, Closing, ShuttingDown
    <3>3. CASE Up
      BY <1>0, <3>1, <3>3, StaysUp DEF Up, CallerPc, Phases
    <3>4. CASE Down
      <4>1. /\ pc'[t] = "submit_init" /\ pc'[Worker] = pc[Worker]
            /\ \A u \in Callers \ {t} : pc'[u] = pc[u]
        BY <1>0, <3>1, <3>4 DEF Down, Goto
      <4> QED
        BY <3>1, <3>4, <4>1 DEF Phases, Down, config
    <3> QED
      BY <1>0, <3>2, <3>3, <3>4 DEF Phases
  <2> QED
    BY <1>6, <2>1, <2>2, <2>3, <2>4 DEF Call
<1> QED
  BY <1>3, <1>5, <1>6 DEF Next

\* LoggerInv is inductive.
LEMMA LoggerInvKept ==
  ASSUME ExclusiveShutdown, LoggerInv, [Next]_vars PROVE LoggerInv'
<1>1. CASE Next
  BY <1>1, TypesKept, PhasesKept, HandsKept, RecordSteps, RecordsKept, PendingSteps,
     ReadyPrefixKept DEF LoggerInv
<1>2. CASE UNCHANGED vars
  <2> USE <1>2 DEF vars, config
  <2>1. TypeOK'
    BY DEF LoggerInv, TypeOK
  <2>2. Phases'
    BY DEF LoggerInv, Phases, Ended, Down, Up, Stopping, Closing
  <2>3. Hands'
    BY DEF LoggerInv, Hands, HandOf, Queued
  <2>4. RecordsInv'
    BY RecordsKept DEF RecordStep, Quiet
  <2>5. ReadyPrefix'
    BY DEF LoggerInv, ReadyPrefix
  <2> QED
    BY <2>1, <2>2, <2>3, <2>4, <2>5 DEF LoggerInv
<1> QED
  BY <1>1, <1>2

-----------------------------------------------------------------------------

(* The theorems.                                                           *)

\* A one-to-one map onto a finite set counts its domain.
LEMMA OneToOne ==
  ASSUME NEW S, NEW T, IsFiniteSet(T), NEW f, f \in [S -> T],
         \A x, y \in S : f[x] = f[y] => x = y,
         \A z \in T : \E x \in S : f[x] = z
  PROVE  IsFiniteSet(S) /\ Cardinality(S) = Cardinality(T)
<1>1. f \in Injection(S, T) /\ f \in Surjection(S, T)
  BY DEF Injection, IsInjective, Surjection
<1> QED
  BY <1>1, FS_Injection

\* The places of a record are disjoint and hold it once, so their sizes add up.
LEMMA KeptCounted ==
  ASSUME LoggerInv
  PROVE  Len(queue) + Cardinality(Holders) + Cardinality(written) = Cardinality(Kept)
<1>0. /\ queue \in Seq(Entries) /\ records \in Seq(Fates) /\ held \in [Threads -> Ids \cup {NoRecord}]
      /\ QueueInOrder /\ HeldOnce /\ WrittenOnce /\ Accounted
  BY DEF LoggerInv, TypeOK, Entries, Fates, RecordsInv
<1>1. IsFiniteSet(Kept)
  <2>1. Len(records) \in Nat /\ DOMAIN records = 1 .. Len(records)
    BY <1>0, LenProperties
  <2>2. IsFiniteSet(1 .. Len(records))
    BY <2>1, FS_Interval
  <2> QED
    BY <2>1, <2>2, FS_Subset DEF Kept
<1>2. /\ IsFiniteSet(Queued) /\ IsFiniteSet(Held) /\ IsFiniteSet(Written)
  BY <1>0, <1>1, FS_Subset DEF Accounted
<1>3. Cardinality(Queued) = Len(queue)
  <2>1. Len(queue) \in Nat /\ DOMAIN queue = 1 .. Len(queue)
    BY <1>0, LenProperties
  <2>2. \A i, j \in 1 .. Len(queue) : queue[i].id = queue[j].id => i = j
    <3> SUFFICES ASSUME NEW i \in 1 .. Len(queue), NEW j \in 1 .. Len(queue), i # j
                 PROVE  queue[i].id # queue[j].id
      OBVIOUS
    <3>1. i \in Nat /\ j \in Nat /\ queue[i].id \in Nat /\ queue[j].id \in Nat
      BY <1>0, <2>1, EntryFacts, LoggerAssumption DEF Ids
    <3> QED
      BY <1>0, <2>1, <3>1 DEF QueueInOrder
  <2>3. DEFINE f == [i \in 1 .. Len(queue) |-> queue[i].id]
  <2>4. /\ f \in [1 .. Len(queue) -> Queued]
        /\ \A i, j \in 1 .. Len(queue) : f[i] = f[j] => i = j
        /\ \A z \in Queued : \E i \in 1 .. Len(queue) : f[i] = z
    BY <2>1, <2>2 DEF Queued
  <2> HIDE DEF f
  <2>5. Cardinality(1 .. Len(queue)) = Cardinality(Queued)
    BY <1>2, <2>4, OneToOne
  <2>6. Cardinality(1 .. Len(queue)) = Len(queue)
    <3>1. Cardinality(1 .. Len(queue)) = IF 1 > Len(queue) THEN 0 ELSE Len(queue) - 1 + 1
      BY <2>1, FS_Interval
    <3> QED
      BY <2>1, <3>1
  <2> QED
    BY <2>5, <2>6
<1>4. Cardinality(Held) = Cardinality(Holders)
  <2> DEFINE f == [t \in Holders |-> held[t]]
  <2>1. /\ f \in [Holders -> Held]
        /\ \A t, u \in Holders : f[t] = f[u] => t = u
        /\ \A z \in Held : \E t \in Holders : f[t] = z
    BY <1>0 DEF Held, Holders, HeldOnce
  <2> HIDE DEF f
  <2> QED
    BY <1>2, <2>1, OneToOne
<1>5. Cardinality(Written) = Cardinality(written)
  <2> DEFINE f == [line \in written |-> line.id]
  <2>1. /\ f \in [written -> Written]
        /\ \A x, y \in written : f[x] = f[y] => x = y
        /\ \A z \in Written : \E x \in written : f[x] = z
    BY <1>0 DEF Written, WrittenOnce
  <2> HIDE DEF f
  <2> QED
    BY <1>2, <2>1, OneToOne
<1>6. Queued \cap Held = {} /\ (Queued \cup Held) \cap Written = {}
  BY <1>0 DEF Held, Holders, Written, WrittenOnce
<1>7. Cardinality(Kept) = Cardinality(Queued) + Cardinality(Held) + Cardinality(Written)
  <2>1. /\ IsFiniteSet(Queued \cup Held)
        /\ Cardinality(Queued \cup Held) = Cardinality(Queued) + Cardinality(Held) - Cardinality(Queued \cap Held)
    BY <1>2, FS_Union
  <2>2. Cardinality(Kept) = Cardinality(Queued \cup Held) + Cardinality(Written)
                             - Cardinality((Queued \cup Held) \cap Written)
    BY <1>0, <1>2, <2>1, FS_Union DEF Accounted
  <2>3. /\ Cardinality(Queued) \in Nat /\ Cardinality(Held) \in Nat /\ Cardinality(Written) \in Nat
        /\ Cardinality({}) = 0
    BY <1>2, FS_CardinalityType, FS_EmptySet
  <2>4. /\ Cardinality(Queued \cup Held) = Cardinality(Queued) + Cardinality(Held) - 0
        /\ Cardinality(Kept) = Cardinality(Queued \cup Held) + Cardinality(Written) - 0
    BY <1>6, <2>1, <2>2, <2>3
  <2> QED
    BY <2>3, <2>4
<1> QED
  BY <1>3, <1>4, <1>5, <1>7

\* Every variable stays in its range, and the queue within its capacity.
THEOREM LoggerTypeCorrect == ASSUME ExclusiveShutdown PROVE Spec => []TypeOK
<1>1. LoggerInv => TypeOK
  BY DEF LoggerInv
<1> QED
  BY <1>1, LoggerInitially, LoggerInvKept, PTL DEF Spec

\* No record that Push accepted, or that a severe Submit writes itself, is lost
\* or written twice, across shutdowns and restarts: at every moment it is in the
\* queue, in one thread's hands or on one line of the output.
THEOREM EveryRecordAccounted == ASSUME ExclusiveShutdown PROVE Spec => []NoRecordLost
<1>1. LoggerInv => NoRecordLost
  BY KeptCounted DEF LoggerInv, RecordsInv, Accounted, NoRecordLost
<1> QED
  BY <1>1, LoggerInitially, LoggerInvKept, PTL DEF Spec

\* A thread writes the records it pops in the order the queue accepted them.
THEOREM EachThreadWritesInOrder == ASSUME ExclusiveShutdown PROVE Spec => []WrittenInOrder
<1>1. LoggerInv => WrittenInOrder
  BY DEF LoggerInv, RecordsInv
<1> QED
  BY <1>1, LoggerInitially, LoggerInvKept, PTL DEF Spec

\* A thread leaves the popping loop of Flush only when nothing can be popped.
LEMMA FlushEnds ==
  ASSUME LoggerInv, Next, NEW t \in Threads, pc[t] = "flush_pop",
         pc'[t] \in {"idle", "exited", "terminated"}
  PROVE  ~HeadReady
<1>0. /\ pc \in [Threads -> CallerPc \cup WorkerPc \cup {"terminated"}] /\ Phases
      /\ Callers \subseteq Threads /\ Worker \in Threads /\ Worker \notin Callers
  BY LoggerAssumption DEF LoggerInv, TypeOK, Threads
<1>1. CASE WorkerStep
  <2>1. CASE FlushEnd(Worker)
    BY <2>1 DEF FlushEnd
  <2>2. CASE WorkerPop \/ WorkerWrite \/ WorkerEmpty \/ WorkerWake
    BY <1>0, <2>2 DEF WorkerPop, Pop, WorkerWrite, WorkerEmpty, WorkerWake, Goto
  <2>3. CASE WorkerCheck
    BY <1>0, <2>3 DEF WorkerCheck, EnterFlush, Goto
  <2>4. CASE FlushPop(Worker) \/ FlushWrite(Worker)
    BY <1>0, <2>4 DEF FlushPop, Pop, FlushWrite, Goto
  <2> QED
    BY <1>1, <2>1, <2>2, <2>3, <2>4 DEF WorkerStep
<1>2. ASSUME NEW u \in Callers, CallerStep(u) PROVE ~HeadReady
  <2>1. CASE FlushEnd(u)
    BY <2>1 DEF FlushEnd
  <2>2. CASE SubmitInitialize(u)
    <3>1. pc'[t] \in {pc[t], "submit", "work"}
      BY <1>0, <2>2 DEF SubmitInitialize, Initialize
    <3> QED
      BY <3>1
  <2>3. CASE SubmitFiltered(u) \/ SubmitClaim(u) \/ SubmitPublish(u)
    BY <1>0, <2>3 DEF SubmitFiltered, SubmitClaim, SubmitPublish, Goto
  <2>4. CASE SubmitRefused(u) \/ DirectWrite(u)
    BY <1>0, <2>4 DEF SubmitRefused, DirectWrite, Goto
  <2>5. CASE AfterPush(u)
    <3>1. Up
      BY <1>0, <2>5, CallerMidCall DEF AfterPush
    <3>2. pc' = [pc EXCEPT ![u] = "flush_pop"] \/ pc' = [pc EXCEPT ![u] = "idle"]
      BY <1>0, <2>5, <3>1 DEF AfterPush, EnterFlush, Return, Goto, Up
    <3> QED
      BY <1>0, <2>5, <3>2 DEF AfterPush
  <2>6. CASE FlushPop(u) \/ FlushWrite(u)
    BY <1>0, <2>6 DEF FlushPop, Pop, FlushWrite, Goto
  <2>7. CASE ShutdownJoined(u) \/ ShutdownReset(u) \/ ShutdownDone(u)
    BY <1>0, <2>7 DEF ShutdownJoined, ShutdownReset, ShutdownDone, Goto
  <2> QED
    BY <1>2, <2>1, <2>2, <2>3, <2>4, <2>5, <2>6, <2>7 DEF CallerStep
<1>3. ASSUME NEW u \in Callers, Call(u) PROVE ~HeadReady
  <2>1. CASE CallInitialize(u)
    <3>1. pc[u] = "idle" /\ (pc'[t] \in {pc[t], "work"} \/ t = u)
      BY <1>0, <2>1 DEF CallInitialize, MayCall, Initialize
    <3> QED
      BY <2>1, <3>1 DEF CallInitialize, MayCall
  <2>2. CASE FlushBegin(u) \/ ShutdownBegin(u)
    BY <1>0, <2>2 DEF FlushBegin, EnterFlush, ShutdownBegin, MayCall, Goto
  <2>3. ASSUME NEW l \in Levels, SubmitBegin(u, l) PROVE ~HeadReady
    BY <1>0, <2>3 DEF SubmitBegin, MayCall, Goto
  <2> QED
    BY <1>3, <2>1, <2>2, <2>3 DEF Call
<1> QED
  BY <1>1, <1>2, <1>3 DEF Next

\* When Flush returns, or the worker ends with its last flush, or a fatal record
\* ends the process, no record a flush could reach at its start is queued.
THEOREM FlushLeavesNothingReachable ==
  ASSUME ExclusiveShutdown PROVE Spec => FlushEmptiesQueue
<1> DEFINE Step ==
      \A t \in Threads :
        pc[t] = "flush_pop" /\ pc'[t] \in {"idle", "exited", "terminated"} =>
          pending[t] \cap Queued = {}
<1>1. LoggerInv /\ [Next]_vars => [Step]_vars
  <2> SUFFICES ASSUME LoggerInv, Next, NEW t \in Threads, pc[t] = "flush_pop",
                      pc'[t] \in {"idle", "exited", "terminated"},
                      NEW i \in DOMAIN queue, queue[i].id \in pending[t]
               PROVE  FALSE
    BY DEF Queued
  <2>0. queue \in Seq(Entries) /\ ReadyPrefix
    BY DEF LoggerInv, TypeOK, Entries
  <2>1. ~HeadReady
    BY FlushEnds
  <2>2. 1 \in 1 .. i /\ queue # <<>> /\ Head(queue) = queue[1]
    <3>1. Len(queue) \in Nat /\ DOMAIN queue = 1 .. Len(queue) /\ i \in 1 .. Len(queue)
      BY <2>0, LenProperties
    <3> QED
      BY <2>0, <3>1
  <2>3. queue[1].ready
    BY <2>0, <2>2 DEF ReadyPrefix
  <2> QED
    BY <2>1, <2>2, <2>3 DEF HeadReady
<1> QED
  BY <1>1, LoggerInitially, LoggerInvKept, PTL DEF Spec, FlushEmptiesQueue
=============================================================================

------------------------------- MODULE Logger -------------------------------
(***************************************************************************)
(* Logger (engine/core/logging/logger.cc): the life of the logger and of   *)
(* every record, from Submit through the queue to the sinks, with the      *)
(* worker thread, callers that flush, initialise on first use, shut down   *)
(* and start again, and a fatal record that ends the process.              *)
(*                                                                         *)
(* The queue is at the level of detail LogQueue implements: a claim is one *)
(* step and the publication of the record another; a pop is one step and   *)
(* finds nothing while the oldest claim is unpublished.  A push may be     *)
(* refused as soon as Capacity records came before it, since the sequence  *)
(* number it loads may be an old one (after a restart this allows more     *)
(* than the code).  A critical section of mutex_ is one step.              *)
(*                                                                         *)
(* Records are numbered in the order the queue accepts or refuses them.    *)
(* Severity and channel filters only decide whether Submit goes on, so     *)
(* they may give either answer here.                                       *)
(***************************************************************************)
EXTENDS Integers, Sequences, FiniteSets

CONSTANTS
  Callers,            \* threads that use the logger
  Worker,             \* the logger's own thread
  Capacity,           \* cells of the queue
  MaxRecords,         \* bound: records handed to the queue
  ExclusiveShutdown   \* no other call overlaps Shutdown

ASSUME LoggerAssumption ==
  /\ Worker \notin Callers
  /\ Capacity \in Nat /\ Capacity >= 2
  /\ MaxRecords \in Nat
  /\ ExclusiveShutdown \in BOOLEAN

VARIABLES
  initialized,  \* initialized_
  running,      \* running_
  has_sink,     \* a file is open or the console is enabled
  has_queue,    \* queue_ # nullptr
  queue,        \* the queued records, oldest first, with their publication
  records,      \* history: what the queue's answer made of each record
  written,      \* history: the records written, and by which thread
  pc,           \* where each thread is
  level,        \* the severity each caller is submitting
  held,         \* the record each thread has claimed, popped or writes itself
  consumed_any, \* WorkerLoop's local
  pending       \* history: what each flushing thread found ready at the start

config == <<initialized, running, has_sink, has_queue>>
vars == <<config, queue, records, written, pc, level, held, consumed_any,
          pending>>

Threads == Callers \cup {Worker}
Levels == {"info", "error", "fatal"}
Ids == 1 .. MaxRecords
NoRecord == 0

CallerPc == {"idle", "submit_init", "submit", "publish", "direct", "after_push",
             "flush_pop", "flush_write", "join", "reset", "shutdown_done"}
WorkerPc == {"exited", "work", "work_write", "check", "wait", "flush_pop",
             "flush_write"}

Init ==
  /\ initialized = FALSE /\ running = FALSE
  /\ has_sink = TRUE /\ has_queue = FALSE
  /\ queue = <<>> /\ records = <<>> /\ written = {}
  /\ pc = [t \in Threads |-> IF t = Worker THEN "exited" ELSE "idle"]
  /\ level = [t \in Callers |-> "info"]
  /\ held = [t \in Threads |-> NoRecord]
  /\ consumed_any = FALSE
  /\ pending = [t \in Threads |-> {}]

Goto(t, label) == pc' = [pc EXCEPT ![t] = label]
ShuttingDown(t) == pc[t] \in {"join", "reset", "shutdown_done"}
MayCall(t) ==
  /\ pc[t] = "idle"
  /\ ExclusiveShutdown => \A u \in Callers : ~ShuttingDown(u)

-----------------------------------------------------------------------------
(* Initialize, one critical section, whose outcome is whether the config   *)
(* leaves a sink: without one it fails, yet the sinks are already changed. *)
(* It changes nothing when the logger is initialised.                      *)

\* Going on without a sink: the check for one left out.
ConfigureAnySink(sink) ==
  IF initialized THEN UNCHANGED config
  ELSE /\ has_sink' = sink
       /\ initialized' = TRUE /\ running' = TRUE /\ has_queue' = TRUE

Configure(sink) ==
  IF initialized THEN UNCHANGED config
  ELSE /\ has_sink' = sink
       /\ IF sink THEN initialized' = TRUE /\ running' = TRUE /\ has_queue' = TRUE
          ELSE UNCHANGED <<initialized, running, has_queue>>

\* The worker starts with the queue.
Initialize(t, sink, next) ==
  /\ Configure(sink)
  /\ LET moved == [pc EXCEPT ![t] = next]
     IN  pc' = IF ~initialized /\ initialized' THEN [moved EXCEPT ![Worker] = "work"]
               ELSE moved
  /\ UNCHANGED <<queue, records, written, level, held, consumed_any, pending>>

CallInitialize(t) ==
  /\ MayCall(t)
  /\ \E sink \in BOOLEAN : Initialize(t, sink, "idle")

-----------------------------------------------------------------------------
(* Submit.                                                                 *)

SubmitBegin(t, l) ==
  /\ MayCall(t)
  /\ level' = [level EXCEPT ![t] = l]
  /\ Goto(t, IF initialized THEN "submit" ELSE "submit_init")
  /\ UNCHANGED <<config, queue, records, written, held, consumed_any, pending>>

\* The default configuration has the console, so it succeeds.
SubmitInitialize(t) ==
  /\ pc[t] = "submit_init"
  /\ Initialize(t, TRUE, "submit")

\* IsEnabled says no: even a fatal record returns here.
SubmitFiltered(t) ==
  /\ pc[t] = "submit"
  /\ Goto(t, "idle")
  /\ level' = [level EXCEPT ![t] = "info"]
  /\ UNCHANGED <<config, queue, records, written, held, consumed_any,
                 pending>>

Stamp(fate) ==
  /\ Len(records) < MaxRecords
  /\ records' = Append(records, fate)

SubmitClaim(t) ==
  /\ pc[t] = "submit" /\ has_queue
  /\ Len(queue) < Capacity
  /\ Stamp("accepted")
  /\ queue' = Append(queue, [id |-> Len(records'), ready |-> FALSE])
  /\ held' = [held EXCEPT ![t] = Len(records')]
  /\ Goto(t, "publish")
  /\ UNCHANGED <<config, written, level, consumed_any, pending>>

SubmitPublish(t) ==
  /\ pc[t] = "publish"
  /\ queue' = [i \in DOMAIN queue |->
                 IF queue[i].id = held[t] THEN [queue[i] EXCEPT !.ready = TRUE]
                 ELSE queue[i]]
  /\ held' = [held EXCEPT ![t] = NoRecord]
  /\ Goto(t, "after_push")
  /\ UNCHANGED <<config, records, written, level, consumed_any, pending>>

\* A refused record dropped whatever its severity.
RefusedAndForgotten(t) ==
  /\ pc[t] = "submit" /\ has_queue
  /\ Len(records) >= Capacity
  /\ Stamp(IF level[t] = "info" THEN "dropped" ELSE "refused")
  /\ Goto(t, "after_push")
  /\ UNCHANGED <<config, queue, written, level, held, consumed_any, pending>>

\* The record is not queued.  When Push returns false it is counted in
\* dropped_records_, and a severe one is written by the caller itself; without
\* a queue, which takes an overlapping Shutdown, it goes nowhere.
SubmitRefused(t) ==
  /\ pc[t] = "submit"
  /\ has_queue => Len(records) >= Capacity
  /\ CASE ~has_queue         -> Goto(t, "after_push") /\ UNCHANGED <<records, held>>
       [] has_queue /\ level[t] = "info"
                           -> Stamp("dropped") /\ Goto(t, "after_push") /\ UNCHANGED held
       [] OTHER              -> /\ Stamp("refused") /\ Goto(t, "direct")
                                /\ held' = [held EXCEPT ![t] = Len(records')]
  /\ UNCHANGED <<config, queue, written, level, consumed_any, pending>>

\* WriteLine, one critical section; without a sink the line goes nowhere.
WriteLine(t) ==
  /\ written' = IF has_sink
                THEN written \cup {[id |-> held[t], by |-> t]}
                ELSE written
  /\ held' = [held EXCEPT ![t] = NoRecord]

DirectWrite(t) ==
  /\ pc[t] = "direct"
  /\ WriteLine(t)
  /\ Goto(t, "after_push")
  /\ UNCHANGED <<config, queue, records, level, consumed_any, pending>>

-----------------------------------------------------------------------------
(* Flush, called by anyone, by Submit of a fatal record and by the worker  *)
(* on its way out.                                                         *)

HeadReady == queue # <<>> /\ Head(queue).ready

\* The records a reader can reach: up to the first unpublished claim.
Reachable ==
  {queue[i].id : i \in {j \in DOMAIN queue : \A k \in 1 .. j : queue[k].ready}}

EnterFlush(t) ==
  /\ Goto(t, "flush_pop")
  /\ pending' = [pending EXCEPT ![t] = Reachable]

\* The end of a call, or of the worker: a fatal record ends the process.
Return(t) ==
  /\ IF t \in Callers /\ level[t] = "fatal"
     THEN pc' = [u \in Threads |-> "terminated"] /\ UNCHANGED level
     ELSE /\ Goto(t, IF t = Worker THEN "exited" ELSE "idle")
          /\ level' = [u \in Callers |-> IF u = t THEN "info" ELSE level[u]]
  /\ pending' = [pending EXCEPT ![t] = {}]

FlushBegin(t) ==
  /\ MayCall(t)
  /\ initialized /\ has_queue
  /\ EnterFlush(t)
  /\ UNCHANGED <<config, queue, records, written, level, held, consumed_any>>

AfterPush(t) ==
  /\ pc[t] = "after_push"
  /\ IF level[t] = "fatal" /\ initialized /\ has_queue
     THEN EnterFlush(t) /\ UNCHANGED level
     ELSE Return(t)
  /\ UNCHANGED <<config, queue, records, written, held, consumed_any>>

\* A pop that passes over an unpublished claim to the first published record.
PopAnyReady(t, next) ==
  /\ \E i \in DOMAIN queue :
       /\ queue[i].ready /\ \A j \in 1 .. i - 1 : ~queue[j].ready
       /\ held' = [held EXCEPT ![t] = queue[i].id]
       /\ queue' = SubSeq(queue, 1, i - 1) \o SubSeq(queue, i + 1, Len(queue))
  /\ Goto(t, next)

Pop(t, next) ==
  /\ HeadReady
  /\ held' = [held EXCEPT ![t] = Head(queue).id]
  /\ queue' = Tail(queue)
  /\ Goto(t, next)

FlushPop(t) ==
  /\ pc[t] = "flush_pop"
  /\ Pop(t, "flush_write")
  /\ UNCHANGED <<config, records, written, level, consumed_any, pending>>

FlushWrite(t) ==
  /\ pc[t] = "flush_write"
  /\ WriteLine(t)
  /\ Goto(t, "flush_pop")
  /\ UNCHANGED <<config, queue, records, level, consumed_any, pending>>

\* A flush that may stop at any record.
FlushEndsAnywhere(t) ==
  /\ pc[t] = "flush_pop"
  /\ Return(t)
  /\ UNCHANGED <<config, queue, records, written, held, consumed_any>>

FlushEnd(t) ==
  /\ pc[t] = "flush_pop"
  /\ ~HeadReady
  /\ Return(t)
  /\ UNCHANGED <<config, queue, records, written, held, consumed_any>>

-----------------------------------------------------------------------------
(* WorkerLoop.  The wait is for 2 ms at most, so it always ends by itself. *)

WorkerPop ==
  /\ pc[Worker] = "work"
  /\ Pop(Worker, "work_write")
  /\ consumed_any' = TRUE
  /\ UNCHANGED <<config, records, written, level, pending>>

WorkerWrite ==
  /\ pc[Worker] = "work_write"
  /\ WriteLine(Worker)
  /\ Goto(Worker, "work")
  /\ UNCHANGED <<config, queue, records, level, consumed_any, pending>>

WorkerEmpty ==
  /\ pc[Worker] = "work"
  /\ ~HeadReady
  /\ Goto(Worker, "check")
  /\ UNCHANGED <<config, queue, records, written, level, held, consumed_any,
                 pending>>

\* The worker that stops without its last flush.
WorkerStopsAtOnce ==
  /\ pc[Worker] = "check"
  /\ Goto(Worker, IF ~running THEN "exited" ELSE IF consumed_any THEN "work" ELSE "wait")
  /\ consumed_any' = FALSE
  /\ UNCHANGED <<config, queue, records, written, level, held, pending>>

\* Stop and flush, look again, or wait.
WorkerCheck ==
  /\ pc[Worker] = "check"
  /\ IF ~running THEN EnterFlush(Worker)
     ELSE /\ Goto(Worker, IF consumed_any THEN "work" ELSE "wait")
          /\ UNCHANGED pending
  /\ consumed_any' = FALSE
  /\ UNCHANGED <<config, queue, records, written, level, held>>

WorkerWake ==
  /\ pc[Worker] = "wait"
  /\ Goto(Worker, "work")
  /\ UNCHANGED <<config, queue, records, written, level, held, consumed_any,
                 pending>>

-----------------------------------------------------------------------------
(* Shutdown.                                                               *)

ShutdownBegin(t) ==
  /\ MayCall(t)
  /\ initialized
  /\ ExclusiveShutdown => \A u \in Callers : pc[u] = "idle"
  /\ running' = FALSE
  /\ Goto(t, "join")
  /\ UNCHANGED <<initialized, has_sink, has_queue, queue, records, written,
                 level, held, consumed_any, pending>>

ShutdownJoined(t) ==
  /\ pc[t] = "join"
  /\ pc[Worker] = "exited"
  /\ Goto(t, "reset")
  /\ UNCHANGED <<config, queue, records, written, level, held, consumed_any,
                 pending>>

\* The file is closed and the queue destroyed, with whatever it holds; the
\* console stays as it was.
ShutdownReset(t) ==
  /\ pc[t] = "reset"
  /\ has_sink' \in {FALSE, has_sink}
  /\ has_queue' = FALSE
  /\ queue' = <<>>
  /\ Goto(t, "shutdown_done")
  /\ UNCHANGED <<initialized, running, records, written, level, held,
                 consumed_any, pending>>

ShutdownDone(t) ==
  /\ pc[t] = "shutdown_done"
  /\ initialized' = FALSE
  /\ Goto(t, "idle")
  /\ UNCHANGED <<running, has_sink, has_queue, queue, records, written, level,
                 held, consumed_any, pending>>

-----------------------------------------------------------------------------
WorkerStep ==
  \/ WorkerPop \/ WorkerWrite \/ WorkerEmpty \/ WorkerCheck \/ WorkerWake
  \/ FlushPop(Worker) \/ FlushWrite(Worker) \/ FlushEnd(Worker)

\* A caller inside a call.
CallerStep(t) ==
  \/ SubmitInitialize(t) \/ SubmitFiltered(t)
  \/ SubmitClaim(t) \/ SubmitPublish(t) \/ SubmitRefused(t) \/ DirectWrite(t)
  \/ AfterPush(t)
  \/ FlushPop(t) \/ FlushWrite(t) \/ FlushEnd(t)
  \/ ShutdownJoined(t) \/ ShutdownReset(t) \/ ShutdownDone(t)

Call(t) ==
  \/ CallInitialize(t) \/ FlushBegin(t) \/ ShutdownBegin(t)
  \/ \E l \in Levels : SubmitBegin(t, l)

Next ==
  \/ WorkerStep
  \/ \E t \in Callers : CallerStep(t) \/ Call(t)

\* Threads keep running until the process ends.
Fairness ==
  /\ WF_vars(WorkerStep)
  /\ \A t \in Callers : WF_vars(CallerStep(t))

Spec == Init /\ [][Next]_vars /\ Fairness

-----------------------------------------------------------------------------
(* Properties.                                                             *)

\* Every variable stays in its range; the queue never holds more than Capacity.
TypeOK ==
  /\ {initialized, running, has_sink, has_queue, consumed_any}
       \subseteq BOOLEAN
  /\ queue \in Seq([id : Ids, ready : BOOLEAN]) /\ Len(queue) <= Capacity
  /\ records \in Seq({"accepted", "refused", "dropped"}) /\ Len(records) <= MaxRecords
  /\ written \subseteq [id : Ids, by : Threads]
  /\ pc \in [Threads -> CallerPc \cup WorkerPc \cup {"terminated"}]
  /\ level \in [Callers -> Levels]
  /\ held \in [Threads -> Ids \cup {NoRecord}]
  /\ pending \in [Threads -> SUBSET Ids]

Queued == {queue[i].id : i \in DOMAIN queue}
Holders == {t \in Threads : held[t] \notin Queued \cup {NoRecord}}
Held == {held[t] : t \in Holders}
Written == {line.id : line \in written}

\* Refused records below error severity are the ones the logger gives up.
Kept == {id \in DOMAIN records : records[id] # "dropped"}

\* No record is lost or written twice, across shutdowns and restarts too: each
\* is queued, in one thread's hands or written, and in one of them only.
NoRecordLost ==
  /\ Queued \cup Held \cup Written = Kept
  /\ Len(queue) + Cardinality(Holders) + Cardinality(written) = Cardinality(Kept)

\* A thread writes the records it pops in the order the queue accepted them,
\* so with the worker alone the output is in that order.
WrittenInOrder ==
  \A t \in Holders, line \in written :
    /\ line.by = t
    /\ records[held[t]] = "accepted" /\ records[line.id] = "accepted"
    => line.id < held[t]

\* When Flush returns, no record it could have reached when it began is still
\* queued: each is written, or held by the thread that popped it.
FlushEmptiesQueue ==
  [][\A t \in Threads :
       pc[t] = "flush_pop" /\ pc'[t] \in {"idle", "exited", "terminated"} =>
         pending[t] \cap Queued = {}]_vars

\* Every record the logger does not give up is written, unless the process ends:
\* a severe one even when the queue refuses it.
KeptIsWritten == \A id \in Ids : id \in Kept ~> id \in Written \/ pc[Worker] = "terminated"

\* What Flush is documented to do: block until all queued records are written.
FlushMeansWritten ==
  [][\A t \in Callers :
       pc[t] = "flush_pop" /\ pc'[t] = "idle" =>
         pending[t] \subseteq Written]_vars

\* What "public methods are thread-safe" asks of Shutdown: it does not destroy
\* the queue while another thread is between its check of queue_ and the end of
\* its Push or Pop.
NoUseAfterReset ==
  [][\A t \in Callers :
       pc[t] = "reset" /\ pc'[t] = "shutdown_done" =>
         \A u \in Callers : pc[u] \notin {"publish", "flush_pop", "flush_write"}]_vars
=============================================================================

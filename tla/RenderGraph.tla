---------------------------- MODULE RenderGraph ----------------------------
(***************************************************************************)
(* RenderGraph (engine/rhi/src/RenderGraph.cpp): passes declare what they  *)
(* read and write; Compile culls the passes nothing needs and orders the   *)
(* rest; Execute records them into one command list per queue.             *)
(*                                                                         *)
(* Textures and buffers differ only in that a texture also has a layout:   *)
(* both are resources here, and layout, stage and access are one usage,    *)
(* "read" or "write".  Submissions are chained by semaphores, so that the  *)
(* GPU runs the passes in the order they are submitted.                    *)
(***************************************************************************)
EXTENDS Naturals, Sequences, FiniteSets, SequencesExt

CONSTANTS
  Queues,         \* ERHIQueueType
  MaxResources, MaxPasses,   \* bounds on the graph,
  MaxUses         \* and on the uses its passes declare together

VARIABLES
  resources,      \* textures_ and buffers_: "imported", "transient" or "output"
  passes,         \* passes_: <<[queue, reads, writes]>>
  order,          \* execution_order_
  compiled,       \* compiled_
  stale,          \* history: the graph has changed since it was compiled
  executed,       \* history: it has been executed
  pc,             \* "build", or "execute" inside Execute
  next,           \* the position in the order that is recorded next
  batch,          \* the open batch: {} or the set of its queue
  submitted,      \* submitted_queue_batches
  recordings,     \* history: how often each queue's list was begun in this execution
  created,        \* the transient resources with a resolved handle
  usage,          \* texture_layouts, ..._stages and ..._access: the last usage recorded
  unsynced        \* history: the usages since the last barrier or submission

graphVars == <<resources, passes, order, compiled, stale>>
recordVars == <<pc, next, batch, submitted, recordings, created, usage, unsynced, executed>>

ASSUME GraphAssumption ==
  Queues # {} /\ {MaxResources, MaxPasses, MaxUses} \subseteq Nat

ResourceIds == 1 .. Len(resources)
PassIds == 1 .. Len(passes)
Uses(p) == passes[p].reads \cup passes[p].writes
Visible == {r \in ResourceIds : resources[r] # "transient"}
UsesOf(pass) == Cardinality(pass.reads) + Cardinality(pass.writes)
SumOfUses == FoldSeq(LAMBDA pass, sum : sum + UsesOf(pass), 0, passes)
Transients == {r \in ResourceIds : resources[r] # "imported"}

GraphInit ==
  /\ resources = <<>> /\ passes = <<>> /\ order = <<>>
  /\ compiled = FALSE /\ stale = FALSE /\ executed = FALSE
  /\ pc = "build" /\ next = 1 /\ batch = {} /\ submitted = {}
  /\ recordings = [q \in Queues |-> 0]
  /\ created = {} /\ usage = <<>> /\ unsynced = <<>>

-----------------------------------------------------------------------------
(* Building.                                                               *)

\* The client builds a graph, may change it once after it has compiled it while it is small,
\* executes it and may reset it.  A second execution would repeat the first; this bounds
\* what is told apart.
Build ==
  /\ pc = "build" /\ ~executed
  /\ compiled => ~stale /\ Len(passes) <= 1
  /\ stale' = compiled
  /\ UNCHANGED <<order, compiled, recordVars>>

\* ImportTexture and ImportBuffer, or CreateTexture and CreateBuffer.  Resources
\* differ by nothing but their place, so here outputs come first and imports last.
AddResource(kind) ==
  /\ Build /\ passes = <<>> /\ Len(resources) < MaxResources
  /\ kind = "transient" => "imported" \notin ToSet(resources)
  /\ resources' = Append(resources, kind)
  /\ UNCHANGED passes

\* An imported resource counts as an output anyway.
MarkOutput(r) ==
  /\ Build /\ passes = <<>> /\ resources[r] = "transient"
  /\ \A s \in 1 .. r - 1 : resources[s] = "output"
  /\ resources' = [resources EXCEPT ![r] = "output"]
  /\ UNCHANGED passes

\* AddPass with what its builder declares.  A pass added to a compiled graph is not
\* executed until Compile is called again.
AddPass(queue, reads, writes) ==
  /\ Build /\ Len(passes) < MaxPasses
  /\ UsesOf([reads |-> reads, writes |-> writes]) + SumOfUses <= MaxUses
  /\ passes' = Append(passes, [queue |-> queue, reads |-> reads, writes |-> writes])
  /\ UNCHANGED resources

-----------------------------------------------------------------------------
(* Compile.                                                                *)

\* The pass of a set that comes last, or 0.
LastOf(set) == IF set = {} THEN 0 ELSE CHOOSE p \in set : \A q \in set : q <= p
Writers(r) == {p \in PassIds : r \in passes[p].writes}

\* texture_producers: the last writer, wherever it stands.
Producer(r) == LastOf(Writers(r))

\* Mutant: what a pass reads does not keep its producer alive.
NeededByOutputs(live) == live

\* One round of live_pass_queue.
NeededBy(live) == live \cup ({Producer(r) : r \in UNION {passes[p].reads : p \in live}} \ {0})

\* The passes that are not culled: as many rounds as there are passes reach all of them.
Live ==
  LET live[n \in 0 .. Len(passes)] ==
        IF n = 0 THEN {Producer(r) : r \in Visible} \ {0} ELSE NeededBy(live[n - 1])
  IN  live[Len(passes)]

\* latest_texture_writer when p is reached
LatestWriter(p, r, live) == LastOf({q \in Writers(r) \cap live : q < p})

\* Mutant: only readers depend on writers.
DependenciesOfReads(p, live) == {LatestWriter(p, r, live) : r \in passes[p].reads} \ {0}

\* add_dependency: the latest writer of everything p reads or writes.
Dependencies(p, live) == {LatestWriter(p, r, live) : r \in Uses(p)} \ {0}

\* The passes of a set from the first to the last.
Ascending(set) ==
  CHOOSE s \in [1 .. Cardinality(set) -> set] : \A i, j \in DOMAIN s : i < j => s[i] < s[j]

\* The passes of a set whose dependencies are done, in ascending order.
Ready(set, done, live) ==
  Ascending({p \in set : Dependencies(p, live) \subseteq done})

\* Kahn's algorithm with a first-in first-out queue: a pass is done, and those that waited
\* only for it are queued.
Visit(run, live) ==
  IF run.queue = <<>> THEN run
  ELSE LET p == Head(run.queue)
           done == Append(run.done, p)
           successors == {s \in live : p \in Dependencies(s, live)}
       IN  [queue |-> Tail(run.queue) \o Ready(successors, ToSet(done), live), done |-> done]

\* Dependencies point backwards, so that the order is never cut short by a cycle and the
\* fallback for an empty order has nothing to add.
ExecutionOrder ==
  LET live == Live
      run[n \in 0 .. Len(passes)] ==
        IF n = 0 THEN [queue |-> Ready(live, {}, live), done |-> <<>>]
        ELSE Visit(run[n - 1], live)
  IN  run[Len(passes)].done

Compile ==
  /\ pc = "build" /\ ~executed
  /\ compiled => stale     \* compiling again without a change does nothing
  /\ compiled' = TRUE /\ stale' = FALSE
  /\ order' = ExecutionOrder
  /\ UNCHANGED <<resources, passes, recordVars>>

-----------------------------------------------------------------------------
(* Execute.                                                                *)

\* Compile if that was not done, and create what is transient.
Execute ==
  /\ pc = "build" /\ ~executed
  /\ pc' = "execute" /\ executed' = TRUE
  /\ IF compiled THEN UNCHANGED <<compiled, stale, order>>
     ELSE compiled' = TRUE /\ stale' = FALSE /\ order' = ExecutionOrder
  /\ created' = Transients
  /\ next' = 1 /\ batch' = {} /\ submitted' = {}
  /\ recordings' = [q \in Queues |-> 0]
  /\ usage' = [r \in ResourceIds |-> "initial"]
  /\ unsynced' = [r \in ResourceIds |-> {}]
  /\ UNCHANGED <<resources, passes>>

\* Read and Write request a transition if the usage is another than the last one.
Transitions(r, pass) ==
  \/ r \in pass.reads /\ usage[r] # "read"
  \/ r \in pass.writes /\ (r \in pass.reads \/ usage[r] # "write")

\* A pass that reads and writes is counted as a writer.
Access(r, pass) ==
  IF r \in pass.writes THEN {"write"} ELSE IF r \in pass.reads THEN {"read"} ELSE {}

\* Mutant: a transition to a read usage is not remembered.
RecordUsageForgetsReads(pass, since) ==
  /\ usage' = [r \in ResourceIds |-> IF r \in pass.writes THEN "write" ELSE usage[r]]
  /\ unsynced' = [r \in ResourceIds |->
       (IF Transitions(r, pass) THEN {} ELSE since[r])
         \cup Access(r, pass)]

\* The transitions of a pass and the pass itself.
RecordUsage(pass, since) ==
  /\ usage' = [r \in ResourceIds |-> IF r \in pass.writes THEN "write"
                                     ELSE IF r \in pass.reads THEN "read" ELSE usage[r]]
  /\ unsynced' = [r \in ResourceIds |->
       (IF Transitions(r, pass) THEN {} ELSE since[r])
         \cup Access(r, pass)]

NextPass == passes[order[next]]
Recording == pc = "execute" /\ next <= Len(order)

\* The pass goes into the open batch.
RecordPass ==
  /\ Recording /\ NextPass.queue \in batch
  /\ RecordUsage(NextPass, unsynced)
  /\ next' = next + 1
  /\ UNCHANGED <<graphVars, pc, batch, submitted, recordings, created, executed>>

\* Mutant: a queue that was submitted before is used again.
MayBegin(queue) == TRUE
\* There is one command list per queue and frame.
CanBegin(queue) == queue \notin submitted \cup batch

\* Another queue: the open batch is submitted and the list of that queue begun.
BeginBatch ==
  /\ Recording /\ NextPass.queue \notin batch /\ CanBegin(NextPass.queue)
  /\ submitted' = submitted \cup batch
  /\ batch' = {NextPass.queue}
  /\ recordings' = [recordings EXCEPT ![NextPass.queue] = @ + 1]
  /\ RecordUsage(NextPass, [r \in ResourceIds |-> {}])
  /\ next' = next + 1
  /\ UNCHANGED <<graphVars, pc, created, executed>>

\* GetCommandList has no list for that queue: the pass is left out.
SkipPass ==
  /\ Recording /\ NextPass.queue \notin batch /\ CanBegin(NextPass.queue)
  /\ submitted' = submitted \cup batch
  /\ batch' = {}
  /\ next' = next + 1
  /\ UNCHANGED <<graphVars, pc, recordings, created, usage, unsynced, executed>>

\* destroy_transient_resources
Leave == pc' = "build" /\ created' = {} /\ batch' = {}

\* "queue interleaving requires multiple command lists per queue": the rest is not executed.
Abort ==
  /\ Recording /\ NextPass.queue \notin batch /\ ~CanBegin(NextPass.queue)
  /\ submitted' = submitted \cup batch
  /\ Leave
  /\ UNCHANGED <<graphVars, next, recordings, usage, unsynced, executed>>

Finish ==
  /\ pc = "execute" /\ next > Len(order)
  /\ submitted' = submitted \cup batch
  /\ Leave
  /\ UNCHANGED <<graphVars, next, recordings, usage, unsynced, executed>>

Reset ==
  /\ pc = "build"
  /\ resources' = <<>> /\ passes' = <<>> /\ order' = <<>> /\ compiled' = FALSE
  /\ stale' = FALSE /\ executed' = FALSE
  /\ next' = 1 /\ batch' = {} /\ submitted' = {} /\ recordings' = [q \in Queues |-> 0]
  /\ usage' = <<>> /\ unsynced' = <<>> /\ created' = {}
  /\ UNCHANGED pc

-----------------------------------------------------------------------------
BuildStep ==
  \/ \E kind \in {"imported", "transient"} : AddResource(kind)
  \/ \E r \in ResourceIds : MarkOutput(r)
  \/ \E queue \in Queues, reads \in SUBSET ResourceIds, writes \in (SUBSET ResourceIds) \ {{}} :
       AddPass(queue, reads, writes)

GraphNext ==
  \/ BuildStep \/ Compile \/ Reset
  \/ Execute \/ RecordPass \/ BeginBatch \/ SkipPass \/ Abort \/ Finish

GraphSpec == GraphInit /\ [][GraphNext]_<<graphVars, recordVars>>

-----------------------------------------------------------------------------
(* Properties.                                                             *)

Position(p) == CHOOSE i \in 1 .. Len(order) : order[i] = p
Current == compiled /\ ~stale

\* What the order may never lose, whatever the graph: every live pass is in it once, a
\* pass comes after the live pass that wrote last, before it, what it reads, and the
\* writers of one resource keep the order they were declared in.
OrderFollowsDeclarations ==
  Current =>
    LET live == Live
    IN  /\ ToSet(order) = live /\ Len(order) = Cardinality(live)
        /\ \A p \in live : \A r \in passes[p].reads :
             LET w == LatestWriter(p, r, live) IN w # 0 => Position(w) < Position(p)
        /\ \A p, q \in live :
             passes[p].writes \cap passes[q].writes # {} /\ p < q => Position(p) < Position(q)

\* What the author of p may expect to read in r: what the last writer declared before it
\* wrote there.
DeclaredWriter(p, r) == LastOf({q \in Writers(r) : q < p})
WriterInOrder(p, r) ==
  LET before == {i \in 1 .. Position(p) - 1 : r \in passes[order[i]].writes}
  IN  IF before = {} THEN 0 ELSE order[LastOf(before)]
ReadsWhatWasDeclared(p) ==
  \A r \in passes[p].reads : WriterInOrder(p, r) = DeclaredWriter(p, r)

\* Every resource has one writer at most, declared before its readers.
WrittenOnceFirst ==
  \A r \in ResourceIds :
    /\ Cardinality(Writers(r)) <= 1
    /\ \A p \in PassIds, w \in Writers(r) : r \in passes[p].reads => w < p

\* The passes that p reads from, and what a set of passes is made of, through any number of
\* passes: what is in every set that includes it and all that its members read from.
ReadsFrom(p) == {q \in PassIds : passes[q].writes \cap passes[p].reads # {}}
DependedOn(set) ==
  {p \in PassIds : \A closed \in SUBSET PassIds :
     set \subseteq closed /\ (\A q \in closed : ReadsFrom(q) \subseteq closed) => p \in closed}

\* In a graph that writes every resource once, before it is read, exactly the passes that
\* an output or an imported resource depends on are executed, and each reads what was
\* declared.
CullsExactly ==
  Current /\ WrittenOnceFirst =>
    /\ ToSet(order) = DependedOn({p \in PassIds : passes[p].writes \cap Visible # {}})
    /\ \A p \in ToSet(order) : ReadsWhatWasDeclared(p)

\* A barrier or a submission stands between a write and a later read of the same resource,
\* and between a read and a later write, however passes share batches.
AccessesSynchronised == pc = "execute" => \A r \in ResourceIds : unsynced[r] # {"read", "write"}

\* No command list is recorded again while it may be pending; at the end of Execute every
\* list that was begun has been submitted and no transient resource is left, also when the
\* execution was broken off.
ExecuteLeavesNothing ==
  /\ \A q \in Queues : recordings[q] <= 1
  /\ pc = "build" => created = {} /\ submitted = {q \in Queues : recordings[q] > 0}

\* Culling leaves out only what is unused: every pass reads what was declared, in any graph.
OnlyUnusedCulled == Current => \A p \in ToSet(order) : ReadsWhatWasDeclared(p)
=============================================================================

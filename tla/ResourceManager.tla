-------------------------- MODULE ResourceManager --------------------------
(***************************************************************************)
(* ResourceManager (engine/core/assets/resource_manager.h): a load looks   *)
(* its path up in a cache of weak futures, and if it finds none schedules  *)
(* the stages read, decode and upload and puts the future of the last into *)
(* the cache.  The lookup and the store are two critical sections.         *)
(*                                                                         *)
(* The lookups are numbered, and the future of a load has the number of    *)
(* its lookup.  What a future does is in module Future: here it runs its   *)
(* stages, lives while they run or a client holds it, and then expires.    *)
(* The caches of the three kinds of resource are independent: a path       *)
(* stands for a path of a kind.                                            *)
(***************************************************************************)
EXTENDS Naturals

CONSTANTS
  Clients,     \* threads that load resources
  Paths,       \* asset paths
  MaxLoads     \* bound: the number of lookups

ASSUME LoadsAssumption == MaxLoads \in Nat

VARIABLES
  client,      \* client[c]: "idle", or inside LoadResource after a lookup that missed
  wanted,      \* wanted[c]: the path of that call
  made,        \* made[c]: the future of that call, which it makes after the lookup
  held,        \* held[c]: the futures client c holds
  cache,       \* cache[p]: the weak future of path p, or NoFuture
  stage,       \* stage[f]: how far the load of future f is
  path,        \* path[f]
  id,          \* id[f]: the id of the handle, NoHandle before and if the load fails
  next_handle_id_,
  lookups,     \* how many of MaxLoads have happened
  raced        \* history: the paths two calls were loading at the same time

vars == <<client, wanted, made, held, cache, stage, path, id, next_handle_id_, lookups, raced>>

NoFuture == 0
NoHandle == 0
Futures == 1 .. MaxLoads
NoPath == "none"

Init ==
  /\ client = [c \in Clients |-> "idle"] /\ wanted = [c \in Clients |-> NoPath]
  /\ made = [c \in Clients |-> NoFuture] /\ held = [c \in Clients |-> {}]
  /\ cache = [p \in Paths |-> NoFuture]
  /\ stage = [f \in Futures |-> "none"] /\ path = [f \in Futures |-> NoPath]
  /\ id = [f \in Futures |-> NoHandle] /\ next_handle_id_ = 1
  /\ lookups = 0 /\ raced = {}

Running == {"read", "decode", "decode_error", "upload", "upload_error"}
Finished == {"ready", "failed"}

\* The tasks and continuations of a load hold its future, and so does the call that makes it.
Alive(f) ==
  /\ stage[f] # "none"
  /\ stage[f] \in Running \/ \E c \in Clients : f \in held[c] \/ made[c] = f

\* Mutant: only a load that is not finished is shared.
LockRunning(f) == f # NoFuture /\ stage[f] \in Running
\* WeakFuture::Lock succeeds.
Lock(f) == f # NoFuture /\ Alive(f)

Loading(p) == {c \in Clients : client[c] # "idle" /\ wanted[c] = p}

\* The lookup finds a future.
LoadShared(c, p) ==
  /\ client[c] = "idle" /\ lookups < MaxLoads
  /\ Lock(cache[p])
  /\ held' = [held EXCEPT ![c] = @ \cup {cache[p]}]
  /\ lookups' = lookups + 1
  /\ UNCHANGED <<client, wanted, made, cache, stage, path, id, next_handle_id_, raced>>

\* The lookup finds none, and erases the entry of one that has expired.
LoadMissed(c, p) ==
  /\ client[c] = "idle" /\ lookups < MaxLoads
  /\ ~Lock(cache[p])
  /\ cache' = [cache EXCEPT ![p] = NoFuture]
  /\ client' = [client EXCEPT ![c] = "missed"]
  /\ wanted' = [wanted EXCEPT ![c] = p] /\ made' = [made EXCEPT ![c] = lookups + 1]
  /\ raced' = IF Loading(p) = {} THEN raced ELSE raced \cup {p}
  /\ lookups' = lookups + 1
  /\ UNCHANGED <<held, stage, path, id, next_handle_id_>>

\* The three stages are scheduled, each as a continuation of the one before.
ScheduleStages(c) ==
  /\ client[c] = "missed"
  /\ stage' = [stage EXCEPT ![made[c]] = "read"]
  /\ path' = [path EXCEPT ![made[c]] = wanted[c]]
  /\ client' = [client EXCEPT ![c] = "scheduled"]
  /\ UNCHANGED <<wanted, made, held, cache, id, next_handle_id_, lookups, raced>>

\* The future goes into the cache, whatever is there, and is returned.
Store(c) ==
  /\ client[c] = "scheduled"
  /\ cache' = [cache EXCEPT ![wanted[c]] = made[c]]
  /\ held' = [held EXCEPT ![c] = @ \cup {made[c]}]
  /\ client' = [client EXCEPT ![c] = "idle"] /\ wanted' = [wanted EXCEPT ![c] = NoPath]
  /\ made' = [made EXCEPT ![c] = NoFuture]
  /\ UNCHANGED <<stage, path, id, next_handle_id_, lookups, raced>>

\* The client lets go of a future.
Drop(c, f) ==
  /\ client[c] = "idle" /\ f \in held[c]
  /\ held' = [held EXCEPT ![c] = @ \ {f}]
  /\ UNCHANGED <<client, wanted, made, cache, stage, path, id, next_handle_id_, lookups, raced>>

\* The file is read, or is not there, or cannot be read, or the pool refuses the task.
Read(f) ==
  /\ stage[f] = "read"
  /\ \E next \in {"decode", "decode_error"} : stage' = [stage EXCEPT ![f] = next]
  /\ UNCHANGED <<id, next_handle_id_>>

\* Mutant: the decoder of a file that was not read never returns.
DecodeReadOnly(f) ==
  /\ stage[f] = "decode" /\ stage' = [stage EXCEPT ![f] = "upload"]
  /\ UNCHANGED <<id, next_handle_id_>>

\* An error of the stage before is passed on, and so is a refusal of the pool.
Decode(f) ==
  /\ stage[f] \in {"decode", "decode_error"}
  /\ \E next \in {"upload", "upload_error"} :
       /\ stage[f] = "decode_error" => next = "upload_error"
       /\ stage' = [stage EXCEPT ![f] = next]
  /\ UNCHANGED <<id, next_handle_id_>>

\* A handle is allocated, or the stage fails as Decode may.
AllocateHandleLocked(f) ==
  /\ stage[f] = "upload"
  /\ stage' = [stage EXCEPT ![f] = "ready"]
  /\ id' = [id EXCEPT ![f] = next_handle_id_]
  /\ next_handle_id_' = next_handle_id_ + 1

UploadFails(f) ==
  /\ stage[f] \in {"upload", "upload_error"}
  /\ stage' = [stage EXCEPT ![f] = "failed"]
  /\ UNCHANGED <<id, next_handle_id_>>

\* Read and Decode run on the pool, the upload when the foreground executor is pumped.
RunStage(f) ==
  /\ Read(f) \/ Decode(f) \/ AllocateHandleLocked(f) \/ UploadFails(f)
  /\ UNCHANGED <<client, wanted, made, held, cache, path, lookups, raced>>

ClientStep(c) ==
  \/ \E p \in Paths : LoadShared(c, p) \/ LoadMissed(c, p)
  \/ ScheduleStages(c) \/ Store(c)
  \/ \E f \in Futures : Drop(c, f)

Next == (\E c \in Clients : ClientStep(c)) \/ (\E f \in Futures : RunStage(f))

\* A call that has begun goes on, the pool runs its tasks and the main thread pumps.
Fairness ==
  /\ \A c \in Clients : WF_vars(ScheduleStages(c) \/ Store(c))
  /\ \A f \in Futures : WF_vars(RunStage(f))

Spec == Init /\ [][Next]_vars /\ Fairness

-----------------------------------------------------------------------------
(* Properties.                                                             *)

TypeOK ==
  /\ client \in [Clients -> {"idle", "missed", "scheduled"}]
  /\ wanted \in [Clients -> Paths \cup {NoPath}]
  /\ made \in [Clients -> Futures \cup {NoFuture}]
  /\ held \in [Clients -> SUBSET Futures]
  /\ cache \in [Paths -> Futures \cup {NoFuture}]
  /\ stage \in [Futures -> {"none"} \cup Running \cup Finished]
  /\ path \in [Futures -> Paths \cup {NoPath}]
  /\ id \in [Futures -> Nat] /\ next_handle_id_ \in Nat
  /\ lookups \in 0 .. MaxLoads /\ raced \subseteq Paths

\* The calls, the futures and the cache agree on the numbers.
NumbersAgree ==
  /\ \A c \in Clients :
       /\ client[c] = "idle" => made[c] = NoFuture
       /\ client[c] # "idle" => made[c] \in 1 .. lookups /\ wanted[c] \in Paths
       /\ client[c] = "missed" => stage[made[c]] = "none"
       /\ client[c] = "scheduled" => stage[made[c]] # "none" /\ path[made[c]] = wanted[c]
       /\ \A d \in Clients : client[c] # "idle" /\ made[c] = made[d] => c = d
       /\ \A f \in held[c] : stage[f] # "none"
  /\ \A f \in Futures : stage[f] # "none" => f <= lookups /\ path[f] \in Paths
  /\ \A p \in Paths : cache[p] # NoFuture => stage[cache[p]] # "none" /\ path[cache[p]] = p

\* While no two calls have raced for a path, the only future of it that is alive is the one
\* in the cache or, during a call, the one this call has made.
OneFuture ==
  \A p \in Paths \ raced :
    /\ \A c, d \in Loading(p) : c = d
    /\ \A f \in Futures : Alive(f) /\ path[f] = p =>
         IF Loading(p) = {} THEN f = cache[p] ELSE \A c \in Loading(p) : f = made[c]

\* Loads of a path share one future for as long as anything keeps it alive, finished or not,
\* unless two calls have once been between lookup and store at the same time: then the later
\* store hides a future that is still in use, and later loads may load once more.
SharedUnlessRaced ==
  \A f, g \in Futures :
    f # g /\ Alive(f) /\ Alive(g) /\ path[f] = path[g] => path[f] \in raced

\* Every load that was scheduled gets a result, whether or not anybody still waits for it.
LoadsFinish == \A f \in Futures : stage[f] = "read" ~> stage[f] \in Finished

\* Not so, and looked for by ResourceInFlight.cfg: that loads of a path share the work in
\* flight, as resource_manager.h:43 says.
InFlightShared ==
  \A f, g \in Futures :
    f # g /\ stage[f] \in Running /\ stage[g] \in Running => path[f] # path[g]
=============================================================================

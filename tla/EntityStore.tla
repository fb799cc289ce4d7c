---------------------------- MODULE EntityStore ----------------------------
(***************************************************************************)
(* EntityStore (engine/core/ecs/entity_store.h): ids of entities, which of *)
(* them are alive, and where each one's row is.  World calls several of    *)
(* its operations in one call of its own, so each is an operator from a    *)
(* store to a store.                                                       *)
(*                                                                         *)
(* A record of index 0 is never used; indices and rows count from 1 here,  *)
(* and archetype 1 is the root.  A mask is the set of its bits.            *)
(***************************************************************************)
EXTENDS Integers, Sequences, SequencesExt

CONSTANT LastGeneration  \* the largest generation, 2^32 - 1 in the code

ASSUME GenerationAssumption == LastGeneration \in Nat \ {0}

Root == 1

EntityId(index, generation) == [index |-> index, generation |-> generation]

\* EntityRecord's members; a dead or new record points at the root's first row.
EntityRecord(generation, alive) ==
  [generation |-> generation, alive |-> alive, component_mask |-> {},
   archetype_index |-> Root, row_in_archetype |-> 1]

EmptyStore(capacity) ==
  [entity_records |-> <<>>, free_entity_indices |-> <<>>,
   alive_entity_count |-> 0, entity_capacity_limit |-> capacity]

-----------------------------------------------------------------------------
\* Get(entity) # nullptr, and IsAlive
Resolves(store, entity) ==
  /\ entity.index \in DOMAIN store.entity_records
  /\ store.entity_records[entity.index].alive
  /\ store.entity_records[entity.index].generation = entity.generation

Get(store, entity) == store.entity_records[entity.index]

\* *Get(entity) = record
SetRecord(store, entity, record) ==
  [store EXCEPT !.entity_records[entity.index] = record]

LiveEntities(store) ==
  {EntityId(i, store.entity_records[i].generation) :
     i \in {j \in DOMAIN store.entity_records : store.entity_records[j].alive}}

CanCreate(store, runtime_sealed) ==
  runtime_sealed => store.alive_entity_count < store.entity_capacity_limit

-----------------------------------------------------------------------------
\* The two sources of an index: the free index released last, else a new record.
AcquireEntity(store) ==
  IF store.free_entity_indices # <<>>
    THEN LET index == Last(store.free_entity_indices)
             generation == store.entity_records[index].generation
         IN [entity |-> EntityId(index, generation), reused_index |-> TRUE,
             store |-> [store EXCEPT
               !.free_entity_indices = Front(@),
               !.entity_records[index] = EntityRecord(generation, TRUE),
               !.alive_entity_count = @ + 1]]
    ELSE [entity |-> EntityId(Len(store.entity_records) + 1, 1), reused_index |-> FALSE,
          store |-> [store EXCEPT
            !.entity_records = Append(@, EntityRecord(1, TRUE)),
            !.alive_entity_count = @ + 1]]

Decrement(count) == IF count > 0 THEN count - 1 ELSE 0

\* A roll-back that forgets to give a reused index back.
RollbackLosesIndex(acquired) ==
  LET index == acquired.entity.index
      dead == EntityRecord(acquired.entity.generation, FALSE)
  IN [acquired.store EXCEPT
        !.entity_records = IF acquired.reused_index THEN [@ EXCEPT ![index] = dead]
                                                    ELSE Front(@),
        !.alive_entity_count = Decrement(@)]

\* RollbackAcquire: the reused index is free again, the appended record goes.
RollbackAcquire(acquired) ==
  LET index == acquired.entity.index
      dead == EntityRecord(acquired.entity.generation, FALSE)
      store == [acquired.store EXCEPT !.alive_entity_count = Decrement(@)]
  IN IF acquired.reused_index
       THEN [store EXCEPT !.entity_records[index] = dead,
                          !.free_entity_indices = Append(@, index)]
       ELSE [store EXCEPT !.entity_records = Front(@)]

\* FinalizeCreate
FinalizeCreate(acquired, archetype_index, row) ==
  [acquired.store EXCEPT
     !.entity_records[acquired.entity.index].archetype_index = archetype_index,
     !.entity_records[acquired.entity.index].row_in_archetype = row]

\* ++generation, and never 0
NextGeneration(generation) ==
  IF generation = LastGeneration THEN 1 ELSE generation + 1

\* A destroy that leaves the generation as it was.
DestroyKeepsGeneration(store, entity) ==
  [store EXCEPT
     !.entity_records[entity.index] = EntityRecord(entity.generation, FALSE),
     !.free_entity_indices = Append(@, entity.index),
     !.alive_entity_count = Decrement(@)]

\* DestroyEntity of an id that resolves.
DestroyRecord(store, entity) ==
  [store EXCEPT
     !.entity_records[entity.index] =
        EntityRecord(NextGeneration(entity.generation), FALSE),
     !.free_entity_indices = Append(@, entity.index),
     !.alive_entity_count = Decrement(@)]

\* Reserve, when it is not refused.
CanReserve(store, capacity, runtime_sealed) ==
  ~runtime_sealed /\ capacity >= store.alive_entity_count

ReserveStore(store, capacity) == [store EXCEPT !.entity_capacity_limit = capacity]

\* SealForRuntime
SealStore(store) ==
  [store EXCEPT !.entity_capacity_limit =
     IF @ < store.alive_entity_count THEN store.alive_entity_count ELSE @]
=============================================================================

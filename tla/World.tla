------------------------------- MODULE World -------------------------------
(***************************************************************************)
(* World (engine/core/ecs/world.h, world.cc): entities and their           *)
(* components, kept by an EntityStore, a ComponentRegistry and an          *)
(* ArchetypeStore that must agree.  One thread owns a world, so a call is  *)
(* a step.  A call that is refused before it changes anything is not one.  *)
(*                                                                         *)
(* The registry is the sequence of the types it knows: the dense index of  *)
(* a type is its place in it.                                              *)
(***************************************************************************)
EXTENDS EntityStore, ArchetypeStore, FiniteSets, Functions

CONSTANTS
  Types,                  \* C++ types used as components
  Values,                 \* their values
  MaxComponentTypes,      \* kMaxComponentTypes
  InitialEntityCapacity,  \* WorldConfig's members
  InitialArchetypeEntityCapacity,
  Capacities,             \* what callers reserve, and for which masks
  ReservedMasks,
  RegisteredMasksOnly,    \* callers reserve no mask with an unregistered bit
  MaxEntities,            \* bounds: records of entities, and ids given out
  MaxIssued

ASSUME WorldAssumption ==
  /\ ZeroValue \in Values
  /\ MaxComponentTypes \in Nat
  /\ InitialEntityCapacity \in Nat
  /\ InitialArchetypeEntityCapacity \in Nat
  /\ Capacities \subseteq Nat
  /\ ReservedMasks \subseteq SUBSET (1 .. MaxComponentTypes)
  /\ RegisteredMasksOnly \in BOOLEAN
  /\ MaxEntities \in Nat
  /\ MaxIssued \in Nat

VARIABLES
  runtime_sealed,
  component_types,  \* component_registry_
  entity_store,
  archetypes        \* archetype_store_

vars == <<runtime_sealed, component_types, entity_store, archetypes>>

\* The ids callers may hold, live, stale or never given out.
Ids == {EntityId(i, g) : i \in 1 .. MaxEntities, g \in 1 .. LastGeneration}

\* The ids given out: those of earlier generations of an index and of its live entity.
Issued ==
  {id \in Ids :
     /\ id.index \in DOMAIN entity_store.entity_records
     /\ LET record == entity_store.entity_records[id.index]
        IN id.generation < record.generation
             \/ (record.alive /\ id.generation = record.generation)}

Registered == DOMAIN component_types
TypeIndex(type) == CHOOSE i \in Registered : component_types[i] = type

Init ==
  /\ runtime_sealed = FALSE
  /\ component_types = <<>>
  /\ entity_store = EmptyStore(InitialEntityCapacity)
  /\ archetypes =
       <<Archetype({}, {}, ArchetypeMax(InitialArchetypeEntityCapacity, InitialEntityCapacity))>>

-----------------------------------------------------------------------------
RegisterComponent(type) ==
  /\ ~runtime_sealed
  /\ type \notin Range(component_types)
  /\ Len(component_types) < MaxComponentTypes
  /\ component_types' = Append(component_types, type)
  /\ UNCHANGED <<runtime_sealed, entity_store, archetypes>>

ReserveEntities(capacity) ==
  /\ CanReserve(entity_store, capacity, runtime_sealed)
  /\ entity_store' = ReserveStore(entity_store, capacity)
  /\ archetypes' = ReserveRows(archetypes, Root, capacity)
  /\ UNCHANGED <<runtime_sealed, component_types>>

\* Both forms: the template only builds masks of registered types.
ReserveArchetype(mask, capacity) ==
  /\ ~runtime_sealed
  /\ RegisteredMasksOnly => mask \subseteq Registered
  /\ LET resolved == GetOrCreate(archetypes, mask, Registered,
                                 InitialArchetypeEntityCapacity)
     IN archetypes' = ReserveRows(resolved, ArchetypeIndex(resolved, mask), capacity)
  /\ UNCHANGED <<runtime_sealed, component_types, entity_store>>

SealForRuntime ==
  /\ runtime_sealed' = TRUE
  /\ entity_store' = SealStore(entity_store)
  /\ archetypes' = SealArchetypes(archetypes)
  /\ UNCHANGED component_types

-----------------------------------------------------------------------------
\* Bound: every id is one of MaxIssued, of MaxEntities indices.
WithinBounds(entity) ==
  entity.index <= MaxEntities /\ Cardinality(Issued) < MaxIssued

CreateEntity ==
  /\ CanCreate(entity_store, runtime_sealed)
  /\ HasRoom(archetypes[Root], runtime_sealed)
  /\ LET acquired == AcquireEntity(entity_store)
     IN /\ WithinBounds(acquired.entity)
        /\ entity_store' =
             FinalizeCreate(acquired, Root, Len(archetypes[Root].rows) + 1)
        /\ archetypes' = AppendRow(archetypes, Root, acquired.entity, <<>>)
  /\ UNCHANGED <<runtime_sealed, component_types>>

\* CreateEntity when the root archetype is full: the id is taken back.
CreateEntityRollsBack ==
  /\ CanCreate(entity_store, runtime_sealed)
  /\ ~HasRoom(archetypes[Root], runtime_sealed)
  /\ LET acquired == AcquireEntity(entity_store)
     IN /\ WithinBounds(acquired.entity)
        /\ entity_store' = RollbackAcquire(acquired)
  /\ UNCHANGED <<runtime_sealed, component_types, archetypes>>

\* A removal that leaves the record of the moved entity alone.
MovedRecordIsStale(store, tables, index, row) == store

\* RemoveRowFromArchetype's second half, before the row goes: the record of
\* the entity whose row takes its place follows.
FollowMovedRow(store, tables, index, row) ==
  LET moved == MovedEntity(tables, index)
  IN IF MovesLastRow(tables, index, row) /\ Resolves(store, moved)
       THEN SetRecord(store, moved,
                      [Get(store, moved) EXCEPT !.row_in_archetype = row])
       ELSE store

\* DestroyEntity.  Bound: no index outlives one lap of its generation.
DestroyEntity(entity) ==
  /\ Resolves(entity_store, entity)
  /\ entity.generation < LastGeneration
  /\ LET record == Get(entity_store, entity)
         index  == record.archetype_index
         row    == record.row_in_archetype
     IN /\ archetypes' = RemoveSwapBack(archetypes, index, row)
        /\ entity_store' =
             DestroyRecord(FollowMovedRow(entity_store, archetypes, index, row), entity)
  /\ UNCHANGED <<runtime_sealed, component_types>>

-----------------------------------------------------------------------------
\* CopySharedComponents: what the new row of the entity takes from its old one.
SharedComponents(tables, source, row, mask) ==
  LET values == tables[source].rows[row].values
  IN Restrict(values, mask \cap DOMAIN values)

\* Add and RemoveComponent from the choice of the target on: append a row to the
\* target archetype, copy, remove the old row, and point the record at the new one.
MoveEntity(entity, target_mask, written) ==
  LET tables == GetOrCreate(archetypes, target_mask, Registered,
                            InitialArchetypeEntityCapacity)
      record == Get(entity_store, entity)
      source == record.archetype_index
      row    == record.row_in_archetype
      destination == ArchetypeIndex(tables, target_mask)
      new_row == Len(tables[destination].rows) + 1
      shared == SharedComponents(tables, source, row,
                                 record.component_mask \cap target_mask)
      values == [c \in DOMAIN written \cup DOMAIN shared |->
                   IF c \in DOMAIN written THEN written[c] ELSE shared[c]]
  IN /\ Available(archetypes, target_mask, runtime_sealed)
     /\ HasRoom(tables[destination], runtime_sealed)
     /\ archetypes' =
          RemoveSwapBack(AppendRow(tables, destination, entity, values), source, row)
     /\ entity_store' =
          SetRecord(FollowMovedRow(entity_store, tables, source, row), entity,
                    [record EXCEPT !.component_mask = target_mask,
                                   !.archetype_index = destination,
                                   !.row_in_archetype = new_row])
     /\ UNCHANGED <<runtime_sealed, component_types>>

AddComponent(entity, type, value) ==
  LET component == TypeIndex(type)
  IN /\ type \in Range(component_types)
     /\ Resolves(entity_store, entity)
     /\ component \notin Get(entity_store, entity).component_mask
     /\ MoveEntity(entity, Get(entity_store, entity).component_mask \cup {component},
                   [c \in {component} |-> value])

\* AddComponent of a component the entity has; or a write through the pointer
\* GetComponent returns, or through a reference ForEach passes.
WriteComponent(entity, type, value) ==
  LET component == TypeIndex(type)
      record == Get(entity_store, entity)
  IN /\ type \in Range(component_types)
     /\ Resolves(entity_store, entity)
     /\ component \in record.component_mask
     /\ archetypes' =
          [archetypes EXCEPT
             ![record.archetype_index].rows[record.row_in_archetype].values[component] =
                value]
     /\ UNCHANGED <<runtime_sealed, component_types, entity_store>>

RemoveComponent(entity, type) ==
  LET component == TypeIndex(type)
  IN /\ type \in Range(component_types)
     /\ Resolves(entity_store, entity)
     /\ component \in Get(entity_store, entity).component_mask
     /\ MoveEntity(entity, Get(entity_store, entity).component_mask \ {component}, <<>>)

-----------------------------------------------------------------------------
\* A query that takes only the archetypes with exactly its components.
MatchesExactly(archetype, query) == archetype.mask = query

\* ForEach's test of an archetype.
Matches(archetype, query) == query \subseteq archetype.mask

\* ForEach: the places it calls back for.
ForEachVisits(query) ==
  {p \in UNION {{i} \X DOMAIN archetypes[i].rows : i \in DOMAIN archetypes} :
     Matches(archetypes[p[1]], query)}

Next ==
  \/ \E type \in Types : RegisterComponent(type)
  \/ \E capacity \in Capacities :
       \/ ReserveEntities(capacity)
       \/ \E mask \in ReservedMasks : ReserveArchetype(mask, capacity)
  \/ SealForRuntime
  \/ CreateEntity
  \/ CreateEntityRollsBack
  \/ \E entity \in Ids :
       \/ DestroyEntity(entity)
       \/ \E type \in Types :
            \/ \E value \in Values :
                 \/ AddComponent(entity, type, value)
                 \/ WriteComponent(entity, type, value)
            \/ RemoveComponent(entity, type)

Spec == Init /\ [][Next]_vars

-----------------------------------------------------------------------------
\* The shapes of the registry, the records and the tables.
TypeOK ==
  /\ runtime_sealed \in BOOLEAN
  /\ Len(component_types) <= MaxComponentTypes
  /\ Range(component_types) \subseteq Types /\ IsInjective(component_types)
  /\ entity_store.alive_entity_count \in 0 .. MaxEntities
  /\ entity_store.entity_capacity_limit \in Nat
  /\ Range(entity_store.free_entity_indices) \subseteq 1 .. MaxEntities
  /\ Len(entity_store.entity_records) <= MaxEntities
  /\ \A record \in Range(entity_store.entity_records) :
       /\ record.generation \in 1 .. LastGeneration
       /\ record.alive \in BOOLEAN
       /\ record.component_mask \subseteq Registered
       /\ record.archetype_index \in DOMAIN archetypes
       /\ record.row_in_archetype \in 1 .. MaxEntities
  /\ \A archetype \in Range(archetypes) :
       /\ archetype.columns \subseteq archetype.mask
       /\ archetype.entity_limit \in Nat
       /\ \A row \in Range(archetype.rows) :
            row.entity \in Ids /\ row.values \in [archetype.columns -> Values]

\* The record of a live entity points at the one row that holds the entity, in
\* the archetype of its components, and every row is the row of a live entity:
\* swap-back removal, migration and roll-back keep both sides in step.
RecordsMatchRows ==
  /\ \A entity \in LiveEntities(entity_store) :
       LET record == Get(entity_store, entity)
           archetype == archetypes[record.archetype_index]
       IN /\ archetype.mask = record.component_mask
          /\ record.row_in_archetype \in DOMAIN archetype.rows
          /\ archetype.rows[record.row_in_archetype].entity = entity
  /\ \A i \in DOMAIN archetypes : \A row \in DOMAIN archetypes[i].rows :
       LET entity == archetypes[i].rows[row].entity
       IN /\ Resolves(entity_store, entity)
          /\ Get(entity_store, entity).archetype_index = i
          /\ Get(entity_store, entity).row_in_archetype = row

\* Each index without a live entity is free, once, and the count of live
\* entities is exact, refused creations included: no index is lost or shared.
FreeListExact ==
  LET records == entity_store.entity_records
      free == entity_store.free_entity_indices
  IN /\ IsInjective(free)
     /\ Range(free) = {i \in DOMAIN records : ~records[i].alive}
     /\ entity_store.alive_entity_count = Cardinality(LiveEntities(entity_store))

\* In a sealed world neither the entities nor the rows of an archetype exceed
\* what was reserved, however entities come, move and go.
SealedWithinLimits ==
  runtime_sealed =>
    /\ entity_store.alive_entity_count <= entity_store.entity_capacity_limit
    /\ \A archetype \in Range(archetypes) : Len(archetype.rows) <= archetype.entity_limit

Layout == [i \in DOMAIN archetypes |->
             [mask |-> archetypes[i].mask, columns |-> archetypes[i].columns,
              entity_limit |-> archetypes[i].entity_limit]]

\* For every query ForEach calls back once for each live entity whose
\* components include those of the query, and for no other row.
ForEachVisitsMatches ==
  \A query \in (SUBSET Registered) \ {{}} :
    LET visits == ForEachVisits(query)
        matching == {entity \in LiveEntities(entity_store) :
                       query \subseteq Get(entity_store, entity).component_mask}
        visited == {archetypes[p[1]].rows[p[2]].entity : p \in visits}
    IN visited = matching /\ Cardinality(visits) = Cardinality(matching)

\* An archetype has a column for every registered component of its mask: the
\* registry and the archetypes agree on where a component's bytes are.
ColumnsMatchMask ==
  \A archetype \in Range(archetypes) :
    archetype.mask \cap Registered \subseteq archetype.columns

-----------------------------------------------------------------------------
(***************************************************************************)
(* A world is an EntityMap.                                                *)
(***************************************************************************)
ComponentsOf(entity) ==
  LET record == Get(entity_store, entity)
      row == archetypes[record.archetype_index].rows[record.row_in_archetype]
  IN [type \in {component_types[c] : c \in record.component_mask} |->
        row.values[TypeIndex(type)]]

Map == INSTANCE EntityMap WITH
  Components <- Types,
  issued     <- Issued,
  components <- [entity \in LiveEntities(entity_store) |-> ComponentsOf(entity)]

\* Ids are given out once, and each operation changes the components of its own
\* entity and nothing else: no migration, swap-back or reuse of an index mixes
\* up the values of two entities or revives an id.
ImplementsEntityMap == Map!EntityMapSpec
=============================================================================

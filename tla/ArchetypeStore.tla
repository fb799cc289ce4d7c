--------------------------- MODULE ArchetypeStore ---------------------------
(***************************************************************************)
(* ArchetypeStore (engine/core/ecs/archetype_store.h): one table of rows   *)
(* for each set of components.  Like EntityStore, operators from a store   *)
(* to a store: here, the sequence of archetypes in order of creation.      *)
(*                                                                         *)
(* A row is an entity and its bytes, one value for each active column; the *)
(* packed arrays of a column are the same component of every row.  The     *)
(* capacities of the arrays are never below entity_limit, so the limit is  *)
(* the only test in Append that can refuse a row.                          *)
(***************************************************************************)
EXTENDS Integers, Sequences, SequencesExt

CONSTANT ZeroValue  \* the value of a component whose bytes are all zero

ArchetypeMax(m, n) == IF m < n THEN n ELSE m

Archetype(mask, columns, entity_limit) ==
  [mask |-> mask, columns |-> columns, entity_limit |-> entity_limit, rows |-> <<>>]

Masks(archetypes) == {archetypes[i].mask : i \in DOMAIN archetypes}

\* archetype_lookup_
ArchetypeIndex(archetypes, mask) ==
  CHOOSE i \in DOMAIN archetypes : archetypes[i].mask = mask

\* GetOrCreateArchetype # kInvalidArchetypeIndex
Available(archetypes, mask, runtime_sealed) ==
  runtime_sealed => mask \in Masks(archetypes)

\* GetOrCreateArchetype: a new archetype has a column for each bit of its mask
\* that is registered, and skips the others.
GetOrCreate(archetypes, mask, registered, capacity) ==
  IF mask \in Masks(archetypes)
    THEN archetypes
    ELSE Append(archetypes, Archetype(mask, mask \cap registered, capacity))

\* Archetype::Reserve
ReserveRows(archetypes, index, capacity) ==
  [archetypes EXCEPT ![index].entity_limit =
     ArchetypeMax(capacity, Len(archetypes[index].rows))]

\* SealForRuntime
SealArchetypes(archetypes) ==
  [i \in DOMAIN archetypes |->
     [archetypes[i] EXCEPT !.entity_limit = ArchetypeMax(@, Len(archetypes[i].rows))]]

-----------------------------------------------------------------------------
\* A test that lets one row too many into a sealed archetype.
HasRoomOffByOne(archetype, runtime_sealed) ==
  runtime_sealed => Len(archetype.rows) <= archetype.entity_limit

\* Append is not refused.
HasRoom(archetype, runtime_sealed) ==
  runtime_sealed => Len(archetype.rows) < archetype.entity_limit

\* Append, and the columns' new bytes: zero, but for those written at once.
AppendRow(archetypes, index, entity, written) ==
  [archetypes EXCEPT ![index].rows = Append(@,
     [entity |-> entity,
      values |-> [c \in archetypes[index].columns |->
                    IF c \in DOMAIN written THEN written[c] ELSE ZeroValue]])]

\* RemoveSwapBack: the last row takes the place of the removed one.
RemoveSwapBack(archetypes, index, row) ==
  LET rows == archetypes[index].rows
  IN [archetypes EXCEPT ![index].rows = Front([rows EXCEPT ![row] = Last(rows)])]

\* *moved_entity is valid, and the entity it then is.
MovesLastRow(archetypes, index, row) == row # Len(archetypes[index].rows)
MovedEntity(archetypes, index) == Last(archetypes[index].rows).entity
=============================================================================

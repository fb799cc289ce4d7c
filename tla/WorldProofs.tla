---------------------------- MODULE WorldProofs -----------------------------
(***************************************************************************)
(* Theorems about World.  The invariant, WorldInv, says of each entity     *)
(* that its record and its row point at each other, in the archetype of    *)
(* its mask.  An operation is taken apart into the removal of a row, which *)
(* makes the record of the moved entity follow, and the placing of one;    *)
(* between the two, the records and the rows agree but for one entity.     *)
(* Last, a world is shown to be an EntityMap.                              *)
(***************************************************************************)
EXTENDS World, FiniteSetTheorems, SequenceTheorems, FunctionTheorems, TLAPS

-----------------------------------------------------------------------------
(* The types of the stores.                                                *)

Records == [generation : 1 .. LastGeneration, alive : BOOLEAN, component_mask : SUBSET Nat,
            archetype_index : Nat \ {0}, row_in_archetype : Nat \ {0}]

Stores == [entity_records : Seq(Records), free_entity_indices : Seq(Nat),
           alive_entity_count : Nat, entity_capacity_limit : Nat]

RowValues == UNION {[columns -> Values] : columns \in SUBSET Nat}

Rows == [entity : Ids, values : RowValues]

Tables == [mask : SUBSET Nat, columns : SUBSET Nat, entity_limit : Nat, rows : Seq(Rows)]

\* A record points at the row of its entity, in the archetype of its components.
Points(store, tables, index) ==
  LET record == store.entity_records[index]
      table == tables[record.archetype_index]
  IN /\ record.archetype_index \in DOMAIN tables
     /\ table.mask = record.component_mask
     /\ record.row_in_archetype \in DOMAIN table.rows
     /\ table.rows[record.row_in_archetype].entity = EntityId(index, record.generation)

\* A row is the one that the record of its entity points at.
Owned(store, tables, i, row) ==
  LET entity == tables[i].rows[row].entity
  IN /\ Resolves(store, entity)
     /\ Get(store, entity).archetype_index = i
     /\ Get(store, entity).row_in_archetype = row

\* Both sides agree, but for the entity of index, which has no row.
AgreeBut(store, tables, index) ==
  /\ \A j \in DOMAIN store.entity_records :
       store.entity_records[j].alive /\ j # index => Points(store, tables, j)
  /\ \A i \in DOMAIN tables, row \in Nat :
       row \in DOMAIN tables[i].rows =>
         Owned(store, tables, i, row) /\ tables[i].rows[row].entity.index # index

Agree(store, tables) == AgreeBut(store, tables, 0)

\* The row of an entity.
RowOf(store, tables, index) ==
  LET record == store.entity_records[index]
  IN tables[record.archetype_index].rows[record.row_in_archetype]

\* What a step does to the rows of all other entities: it may move them.
SameRows(store, tables, store2, tables2, index) ==
  \A j \in DOMAIN store.entity_records :
    store.entity_records[j].alive /\ j # index =>
      RowOf(store2, tables2, j) = RowOf(store, tables, j)

-----------------------------------------------------------------------------
(* Identities, and sequences.                                              *)

LEMMA IdFacts ==
    /\ \A e \in Ids : /\ e.index \in 1 .. MaxEntities
                      /\ e.generation \in 1 .. LastGeneration
                      /\ e = EntityId(e.index, e.generation)
    /\ \A i \in 1 .. MaxEntities, g \in 1 .. LastGeneration : EntityId(i, g) \in Ids
    /\ \A i, g : EntityId(i, g).index = i /\ EntityId(i, g).generation = g
  BY DEF Ids, EntityId

LEMMA FrontFacts ==
    ASSUME NEW S, NEW s \in Seq(S), s # <<>>
    PROVE /\ Front(s) \in Seq(S)
          /\ Len(Front(s)) = Len(s) - 1
          /\ DOMAIN Front(s) = 1 .. Len(s) - 1
          /\ \A i \in 1 .. Len(s) - 1 : Front(s)[i] = s[i]
          /\ Len(s) \in DOMAIN s /\ Last(s) = s[Len(s)] /\ Last(s) \in S
  <1>1. Len(s) \in Nat \ {0} /\ DOMAIN s = 1 .. Len(s)
    OBVIOUS
  <1>2. /\ Front(s) \in Seq(S) /\ Len(Front(s)) = Len(s) - 1
        /\ \A i \in 1 .. Len(s) - 1 : Front(s)[i] = s[i]
    BY <1>1 DEF Front
  <1>3. DOMAIN Front(s) = 1 .. Len(s) - 1
    BY <1>2
  <1>4. Len(s) \in DOMAIN s /\ Last(s) = s[Len(s)] /\ s[Len(s)] \in S
    BY <1>1 DEF Last
  <1> QED
    BY <1>2, <1>3, <1>4

LEMMA AppendFacts ==
    ASSUME NEW S, NEW s \in Seq(S), NEW x \in S
    PROVE /\ Append(s, x) \in Seq(S)
          /\ Len(Append(s, x)) = Len(s) + 1
          /\ DOMAIN Append(s, x) = 1 .. Len(s) + 1
          /\ DOMAIN Append(s, x) = DOMAIN s \cup {Len(s) + 1}
          /\ Len(s) + 1 \notin DOMAIN s
          /\ \A i \in DOMAIN s : Append(s, x)[i] = s[i]
          /\ Append(s, x)[Len(s) + 1] = x
  OBVIOUS

LEMMA FrontOfAppend ==
    ASSUME NEW S, NEW s \in Seq(S), NEW x \in S
    PROVE Front(Append(s, x)) = s
  <1> DEFINE t == Append(s, x)
  <1>2. /\ t \in Seq(S) /\ Len(t) = Len(s) + 1 /\ Len(s) \in Nat
        /\ \A i \in 1 .. Len(s) : t[i] = s[i]
    OBVIOUS
  <1>1. t \in Seq(S) /\ t # <<>>
    BY <1>2
  <1> HIDE DEF t
  <1>3. /\ Front(t) \in Seq(S) /\ Len(Front(t)) = Len(t) - 1
        /\ \A i \in 1 .. Len(t) - 1 : Front(t)[i] = t[i]
    BY <1>1, FrontFacts
  <1>4. Front(t) \in Seq(S) /\ Len(Front(t)) = Len(s) /\ \A i \in 1 .. Len(s) : Front(t)[i] = s[i]
    BY <1>2, <1>3
  <1>5. Front(t) = s
    BY <1>4
  <1> QED
    BY <1>5 DEF t

LEMMA ExceptFacts ==
    ASSUME NEW S, NEW s \in Seq(S), NEW i \in DOMAIN s, NEW x \in S
    PROVE /\ [s EXCEPT ![i] = x] \in Seq(S)
          /\ DOMAIN [s EXCEPT ![i] = x] = DOMAIN s
          /\ [s EXCEPT ![i] = x][i] = x
          /\ \A j \in DOMAIN s \ {i} : [s EXCEPT ![i] = x][j] = s[j]
  OBVIOUS

LEMMA AppendToFront ==
    ASSUME NEW S, NEW s \in Seq(S), s # <<>>
    PROVE Append(Front(s), Last(s)) = s
  <1>1. /\ Front(s) \in Seq(S) /\ Len(Front(s)) = Len(s) - 1 /\ Last(s) \in S
        /\ Len(s) \in Nat /\ Last(s) = s[Len(s)]
    BY FrontFacts
  <1>2. Append(Front(s), Last(s)) \in Seq(S) /\ Len(Append(Front(s), Last(s))) = Len(s)
    BY <1>1, AppendFacts
  <1>3. \A i \in 1 .. Len(s) : Append(Front(s), Last(s))[i] = s[i]
    BY <1>1, FrontFacts
  <1> QED
    BY <1>2, <1>3

-----------------------------------------------------------------------------
(* The operations on tables.                                               *)

\* A row appended to a table.
LEMMA AppendRowFacts ==
    ASSUME NEW tables \in Seq(Tables), NEW i \in DOMAIN tables, NEW entity \in Ids,
           NEW written, \A c \in DOMAIN written : written[c] \in Values
    PROVE /\ AppendRow(tables, i, entity, written) \in Seq(Tables)
          /\ DOMAIN AppendRow(tables, i, entity, written) = DOMAIN tables
          /\ \A k \in DOMAIN tables \ {i} :
               AppendRow(tables, i, entity, written)[k] = tables[k]
          /\ AppendRow(tables, i, entity, written)[i].mask = tables[i].mask
          /\ AppendRow(tables, i, entity, written)[i].columns = tables[i].columns
          /\ AppendRow(tables, i, entity, written)[i].entity_limit = tables[i].entity_limit
          /\ AppendRow(tables, i, entity, written)[i].rows
               = Append(tables[i].rows,
                        [entity |-> entity,
                         values |-> [c \in tables[i].columns |->
                                       IF c \in DOMAIN written THEN written[c] ELSE ZeroValue]])
  <1> DEFINE row == [entity |-> entity,
                     values |-> [c \in tables[i].columns |->
                                   IF c \in DOMAIN written THEN written[c] ELSE ZeroValue]]
             table == [tables[i] EXCEPT !.rows = Append(tables[i].rows, row)]
  <1>1. tables[i] \in Tables
    OBVIOUS
  <1>2. row.values \in [tables[i].columns -> Values] /\ tables[i].columns \in SUBSET Nat
    BY <1>1, WorldAssumption DEF Tables
  <1>3. row \in Rows
    BY <1>2 DEF Rows, RowValues
  <1> HIDE DEF row
  <1>4. table \in Tables
    BY <1>1, <1>3, AppendFacts DEF Tables
  <1>5. AppendRow(tables, i, entity, written) = [tables EXCEPT ![i] = table]
    BY <1>1 DEF AppendRow, row, Tables
  <1> HIDE DEF table
  <1>6. /\ [tables EXCEPT ![i] = table] \in Seq(Tables)
        /\ DOMAIN [tables EXCEPT ![i] = table] = DOMAIN tables
        /\ \A k \in DOMAIN tables \ {i} : [tables EXCEPT ![i] = table][k] = tables[k]
        /\ [tables EXCEPT ![i] = table][i] = table
    BY <1>4
  <1>7. /\ table.mask = tables[i].mask /\ table.columns = tables[i].columns
        /\ table.entity_limit = tables[i].entity_limit
        /\ table.rows = Append(tables[i].rows, row)
    BY <1>1 DEF table, Tables
  <1> QED
    BY <1>5, <1>6, <1>7 DEF row

\* A row that leaves a table, and the last row that takes its place.
LEMMA RemoveRowFacts ==
    ASSUME NEW tables \in Seq(Tables), NEW i \in DOMAIN tables,
           NEW row \in DOMAIN tables[i].rows
    PROVE LET last == Len(tables[i].rows)
              after == RemoveSwapBack(tables, i, row)
          IN /\ after \in Seq(Tables)
             /\ DOMAIN after = DOMAIN tables
             /\ \A k \in DOMAIN tables \ {i} : after[k] = tables[k]
             /\ after[i].mask = tables[i].mask
             /\ after[i].columns = tables[i].columns
             /\ after[i].entity_limit = tables[i].entity_limit
             /\ last \in Nat \ {0}
             /\ Len(after[i].rows) = last - 1
             /\ DOMAIN after[i].rows = 1 .. last - 1
             /\ \A k \in 1 .. last - 1 :
                  after[i].rows[k] = IF k = row THEN tables[i].rows[last] ELSE tables[i].rows[k]
  <1> DEFINE rows == tables[i].rows
             swapped == [rows EXCEPT ![row] = Last(rows)]
             table == [tables[i] EXCEPT !.rows = Front(swapped)]
  <1>0. tables[i] \in Tables
    OBVIOUS
  <1>0a. rows \in Seq(Rows)
    BY <1>0 DEF Tables
  <1>1. tables[i] \in Tables /\ rows \in Seq(Rows) /\ rows # <<>>
    BY <1>0, <1>0a
  <1>2. Last(rows) \in Rows /\ Last(rows) = rows[Len(rows)] /\ Len(rows) \in Nat \ {0}
    BY <1>1, FrontFacts
  <1>3. /\ swapped \in Seq(Rows) /\ swapped # <<>> /\ Len(swapped) = Len(rows)
        /\ \A k \in 1 .. Len(rows) : swapped[k] = IF k = row THEN rows[Len(rows)] ELSE rows[k]
    BY <1>1, <1>2
  <1> HIDE DEF swapped
  <1>4. /\ Front(swapped) \in Seq(Rows) /\ Len(Front(swapped)) = Len(rows) - 1
        /\ DOMAIN Front(swapped) = 1 .. Len(rows) - 1
        /\ \A k \in 1 .. Len(rows) - 1 : Front(swapped)[k] = swapped[k]
    BY <1>3, FrontFacts
  <1>5. table \in Tables
    BY <1>1, <1>4 DEF Tables
  <1>6. RemoveSwapBack(tables, i, row) = [tables EXCEPT ![i] = table]
    BY <1>1 DEF RemoveSwapBack, swapped, Tables
  <1>7. /\ table.mask = tables[i].mask /\ table.columns = tables[i].columns
        /\ table.entity_limit = tables[i].entity_limit
        /\ table.rows = Front(swapped)
    BY <1>1 DEF Tables
  <1> HIDE DEF table
  <1>8. /\ [tables EXCEPT ![i] = table] \in Seq(Tables)
        /\ DOMAIN [tables EXCEPT ![i] = table] = DOMAIN tables
        /\ \A k \in DOMAIN tables \ {i} : [tables EXCEPT ![i] = table][k] = tables[k]
        /\ [tables EXCEPT ![i] = table][i] = table
    BY <1>5
  <1>9. \A k \in 1 .. Len(rows) - 1 :
          Front(swapped)[k] = IF k = row THEN rows[Len(rows)] ELSE rows[k]
    BY <1>2, <1>3, <1>4
  <1> QED
    BY <1>2, <1>4, <1>6, <1>7, <1>8, <1>9

\* Archetypes of different components, the root's first.
OneTablePerMask(tables) ==
  /\ tables \in Seq(Tables)
  /\ Root \in DOMAIN tables /\ tables[Root].mask = {}
  /\ \A i, j \in DOMAIN tables : tables[i].mask = tables[j].mask => i = j

\* Every archetype has a column for each component of its mask.
CompleteColumns(tables) ==
  \A i \in DOMAIN tables : tables[i].mask \subseteq tables[i].columns

LEMMA ArchetypeIndexFacts ==
    ASSUME NEW tables, OneTablePerMask(tables), NEW i \in DOMAIN tables
    PROVE ArchetypeIndex(tables, tables[i].mask) = i
  BY DEF ArchetypeIndex, OneTablePerMask

\* The archetype of a mask, new or not, comes after the others and is empty if it is new.
LEMMA GetOrCreateFacts ==
    ASSUME NEW tables, OneTablePerMask(tables), NEW mask \in SUBSET Nat,
           NEW registered, NEW capacity \in Nat
    PROVE LET after == GetOrCreate(tables, mask, registered, capacity)
              index == ArchetypeIndex(after, mask)
          IN /\ OneTablePerMask(after)
             /\ DOMAIN tables \subseteq DOMAIN after
             /\ \A i \in DOMAIN tables : after[i] = tables[i]
             /\ index \in DOMAIN after /\ after[index].mask = mask
             /\ \A i \in DOMAIN after \ DOMAIN tables :
                  /\ after[i].rows = <<>> /\ after[i].mask = mask
                  /\ after[i].columns = mask \cap registered
             /\ mask \in Masks(tables) => after = tables
  <1> DEFINE after == GetOrCreate(tables, mask, registered, capacity)
             index == ArchetypeIndex(after, mask)
             table == Archetype(mask, mask \cap registered, capacity)
  <1>1. CASE mask \in Masks(tables)
    <2>1. after = tables
      BY <1>1 DEF GetOrCreate
    <2>2. PICK i \in DOMAIN tables : tables[i].mask = mask
      BY <1>1 DEF Masks
    <2>3. index = i
      BY <2>1, <2>2, ArchetypeIndexFacts
    <2> QED
      BY <2>1, <2>2, <2>3
  <1>2. CASE mask \notin Masks(tables)
    <2>1. after = Append(tables, table)
      BY <1>2 DEF GetOrCreate
    <2>a. (mask \cap registered) \in SUBSET Nat
      OBVIOUS
    <2>b. <<>> \in Seq(Rows)
      OBVIOUS
    <2>2. /\ table \in Tables /\ table.mask = mask /\ table.rows = <<>>
          /\ table.columns = mask \cap registered
      BY <2>a, <2>b DEF Archetype, Tables
    <2> HIDE DEF table
    <2>3. tables \in Seq(Tables)
      BY DEF OneTablePerMask
    <2>4. /\ after \in Seq(Tables) /\ DOMAIN after = DOMAIN tables \cup {Len(tables) + 1}
          /\ Len(tables) + 1 \notin DOMAIN tables
          /\ \A i \in DOMAIN tables : after[i] = tables[i]
          /\ after[Len(tables) + 1] = table
      BY <2>1, <2>2, <2>3, AppendFacts
    <2> HIDE DEF after
    <2>5. \A i \in DOMAIN tables : tables[i].mask # mask
      BY <1>2 DEF Masks
    <2>6. OneTablePerMask(after)
      BY <2>2, <2>4, <2>5 DEF OneTablePerMask
    <2>7. index = Len(tables) + 1
      BY <2>2, <2>4, <2>6, ArchetypeIndexFacts
    <2> QED
      BY <1>2, <2>2, <2>4, <2>6, <2>7 DEF after
  <1> QED
    BY <1>1, <1>2

LEMMA ArchetypeMaxFacts ==
    \A m, n \in Nat : /\ ArchetypeMax(m, n) \in Nat
                       /\ ArchetypeMax(m, n) >= m /\ ArchetypeMax(m, n) >= n
  BY DEF ArchetypeMax

LEMMA ReserveRowsFacts ==
    ASSUME NEW tables \in Seq(Tables), NEW i \in DOMAIN tables, NEW capacity \in Nat
    PROVE LET after == ReserveRows(tables, i, capacity)
          IN /\ after \in Seq(Tables)
             /\ DOMAIN after = DOMAIN tables
             /\ \A k \in DOMAIN tables :
                  /\ after[k].mask = tables[k].mask /\ after[k].columns = tables[k].columns
                  /\ after[k].rows = tables[k].rows
  <1> DEFINE table == [tables[i] EXCEPT !.entity_limit = ArchetypeMax(capacity, Len(tables[i].rows))]
  <1>1. tables[i] \in Tables
    OBVIOUS
  <1>2. tables[i].rows \in Seq(Rows)
    BY <1>1 DEF Tables
  <1>2a. Len(tables[i].rows) \in Nat
    BY <1>2
  <1>3. ArchetypeMax(capacity, Len(tables[i].rows)) \in Nat
    BY <1>2a, ArchetypeMaxFacts
  <1>4. table \in Tables
    BY <1>1, <1>3 DEF Tables
  <1>5. ReserveRows(tables, i, capacity) = [tables EXCEPT ![i] = table]
    BY <1>1 DEF ReserveRows, Tables
  <1>6. /\ table.mask = tables[i].mask /\ table.columns = tables[i].columns
        /\ table.rows = tables[i].rows
    BY <1>1 DEF Tables
  <1> HIDE DEF table
  <1>7. /\ [tables EXCEPT ![i] = table] \in Seq(Tables)
        /\ DOMAIN [tables EXCEPT ![i] = table] = DOMAIN tables
        /\ \A k \in DOMAIN tables : [tables EXCEPT ![i] = table][k] = IF k = i THEN table ELSE tables[k]
    BY <1>4
  <1> QED
    BY <1>5, <1>6, <1>7

LEMMA SealArchetypesFacts ==
    ASSUME NEW tables \in Seq(Tables)
    PROVE LET after == SealArchetypes(tables)
          IN /\ after \in Seq(Tables)
             /\ DOMAIN after = DOMAIN tables
             /\ \A k \in DOMAIN tables :
                  /\ after[k].mask = tables[k].mask /\ after[k].columns = tables[k].columns
                  /\ after[k].rows = tables[k].rows
                  /\ Len(after[k].rows) <= after[k].entity_limit
  <1> DEFINE after == SealArchetypes(tables)
             table(k) == [tables[k] EXCEPT !.entity_limit =
                            ArchetypeMax(@, Len(tables[k].rows))]
  <1>1. ASSUME NEW k \in DOMAIN tables
        PROVE /\ table(k) \in Tables
              /\ table(k).mask = tables[k].mask /\ table(k).columns = tables[k].columns
              /\ table(k).rows = tables[k].rows
              /\ Len(table(k).rows) <= table(k).entity_limit
    <2>1. tables[k] \in Tables
      OBVIOUS
    <2>2. tables[k].rows \in Seq(Rows) /\ tables[k].entity_limit \in Nat
      BY <2>1 DEF Tables
    <2>a. Len(tables[k].rows) \in Nat
      BY <2>2
    <2>3. /\ ArchetypeMax(tables[k].entity_limit, Len(tables[k].rows)) \in Nat
          /\ Len(tables[k].rows) <= ArchetypeMax(tables[k].entity_limit, Len(tables[k].rows))
      BY <2>2, <2>a, ArchetypeMaxFacts
    <2> QED
      BY <2>1, <2>2, <2>3 DEF Tables
  <1>2. after = [k \in DOMAIN tables |-> table(k)]
    BY DEF SealArchetypes
  <1> HIDE DEF after, table
  <1>3. after = [k \in 1 .. Len(tables) |-> table(k)] /\ Len(tables) \in Nat
    BY <1>2
  <1>4. after \in Seq(Tables)
    BY <1>1, <1>3
  <1> QED
    BY <1>1, <1>2, <1>4 DEF after

-----------------------------------------------------------------------------
(* The operations on entities.                                             *)

\* A record written over.
LEMMA SetRecordFacts ==
    ASSUME NEW store \in Stores, NEW entity \in Ids,
           entity.index \in DOMAIN store.entity_records, NEW record \in Records
    PROVE LET after == SetRecord(store, entity, record)
          IN /\ after \in Stores
             /\ DOMAIN after.entity_records = DOMAIN store.entity_records
             /\ after.entity_records[entity.index] = record
             /\ \A j \in DOMAIN store.entity_records \ {entity.index} :
                  after.entity_records[j] = store.entity_records[j]
             /\ after.free_entity_indices = store.free_entity_indices
             /\ after.alive_entity_count = store.alive_entity_count
             /\ after.entity_capacity_limit = store.entity_capacity_limit
  <1> DEFINE records == store.entity_records
             records2 == [records EXCEPT ![entity.index] = record]
  <1>1. records \in Seq(Records)
    BY DEF Stores
  <1>2. /\ records2 \in Seq(Records) /\ DOMAIN records2 = DOMAIN records
        /\ records2[entity.index] = record
        /\ \A j \in DOMAIN records \ {entity.index} : records2[j] = records[j]
    BY <1>1
  <1>3. SetRecord(store, entity, record) = [store EXCEPT !.entity_records = records2]
    BY DEF SetRecord, Stores
  <1> HIDE DEF records2
  <1> QED
    BY <1>2, <1>3 DEF Stores

\* What a store needs: each index without a live entity is free, once.
FreeExact(store) ==
  /\ IsInjective(store.free_entity_indices)
  /\ Range(store.free_entity_indices)
       = {i \in DOMAIN store.entity_records : ~store.entity_records[i].alive}

\* A store of other records.
With(store, free, records, count) ==
  [store EXCEPT !.free_entity_indices = free, !.entity_records = records,
                !.alive_entity_count = count]

LEMMA StoreWith ==
    ASSUME NEW store \in Stores, NEW free \in Seq(Nat), NEW records \in Seq(Records),
           NEW count \in Nat
    PROVE /\ With(store, free, records, count) \in Stores
          /\ With(store, free, records, count).free_entity_indices = free
          /\ With(store, free, records, count).entity_records = records
          /\ With(store, free, records, count).alive_entity_count = count
          /\ With(store, free, records, count).entity_capacity_limit = store.entity_capacity_limit
  BY DEF Stores, With

\* A new entity of a reused or of a new index, and the record it then has.
LEMMA AcquireFacts ==
    ASSUME NEW store \in Stores, FreeExact(store),
           AcquireEntity(store).entity.index <= MaxEntities
    PROVE LET acquired == AcquireEntity(store)
              index == acquired.entity.index
              records == store.entity_records
          IN /\ acquired.entity \in Ids
             /\ acquired.store \in Stores
             /\ DOMAIN acquired.store.entity_records = DOMAIN records \cup {index}
             /\ acquired.store.entity_records[index]
                  = EntityRecord(acquired.entity.generation, TRUE)
             /\ \A j \in DOMAIN records \ {index} :
                  acquired.store.entity_records[j] = records[j]
             /\ acquired.store.alive_entity_count = store.alive_entity_count + 1
             /\ acquired.store.entity_capacity_limit = store.entity_capacity_limit
             /\ IF index \in DOMAIN records
                  THEN /\ ~records[index].alive
                       /\ records[index].generation = acquired.entity.generation
                       /\ acquired.reused_index
                       /\ store.free_entity_indices # <<>>
                       /\ index = Last(store.free_entity_indices)
                       /\ acquired.store.free_entity_indices = Front(store.free_entity_indices)
                  ELSE /\ index = Len(records) + 1 /\ acquired.entity.generation = 1
                       /\ ~acquired.reused_index
                       /\ store.free_entity_indices = <<>>
                       /\ acquired.store.free_entity_indices = <<>>
                       /\ acquired.store.entity_records = Append(records, EntityRecord(1, TRUE))
  <1> DEFINE acquired == AcquireEntity(store)
             records == store.entity_records
             free == store.free_entity_indices
             last == Last(free)
             generation == records[last].generation
             reused == [records EXCEPT ![last] = EntityRecord(generation, TRUE)]
             extended == Append(records, EntityRecord(1, TRUE))
  <1>1. records \in Seq(Records) /\ free \in Seq(Nat) /\ store.alive_entity_count + 1 \in Nat
    BY DEF Stores
  <1>2. \A g \in 1 .. LastGeneration, b \in BOOLEAN : EntityRecord(g, b) \in Records
    BY DEF EntityRecord, Records, Root
  <1>3. 1 \in 1 .. LastGeneration
    BY GenerationAssumption
  <1>4. CASE free # <<>>
    <2>1. last \in DOMAIN records /\ ~records[last].alive
      <3>1. Len(free) \in DOMAIN free /\ last = free[Len(free)]
        BY <1>1, <1>4, FrontFacts
      <3>2. last \in Range(free)
        BY <3>1 DEF Range
      <3> QED
        BY <3>2 DEF FreeExact
    <2>2. records[last] \in Records
      BY <1>1, <2>1
    <2>3. generation \in 1 .. LastGeneration
      BY <2>2 DEF Records
    <2>4. acquired = [entity |-> EntityId(last, generation), reused_index |-> TRUE,
                      store |-> [store EXCEPT !.free_entity_indices = Front(free),
                                              !.entity_records = reused,
                                              !.alive_entity_count = store.alive_entity_count + 1]]
      BY <1>4 DEF AcquireEntity, Stores
    <2> DEFINE record == EntityRecord(generation, TRUE)
    <2>5. record \in Records
      BY <1>2, <2>3
    <2>6. reused = [records EXCEPT ![last] = record]
      OBVIOUS
    <2>7. Front(free) \in Seq(Nat)
      BY <1>1, <1>4, FrontFacts
    <2>8. acquired.entity.index <= MaxEntities
      OBVIOUS
    <2> HIDE DEF acquired, last, reused, records, free, record, generation
    <2>9. /\ reused \in Seq(Records) /\ DOMAIN reused = DOMAIN records
          /\ reused[last] = record
          /\ \A j \in DOMAIN records \ {last} : reused[j] = records[j]
      BY <1>1, <2>1, <2>5, <2>6, ExceptFacts
    <2>10. /\ acquired.store \in Stores
           /\ acquired.store.entity_records = reused
           /\ acquired.store.alive_entity_count = store.alive_entity_count + 1
           /\ acquired.store.entity_capacity_limit = store.entity_capacity_limit
           /\ acquired.store.free_entity_indices = Front(free)
      <3>1. acquired.store = With(store, Front(free), reused, store.alive_entity_count + 1)
        BY <2>4 DEF With
      <3> DEFINE count == store.alive_entity_count + 1
      <3>2. count \in Nat
        BY <1>1
      <3> HIDE DEF count
      <3>3. /\ With(store, Front(free), reused, count) \in Stores
            /\ With(store, Front(free), reused, count).free_entity_indices = Front(free)
            /\ With(store, Front(free), reused, count).entity_records = reused
            /\ With(store, Front(free), reused, count).alive_entity_count = count
            /\ With(store, Front(free), reused, count).entity_capacity_limit
                 = store.entity_capacity_limit
        BY <2>7, <2>9, <3>2, StoreWith
      <3> QED
        BY <3>1, <3>3 DEF count
    <2>11. /\ acquired.entity = EntityId(last, generation) /\ acquired.reused_index
           /\ acquired.entity.index = last /\ acquired.entity.generation = generation
      BY <2>4, IdFacts
    <2>12. last \in 1 .. MaxEntities
      BY <1>1, <2>1, <2>8, <2>11
    <2>13. acquired.entity \in Ids
      BY <2>3, <2>11, <2>12, IdFacts
    <2>14. record = EntityRecord(generation, TRUE) /\ generation = records[last].generation
           /\ last = Last(free)
      BY DEF record, generation, last
    <2> QED
      BY <1>4, <2>1, <2>9, <2>10, <2>11, <2>13, <2>14 DEF acquired, records, free
  <1>5. CASE free = <<>>
    <2> DEFINE record == EntityRecord(1, TRUE)
    <2>1. record \in Records
      BY <1>2, <1>3
    <2>2. acquired = [entity |-> EntityId(Len(records) + 1, 1), reused_index |-> FALSE,
                      store |-> [store EXCEPT !.free_entity_indices = free,
                                              !.entity_records = extended,
                                              !.alive_entity_count = store.alive_entity_count + 1]]
      BY <1>5 DEF AcquireEntity, Stores
    <2>3. extended = Append(records, record)
      OBVIOUS
    <2>4. acquired.entity.index <= MaxEntities
      OBVIOUS
    <2> HIDE DEF acquired, extended, records, free, record
    <2>5. /\ extended \in Seq(Records) /\ DOMAIN extended = DOMAIN records \cup {Len(records) + 1}
          /\ Len(records) + 1 \notin DOMAIN records
          /\ extended[Len(records) + 1] = record
          /\ \A j \in DOMAIN records : extended[j] = records[j]
      BY <1>1, <2>1, <2>3, AppendFacts
    <2>6. /\ acquired.store \in Stores
          /\ acquired.store.entity_records = extended
          /\ acquired.store.alive_entity_count = store.alive_entity_count + 1
          /\ acquired.store.entity_capacity_limit = store.entity_capacity_limit
          /\ acquired.store.free_entity_indices = free
      <3>1. acquired.store = With(store, free, extended, store.alive_entity_count + 1)
        BY <2>2 DEF With
      <3> DEFINE count == store.alive_entity_count + 1
      <3>2. count \in Nat
        BY <1>1
      <3> HIDE DEF count
      <3>3. /\ With(store, free, extended, count) \in Stores
            /\ With(store, free, extended, count).free_entity_indices = free
            /\ With(store, free, extended, count).entity_records = extended
            /\ With(store, free, extended, count).alive_entity_count = count
            /\ With(store, free, extended, count).entity_capacity_limit
                 = store.entity_capacity_limit
        BY <1>1, <2>5, <3>2, StoreWith
      <3> QED
        BY <3>1, <3>3 DEF count
    <2>7. /\ acquired.entity = EntityId(Len(records) + 1, 1) /\ ~acquired.reused_index
          /\ acquired.entity.index = Len(records) + 1 /\ acquired.entity.generation = 1
      BY <2>2, IdFacts
    <2>8. Len(records) + 1 \in 1 .. MaxEntities
      <3>1. Len(records) \in Nat
        BY <1>1
      <3> QED
        BY <2>4, <2>7, <3>1
    <2>9. acquired.entity \in Ids
      BY <1>3, <2>7, <2>8, IdFacts
    <2> QED
      BY <1>5, <2>3, <2>5, <2>6, <2>7, <2>9 DEF acquired, records, free, record
  <1> QED
    BY <1>4, <1>5

\* A new entity and its row.
LEMMA FinalizeFacts ==
    ASSUME NEW acquired, acquired.store \in Stores, acquired.entity \in Ids,
           acquired.entity.index \in DOMAIN acquired.store.entity_records,
           acquired.store.entity_records[acquired.entity.index]
             = EntityRecord(acquired.entity.generation, TRUE),
           NEW archetype_index \in Nat \ {0}, NEW row \in Nat \ {0}
    PROVE LET after == FinalizeCreate(acquired, archetype_index, row)
              index == acquired.entity.index
          IN /\ after \in Stores
             /\ DOMAIN after.entity_records = DOMAIN acquired.store.entity_records
             /\ after.entity_records[index]
                  = [generation |-> acquired.entity.generation, alive |-> TRUE,
                     component_mask |-> {}, archetype_index |-> archetype_index,
                     row_in_archetype |-> row]
             /\ \A j \in DOMAIN acquired.store.entity_records \ {index} :
                  after.entity_records[j] = acquired.store.entity_records[j]
             /\ after.free_entity_indices = acquired.store.free_entity_indices
             /\ after.alive_entity_count = acquired.store.alive_entity_count
             /\ after.entity_capacity_limit = acquired.store.entity_capacity_limit
  <1> DEFINE store == acquired.store
             record == [generation |-> acquired.entity.generation, alive |-> TRUE,
                        component_mask |-> {}, archetype_index |-> archetype_index,
                        row_in_archetype |-> row]
  <1>1. record \in Records
    BY IdFacts DEF Records
  <1>2. store.entity_records \in Seq(Records)
    BY DEF Stores
  <1> DEFINE old == store.entity_records[acquired.entity.index]
             new == [old EXCEPT !.archetype_index = archetype_index, !.row_in_archetype = row]
  <1>a. old = [generation |-> acquired.entity.generation, alive |-> TRUE, component_mask |-> {},
               archetype_index |-> Root, row_in_archetype |-> 1]
    BY DEF EntityRecord
  <1> HIDE DEF old
  <1>3. new = record
    <2>a. \A records \in Seq(Records) : \A i \in DOMAIN records : records[i] \in Records
      OBVIOUS
    <2>b. old \in Records
      BY <1>2, <2>a DEF old
    <2>1. old \in Records /\ archetype_index \in Nat \ {0} /\ row \in Nat \ {0}
      BY <2>b
    <2>2. /\ new \in Records
          /\ new.generation = old.generation /\ new.alive = old.alive
          /\ new.component_mask = old.component_mask
          /\ new.archetype_index = archetype_index /\ new.row_in_archetype = row
      BY <2>1 DEF Records
    <2> HIDE DEF new
    <2>3. /\ new.generation = acquired.entity.generation /\ new.alive = TRUE
          /\ new.component_mask = {}
      BY <1>a, <2>2
    <2> QED
      BY <1>1, <2>2, <2>3 DEF Records
  <1>4. FinalizeCreate(acquired, archetype_index, row) = SetRecord(store, acquired.entity, new)
    BY <1>2 DEF FinalizeCreate, SetRecord, Stores, old
  <1> HIDE DEF record, new
  <1>5. FinalizeCreate(acquired, archetype_index, row) = SetRecord(store, acquired.entity, record)
    BY <1>3, <1>4
  <1> DEFINE after == SetRecord(store, acquired.entity, record)
  <1>6. /\ after \in Stores
        /\ DOMAIN after.entity_records = DOMAIN store.entity_records
        /\ after.entity_records[acquired.entity.index] = record
        /\ \A j \in DOMAIN store.entity_records \ {acquired.entity.index} :
             after.entity_records[j] = store.entity_records[j]
        /\ after.free_entity_indices = store.free_entity_indices
        /\ after.alive_entity_count = store.alive_entity_count
        /\ after.entity_capacity_limit = store.entity_capacity_limit
    BY <1>1, SetRecordFacts
  <1> HIDE DEF after
  <1> QED
    BY <1>5, <1>6 DEF record, after

\* A destroyed entity: a new generation, and a free index more.
LEMMA DestroyFacts ==
    ASSUME NEW store \in Stores, NEW entity \in Ids,
           entity.index \in DOMAIN store.entity_records,
           entity.generation < LastGeneration
    PROVE LET after == DestroyRecord(store, entity)
              index == entity.index
          IN /\ after \in Stores
             /\ DOMAIN after.entity_records = DOMAIN store.entity_records
             /\ after.entity_records[index] = EntityRecord(entity.generation + 1, FALSE)
             /\ \A j \in DOMAIN store.entity_records \ {index} :
                  after.entity_records[j] = store.entity_records[j]
             /\ after.free_entity_indices = Append(store.free_entity_indices, index)
             /\ after.alive_entity_count = Decrement(store.alive_entity_count)
             /\ after.entity_capacity_limit = store.entity_capacity_limit
  <1> DEFINE record == EntityRecord(entity.generation + 1, FALSE)
             records == [store.entity_records EXCEPT ![entity.index] = record]
             free == Append(store.free_entity_indices, entity.index)
             count == Decrement(store.alive_entity_count)
  <1>1. /\ store.entity_records \in Seq(Records) /\ store.free_entity_indices \in Seq(Nat)
        /\ store.alive_entity_count \in Nat
    BY DEF Stores
  <1>2. entity.generation + 1 \in 1 .. LastGeneration /\ entity.index \in Nat
    BY IdFacts, GenerationAssumption, WorldAssumption
  <1>3. record \in Records
    BY <1>2 DEF EntityRecord, Records, Root
  <1>4. free \in Seq(Nat)
    BY <1>1, <1>2
  <1>5. count \in Nat
    BY <1>1 DEF Decrement
  <1>6. NextGeneration(entity.generation) = entity.generation + 1
    BY <1>2, GenerationAssumption DEF NextGeneration
  <1>7. DestroyRecord(store, entity) = With(store, free, records, count)
    BY <1>6 DEF DestroyRecord, Stores, With
  <1> HIDE DEF record
  <1>8. /\ records \in Seq(Records) /\ DOMAIN records = DOMAIN store.entity_records
        /\ records[entity.index] = record
        /\ \A j \in DOMAIN store.entity_records \ {entity.index} :
             records[j] = store.entity_records[j]
    BY <1>1, <1>3, ExceptFacts
  <1> HIDE DEF records, free, count
  <1>9. /\ DestroyRecord(store, entity) \in Stores
        /\ DestroyRecord(store, entity).entity_records = records
        /\ DestroyRecord(store, entity).free_entity_indices = free
        /\ DestroyRecord(store, entity).alive_entity_count = count
        /\ DestroyRecord(store, entity).entity_capacity_limit = store.entity_capacity_limit
    BY <1>4, <1>5, <1>7, <1>8, StoreWith
  <1> QED
    BY <1>8, <1>9 DEF record, free, count

\* A creation taken back leaves the live entities and the free indices as they were.
LEMMA RollbackFacts ==
    ASSUME NEW store \in Stores, FreeExact(store),
           AcquireEntity(store).entity.index <= MaxEntities
    PROVE LET after == RollbackAcquire(AcquireEntity(store))
              records == store.entity_records
              index == AcquireEntity(store).entity.index
          IN /\ after \in Stores
             /\ DOMAIN after.entity_records = DOMAIN records
             /\ \A j \in DOMAIN records :
                  IF j = index
                    THEN /\ ~records[j].alive
                         /\ after.entity_records[j] = EntityRecord(records[j].generation, FALSE)
                    ELSE after.entity_records[j] = records[j]
             /\ after.free_entity_indices = store.free_entity_indices
             /\ after.alive_entity_count = store.alive_entity_count
             /\ after.entity_capacity_limit = store.entity_capacity_limit
  <1> DEFINE acquired == AcquireEntity(store)
             after == RollbackAcquire(acquired)
             records == store.entity_records
             free == store.free_entity_indices
             index == acquired.entity.index
             dead == EntityRecord(acquired.entity.generation, FALSE)
             taken == acquired.store
  <1>1. /\ records \in Seq(Records) /\ free \in Seq(Nat) /\ store.alive_entity_count \in Nat
    BY DEF Stores
  <1>2. /\ acquired.entity \in Ids /\ taken \in Stores
        /\ DOMAIN taken.entity_records = DOMAIN records \cup {index}
        /\ \A j \in DOMAIN records \ {index} : taken.entity_records[j] = records[j]
        /\ taken.alive_entity_count = store.alive_entity_count + 1
        /\ taken.entity_capacity_limit = store.entity_capacity_limit
    BY AcquireFacts
  <1>3. Decrement(taken.alive_entity_count) = store.alive_entity_count
    BY <1>1, <1>2 DEF Decrement
  <1>4. /\ taken.entity_records \in Seq(Records) /\ taken.free_entity_indices \in Seq(Nat)
    BY <1>2 DEF Stores
  <1>5. CASE index \in DOMAIN records
    <2>1. /\ ~records[index].alive /\ records[index].generation = acquired.entity.generation
          /\ acquired.reused_index /\ free # <<>> /\ index = Last(free)
          /\ taken.free_entity_indices = Front(free)
      BY <1>5, AcquireFacts
    <2> DEFINE records2 == [taken.entity_records EXCEPT ![index] = dead]
    <2>2. dead \in Records
      BY <1>2, IdFacts DEF EntityRecord, Records, Root
    <2>3. Append(taken.free_entity_indices, index) = free
      BY <1>1, <2>1, AppendToFront
    <2>4. after = With(taken, Append(taken.free_entity_indices, index), records2,
                       Decrement(taken.alive_entity_count))
      BY <1>2, <2>1 DEF RollbackAcquire, Stores, With
    <2> HIDE DEF after, taken, free, index, dead
    <2>5. /\ records2 \in Seq(Records) /\ DOMAIN records2 = DOMAIN taken.entity_records
          /\ records2[index] = dead
          /\ \A j \in DOMAIN taken.entity_records \ {index} :
               records2[j] = taken.entity_records[j]
      BY <1>2, <1>4, <2>2, ExceptFacts
    <2> HIDE DEF records2
    <2>6. after = With(taken, free, records2, store.alive_entity_count)
      BY <1>3, <2>3, <2>4
    <2>7. /\ after \in Stores /\ after.entity_records = records2
          /\ after.free_entity_indices = free
          /\ after.alive_entity_count = store.alive_entity_count
          /\ after.entity_capacity_limit = taken.entity_capacity_limit
      <3> DEFINE count == store.alive_entity_count
      <3>1. count \in Nat
        BY <1>1
      <3> HIDE DEF count
      <3>2. /\ With(taken, free, records2, count) \in Stores
            /\ With(taken, free, records2, count).free_entity_indices = free
            /\ With(taken, free, records2, count).entity_records = records2
            /\ With(taken, free, records2, count).alive_entity_count = count
            /\ With(taken, free, records2, count).entity_capacity_limit
                 = taken.entity_capacity_limit
        BY <1>1, <1>2, <2>5, <3>1, StoreWith
      <3> QED
        BY <2>6, <3>2 DEF count
    <2>8. dead = EntityRecord(records[index].generation, FALSE)
      BY <2>1 DEF dead
    <2> HIDE DEF acquired, records
    <2> QED
      BY <1>2, <1>5, <2>1, <2>5, <2>7, <2>8 DEF after, free, index, acquired, records
  <1>6. CASE index \notin DOMAIN records
    <2>1. /\ ~acquired.reused_index /\ free = <<>> /\ taken.free_entity_indices = <<>>
          /\ taken.entity_records = Append(records, EntityRecord(1, TRUE))
      BY <1>6, AcquireFacts
    <2>2. EntityRecord(1, TRUE) \in Records
      BY GenerationAssumption DEF EntityRecord, Records, Root
    <2>a. \A x \in Records : Front(Append(records, x)) = records
      BY <1>1, FrontOfAppend
    <2>3. Front(taken.entity_records) = records
      BY <2>1, <2>2, <2>a
    <2>4. after = With(taken, taken.free_entity_indices, Front(taken.entity_records),
                       Decrement(taken.alive_entity_count))
      BY <1>2, <2>1 DEF RollbackAcquire, Stores, With
    <2> HIDE DEF after, taken, index, free, records
    <2>5. after = With(taken, free, records, store.alive_entity_count)
      BY <1>3, <2>1, <2>3, <2>4
    <2>6. /\ after \in Stores /\ after.entity_records = records
          /\ after.free_entity_indices = free
          /\ after.alive_entity_count = store.alive_entity_count
          /\ after.entity_capacity_limit = taken.entity_capacity_limit
      BY <1>1, <1>2, <2>5, StoreWith
    <2> QED
      BY <1>2, <1>6, <2>6 DEF after, records, free, index
  <1> QED
    BY <1>5, <1>6

-----------------------------------------------------------------------------
(* What the operations do to the agreement of records and rows.            *)

\* Of the records only that of the moved entity changes, and of it only the row.
LEMMA FollowFacts ==
    ASSUME NEW store \in Stores, NEW tables \in Seq(Tables), Agree(store, tables),
           NEW i \in DOMAIN tables, NEW row \in DOMAIN tables[i].rows
    PROVE LET after == FollowMovedRow(store, tables, i, row)
              records == store.entity_records
          IN /\ after \in Stores
             /\ DOMAIN after.entity_records = DOMAIN records
             /\ \A j \in DOMAIN records :
                  /\ after.entity_records[j].generation = records[j].generation
                  /\ after.entity_records[j].alive = records[j].alive
                  /\ after.entity_records[j].component_mask = records[j].component_mask
                  /\ after.entity_records[j].archetype_index = records[j].archetype_index
                  /\ after.entity_records[j].row_in_archetype =
                       IF /\ records[j].alive /\ records[j].archetype_index = i
                          /\ records[j].row_in_archetype = Len(tables[i].rows)
                         THEN row ELSE records[j].row_in_archetype
             /\ after.free_entity_indices = store.free_entity_indices
             /\ after.alive_entity_count = store.alive_entity_count
             /\ after.entity_capacity_limit = store.entity_capacity_limit
  <1> DEFINE after == FollowMovedRow(store, tables, i, row)
             records == store.entity_records
             rows == tables[i].rows
             last == Len(rows)
             moved == rows[last].entity
  <1>1. tables[i] \in Tables /\ records \in Seq(Records)
    BY DEF Stores
  <1>2. rows \in Seq(Rows)
    BY <1>1 DEF Tables
  <1>3. last \in DOMAIN rows /\ last \in Nat \ {0} /\ row \in Nat \ {0}
    BY <1>2
  <1>4. rows[last] \in Rows
    BY <1>2, <1>3
  <1>5. moved \in Ids
    BY <1>4 DEF Rows
  <1>6. MovedEntity(tables, i) = moved /\ (MovesLastRow(tables, i, row) <=> row # last)
    BY DEF MovedEntity, MovesLastRow, Last
  <1>7. CASE row = last
    <2>1. after = store
      BY <1>6, <1>7 DEF FollowMovedRow
    <2> QED
      BY <1>7, <2>1
  <1>8. CASE row # last
    <2>1. Owned(store, tables, i, last)
      BY <1>3 DEF Agree, AgreeBut
    <2>2. /\ Resolves(store, moved) /\ records[moved.index].archetype_index = i
          /\ records[moved.index].row_in_archetype = last
      BY <2>1 DEF Owned, Get
    <2>3. moved.index \in DOMAIN records /\ records[moved.index].alive
      BY <2>2 DEF Resolves
    <2>4. records[moved.index] \in Records
      BY <1>1, <2>3
    <2> DEFINE record == [records[moved.index] EXCEPT !.row_in_archetype = row]
    <2>5. /\ record \in Records
          /\ record.generation = records[moved.index].generation
          /\ record.alive = records[moved.index].alive
          /\ record.component_mask = records[moved.index].component_mask
          /\ record.archetype_index = records[moved.index].archetype_index
          /\ record.row_in_archetype = row
      BY <1>3, <2>4 DEF Records
    <2>6. after = SetRecord(store, moved, record)
      BY <1>6, <1>8, <2>2 DEF FollowMovedRow, Get
    <2> HIDE DEF record, after, moved, last
    <2>7. /\ after \in Stores
          /\ DOMAIN after.entity_records = DOMAIN records
          /\ after.entity_records[moved.index] = record
          /\ \A j \in DOMAIN records \ {moved.index} : after.entity_records[j] = records[j]
          /\ after.free_entity_indices = store.free_entity_indices
          /\ after.alive_entity_count = store.alive_entity_count
          /\ after.entity_capacity_limit = store.entity_capacity_limit
      BY <1>5, <2>3, <2>5, <2>6, SetRecordFacts
    <2>8. ASSUME NEW j \in DOMAIN records, records[j].alive, records[j].archetype_index = i,
                 records[j].row_in_archetype = last
          PROVE j = moved.index
      <3>1. j \in Nat \ {0}
        BY <1>1
      <3>2. Points(store, tables, j)
        BY <2>8, <3>1 DEF Agree, AgreeBut
      <3>3. moved = EntityId(j, records[j].generation)
        BY <2>8, <3>2 DEF Points, moved
      <3> QED
        BY <3>3, IdFacts
    <2> HIDE DEF records
    <2>9. ASSUME NEW j \in DOMAIN records
          PROVE /\ after.entity_records[j].generation = records[j].generation
                /\ after.entity_records[j].alive = records[j].alive
                /\ after.entity_records[j].component_mask = records[j].component_mask
                /\ after.entity_records[j].archetype_index = records[j].archetype_index
                /\ after.entity_records[j].row_in_archetype =
                     IF /\ records[j].alive /\ records[j].archetype_index = i
                        /\ records[j].row_in_archetype = last
                       THEN row ELSE records[j].row_in_archetype
      <3>1. CASE j = moved.index
        BY <2>2, <2>3, <2>5, <2>7, <3>1
      <3>2. CASE j # moved.index
        BY <2>7, <2>8, <3>2
      <3> QED
        BY <3>1, <3>2
    <2> QED
      BY <2>7, <2>9 DEF after, records, last
  <1> QED
    BY <1>7, <1>8

\* Without its row an entity is out of step, and nobody else.
LEMMA RemovalAgrees ==
    ASSUME NEW store \in Stores, NEW tables \in Seq(Tables), Agree(store, tables),
           NEW index \in DOMAIN store.entity_records, store.entity_records[index].alive
    PROVE LET record == store.entity_records[index]
              i == record.archetype_index
              row == record.row_in_archetype
              after == FollowMovedRow(store, tables, i, row)
              left == RemoveSwapBack(tables, i, row)
          IN AgreeBut(after, left, index) /\ SameRows(store, tables, after, left, index)
  <1> DEFINE records == store.entity_records
             record == records[index]
             i == record.archetype_index
             row == record.row_in_archetype
             after == FollowMovedRow(store, tables, i, row)
             left == RemoveSwapBack(tables, i, row)
             last == Len(tables[i].rows)
             records2 == after.entity_records
  <1>1. records \in Seq(Records)
    BY DEF Stores
  <1>2. index \in Nat \ {0}
    BY <1>1
  <1>3. \A j \in DOMAIN records : records[j].alive => Points(store, tables, j)
    BY <1>1, <1>2 DEF Agree, AgreeBut
  <1>4. \A k \in DOMAIN tables, r \in Nat : r \in DOMAIN tables[k].rows => Owned(store, tables, k, r)
    BY DEF Agree, AgreeBut
  <1>5. /\ i \in DOMAIN tables /\ row \in DOMAIN tables[i].rows
        /\ tables[i].rows[row].entity = EntityId(index, record.generation)
    BY <1>3 DEF Points
  <1>6. tables[i] \in Tables
    BY <1>5
  <1>7. tables[i].rows \in Seq(Rows)
    BY <1>6 DEF Tables
  <1>8. row \in 1 .. last /\ last \in Nat \ {0}
    BY <1>5, <1>7
  <1>9. /\ DOMAIN left = DOMAIN tables
        /\ \A k \in DOMAIN tables \ {i} : left[k] = tables[k]
        /\ left[i].mask = tables[i].mask
        /\ DOMAIN left[i].rows = 1 .. last - 1
        /\ \A k \in 1 .. last - 1 :
             left[i].rows[k] = IF k = row THEN tables[i].rows[last] ELSE tables[i].rows[k]
    <2> HIDE DEF i, row
    <2> QED
      BY <1>5, RemoveRowFacts
  <1>10. /\ DOMAIN records2 = DOMAIN records
         /\ \A j \in DOMAIN records :
              /\ records2[j].generation = records[j].generation
              /\ records2[j].alive = records[j].alive
              /\ records2[j].component_mask = records[j].component_mask
              /\ records2[j].archetype_index = records[j].archetype_index
              /\ records2[j].row_in_archetype =
                   IF records[j].alive /\ records[j].archetype_index = i
                        /\ records[j].row_in_archetype = last
                     THEN row ELSE records[j].row_in_archetype
    BY <1>5, FollowFacts
  <1> HIDE DEF left, after, last, records2
  <1>11. ASSUME NEW j \in DOMAIN records, records[j].alive, j # index
         PROVE /\ Points(after, left, j)
               /\ RowOf(after, left, j) = RowOf(store, tables, j)
    <2> DEFINE a == records[j].archetype_index
               r == records[j].row_in_archetype
    <2>1. /\ a \in DOMAIN tables /\ tables[a].mask = records[j].component_mask
          /\ r \in DOMAIN tables[a].rows
          /\ tables[a].rows[r].entity = EntityId(j, records[j].generation)
      BY <1>3, <1>11 DEF Points
    <2>2. CASE a # i
      <3>1. /\ records2[j].archetype_index = a /\ records2[j].row_in_archetype = r
            /\ left[a] = tables[a]
        BY <1>9, <1>10, <2>1, <2>2
      <3> QED
        BY <1>9, <1>10, <2>1, <3>1 DEF Points, RowOf, records2
    <2>3. CASE a = i
      <3>1. r # row
        BY <1>5, <1>11, <2>1, <2>3, IdFacts
      <3>2. r \in 1 .. last
        BY <1>7, <2>1, <2>3 DEF last
      <3>3. CASE r = last
        <4>1. /\ records2[j].archetype_index = i /\ records2[j].row_in_archetype = row
              /\ row \in 1 .. last - 1 /\ left[i].rows[row] = tables[i].rows[last]
          BY <1>8, <1>9, <1>10, <1>11, <2>3, <3>1, <3>3
        <4> HIDE DEF row, i
        <4> QED
          BY <1>9, <1>10, <2>1, <2>3, <3>3, <4>1 DEF Points, RowOf, records2
      <3>4. CASE r # last
        <4>1. /\ records2[j].archetype_index = i /\ records2[j].row_in_archetype = r
              /\ r \in 1 .. last - 1 /\ left[i].rows[r] = tables[i].rows[r]
          BY <1>8, <1>9, <1>10, <1>11, <2>3, <3>1, <3>2, <3>4
        <4> HIDE DEF row, i
        <4> QED
          BY <1>9, <1>10, <2>1, <2>3, <4>1 DEF Points, RowOf, records2
      <3> QED
        BY <3>3, <3>4
    <2> QED
      BY <2>2, <2>3
  <1>12. ASSUME NEW k \in DOMAIN left, NEW r \in Nat, r \in DOMAIN left[k].rows
         PROVE Owned(after, left, k, r) /\ left[k].rows[r].entity.index # index
    <2> DEFINE from == IF k = i /\ r = row THEN last ELSE r
               entity == tables[k].rows[from].entity
    <2>1. /\ k \in DOMAIN tables /\ from \in DOMAIN tables[k].rows /\ from \in Nat
          /\ left[k].rows[r] = tables[k].rows[from]
          /\ (k = i => (r # last /\ from # row))
      <3>1. CASE k # i
        BY <1>9, <1>12, <3>1
      <3>2. CASE k = i
        <4>1. r \in 1 .. last - 1
          BY <1>9, <1>12, <3>2
        <4>2. last \in DOMAIN tables[i].rows /\ r \in DOMAIN tables[i].rows
          BY <1>7, <1>8, <4>1 DEF last
        <4> QED
          BY <1>8, <1>9, <3>2, <4>1, <4>2
      <3> QED
        BY <3>1, <3>2
    <2> HIDE DEF from
    <2>2. Owned(store, tables, k, from)
      BY <1>4, <2>1
    <2>3. /\ entity.index \in DOMAIN records /\ records[entity.index].alive
          /\ records[entity.index].generation = entity.generation
          /\ records[entity.index].archetype_index = k
          /\ records[entity.index].row_in_archetype = from
      BY <2>2 DEF Owned, Resolves, Get
    <2>4. entity.index # index
      BY <2>1, <2>3
    <2>5. records2[entity.index].row_in_archetype = r
      BY <1>10, <2>1, <2>3 DEF from
    <2>6. left[k].rows[r].entity = entity
      BY <2>1
    <2> HIDE DEF entity, i, row
    <2> QED
      BY <1>10, <2>3, <2>4, <2>5, <2>6 DEF Owned, Resolves, Get, records2
  <1> QED
    BY <1>10, <1>11, <1>12 DEF AgreeBut, SameRows, after, left, records2

\* The row an operation appends puts its entity in step again.
LEMMA PlacementAgrees ==
    ASSUME NEW store \in Stores, NEW tables \in Seq(Tables), NEW entity \in Ids,
           AgreeBut(store, tables, entity.index),
           NEW d \in DOMAIN tables,
           NEW written, \A c \in DOMAIN written : written[c] \in Values,
           NEW store2 \in Stores,
           DOMAIN store2.entity_records = DOMAIN store.entity_records \cup {entity.index},
           \A j \in DOMAIN store.entity_records \ {entity.index} :
             store2.entity_records[j] = store.entity_records[j],
           store2.entity_records[entity.index] =
             [generation |-> entity.generation, alive |-> TRUE,
              component_mask |-> tables[d].mask, archetype_index |-> d,
              row_in_archetype |-> Len(tables[d].rows) + 1]
    PROVE LET tables2 == AppendRow(tables, d, entity, written)
          IN /\ Agree(store2, tables2)
             /\ SameRows(store, tables, store2, tables2, entity.index)
             /\ RowOf(store2, tables2, entity.index) =
                  [entity |-> entity,
                   values |-> [c \in tables[d].columns |->
                                 IF c \in DOMAIN written THEN written[c] ELSE ZeroValue]]
  <1> DEFINE tables2 == AppendRow(tables, d, entity, written)
             records == store.entity_records
             records2 == store2.entity_records
             index == entity.index
             new == Len(tables[d].rows) + 1
             row == [entity |-> entity,
                     values |-> [c \in tables[d].columns |->
                                   IF c \in DOMAIN written THEN written[c] ELSE ZeroValue]]
  <1>1. tables[d] \in Tables
    OBVIOUS
  <1>2. tables[d].rows \in Seq(Rows)
    BY <1>1 DEF Tables
  <1>3. /\ tables2 \in Seq(Tables) /\ DOMAIN tables2 = DOMAIN tables
        /\ \A k \in DOMAIN tables \ {d} : tables2[k] = tables[k]
        /\ tables2[d].mask = tables[d].mask
        /\ tables2[d].rows = Append(tables[d].rows, row)
    BY AppendRowFacts
  <1>4. tables2[d] \in Tables
    BY <1>3
  <1>5. tables2[d].rows \in Seq(Rows)
    BY <1>4 DEF Tables
  <1> HIDE DEF row
  <1>6. /\ DOMAIN tables2[d].rows = DOMAIN tables[d].rows \cup {new} /\ new \notin DOMAIN tables[d].rows
        /\ \A r \in DOMAIN tables[d].rows : tables2[d].rows[r] = tables[d].rows[r]
        /\ tables2[d].rows[new] = row
    BY <1>2, <1>3, <1>5
  <1>7. /\ entity = EntityId(index, entity.generation) /\ index \in Nat \ {0}
    BY IdFacts
  <1>8. /\ records2[index].generation = entity.generation /\ records2[index].alive
        /\ records2[index].component_mask = tables[d].mask
        /\ records2[index].archetype_index = d /\ records2[index].row_in_archetype = new
    OBVIOUS
  <1>9. /\ DOMAIN records2 = DOMAIN records \cup {index}
        /\ \A j \in DOMAIN records \ {index} : records2[j] = records[j]
    OBVIOUS
  <1>10. row.entity = entity
    BY DEF row
  <1>11. /\ \A j \in DOMAIN records : records[j].alive /\ j # index => Points(store, tables, j)
         /\ \A k \in DOMAIN tables, r \in Nat :
              r \in DOMAIN tables[k].rows =>
                Owned(store, tables, k, r) /\ tables[k].rows[r].entity.index # index
    BY DEF AgreeBut
  <1> HIDE DEF tables2, index, new
  <1>12. Points(store2, tables2, index) /\ RowOf(store2, tables2, index) = row
    BY <1>3, <1>6, <1>7, <1>8, <1>10 DEF Points, RowOf
  <1>13. ASSUME NEW j \in DOMAIN records, records[j].alive, j # index
         PROVE Points(store2, tables2, j) /\ RowOf(store2, tables2, j) = RowOf(store, tables, j)
    <2>1. Points(store, tables, j) /\ records2[j] = records[j]
      BY <1>9, <1>11, <1>13
    <2> DEFINE a == records[j].archetype_index
               r == records[j].row_in_archetype
    <2>2. /\ a \in DOMAIN tables /\ tables[a].mask = records[j].component_mask
          /\ r \in DOMAIN tables[a].rows
          /\ tables[a].rows[r].entity = EntityId(j, records[j].generation)
      BY <2>1 DEF Points
    <2>3. /\ tables2[a].mask = tables[a].mask /\ r \in DOMAIN tables2[a].rows
          /\ tables2[a].rows[r] = tables[a].rows[r]
      <3>1. CASE a = d
        BY <1>3, <1>6, <2>2, <3>1
      <3>2. CASE a # d
        BY <1>3, <2>2, <3>2
      <3> QED
        BY <3>1, <3>2
    <2> QED
      BY <1>3, <2>1, <2>2, <2>3 DEF Points, RowOf
  <1>14. ASSUME NEW k \in DOMAIN tables2, NEW r \in Nat, r \in DOMAIN tables2[k].rows
         PROVE /\ Owned(store2, tables2, k, r)
               /\ tables2[k].rows[r].entity.index # 0
    <2>1. CASE k = d /\ r = new
      <3>1. tables2[k].rows[r].entity = entity
        BY <1>6, <1>10, <2>1
      <3> QED
        BY <1>7, <1>8, <1>9, <2>1, <3>1 DEF Owned, Resolves, Get, index
    <2>2. CASE ~(k = d /\ r = new)
      <3>1. /\ k \in DOMAIN tables /\ r \in DOMAIN tables[k].rows
            /\ tables2[k].rows[r] = tables[k].rows[r]
        BY <1>3, <1>6, <1>14, <2>2
      <3> DEFINE x == tables[k].rows[r].entity
      <3>2. Owned(store, tables, k, r) /\ x.index # index
        BY <1>11, <3>1
      <3>3. /\ x.index \in DOMAIN records /\ records[x.index].alive
            /\ records[x.index].generation = x.generation
            /\ records[x.index].archetype_index = k /\ records[x.index].row_in_archetype = r
        BY <3>2 DEF Owned, Resolves, Get
      <3>4. records2[x.index] = records[x.index] /\ x.index \in DOMAIN records2
        BY <1>9, <3>2, <3>3
      <3>5. x.index # 0
        <4>1. records \in Seq(Records)
          BY DEF Stores
        <4> QED
          BY <3>3, <4>1
      <3>6. tables2[k].rows[r].entity = x
        BY <3>1
      <3> HIDE DEF x
      <3> QED
        BY <3>3, <3>4, <3>5, <3>6 DEF Owned, Resolves, Get
    <2> QED
      BY <2>1, <2>2
  <1>15. \A j \in DOMAIN records2 : records2[j].alive => Points(store2, tables2, j)
    <2> TAKE j \in DOMAIN records2
    <2>1. CASE j = index
      BY <1>12, <2>1
    <2>2. CASE j # index
      <3>1. j \in DOMAIN records /\ records2[j] = records[j]
        BY <1>9, <2>2
      <3> QED
        BY <1>13, <2>2, <3>1
    <2> QED
      BY <2>1, <2>2
  <1> QED
    BY <1>12, <1>13, <1>14, <1>15 DEF Agree, AgreeBut, SameRows, tables2, index, row

\* A dead entity needs no row.
LEMMA BurialAgrees ==
    ASSUME NEW store, NEW tables, NEW index, AgreeBut(store, tables, index),
           NEW store2 \in Stores, index \in DOMAIN store2.entity_records,
           DOMAIN store2.entity_records = DOMAIN store.entity_records,
           ~store2.entity_records[index].alive,
           \A j \in DOMAIN store.entity_records \ {index} :
             store2.entity_records[j] = store.entity_records[j]
    PROVE Agree(store2, tables) /\ SameRows(store, tables, store2, tables, index)
  <1> DEFINE records == store.entity_records
             records2 == store2.entity_records
  <1>1. records2 \in Seq(Records)
    BY DEF Stores
  <1>2. \A j \in DOMAIN records2 : j # 0
    BY <1>1
  <1>3. /\ \A j \in DOMAIN records : records[j].alive /\ j # index => Points(store, tables, j)
        /\ \A k \in DOMAIN tables, r \in Nat :
              r \in DOMAIN tables[k].rows =>
                Owned(store, tables, k, r) /\ tables[k].rows[r].entity.index # index
    BY DEF AgreeBut
  <1>4. ASSUME NEW j \in DOMAIN records2, records2[j].alive
        PROVE Points(store2, tables, j)
    <2>1. j # index /\ j \in DOMAIN records /\ records2[j] = records[j]
      BY <1>4
    <2> QED
      BY <1>3, <1>4, <2>1 DEF Points
  <1>5. ASSUME NEW k \in DOMAIN tables, NEW r \in Nat, r \in DOMAIN tables[k].rows
        PROVE Owned(store2, tables, k, r) /\ tables[k].rows[r].entity.index # 0
    <2> DEFINE x == tables[k].rows[r].entity
    <2>1. Owned(store, tables, k, r) /\ x.index # index
      BY <1>3, <1>5
    <2>2. x.index \in DOMAIN records
      BY <2>1 DEF Owned, Resolves
    <2>3. records2[x.index] = records[x.index] /\ x.index \in DOMAIN records2 /\ x.index # 0
      BY <1>2, <2>1, <2>2
    <2> QED
      BY <2>1, <2>3 DEF Owned, Resolves, Get
  <1>6. SameRows(store, tables, store2, tables, index)
    <2> SUFFICES ASSUME NEW j \in DOMAIN records, j # index
                 PROVE RowOf(store2, tables, j) = RowOf(store, tables, j)
      BY DEF SameRows
    <2>1. records2[j] = records[j]
      OBVIOUS
    <2> QED
      BY <2>1 DEF RowOf
  <1> QED
    BY <1>4, <1>5, <1>6 DEF Agree, AgreeBut

\* Archetypes may be added, reserved and sealed.
LEMMA ExtensionAgrees ==
    ASSUME NEW store, NEW tables, NEW index, AgreeBut(store, tables, index), NEW tables2,
           DOMAIN tables \subseteq DOMAIN tables2,
           \A k \in DOMAIN tables : /\ tables2[k].mask = tables[k].mask
                                    /\ tables2[k].rows = tables[k].rows,
           \A k \in DOMAIN tables2 \ DOMAIN tables : tables2[k].rows = <<>>
    PROVE AgreeBut(store, tables2, index) /\ SameRows(store, tables, store, tables2, index)
  <1>1. ASSUME NEW j \in DOMAIN store.entity_records, store.entity_records[j].alive, j # index
        PROVE Points(store, tables2, j) /\ RowOf(store, tables2, j) = RowOf(store, tables, j)
    <2>1. Points(store, tables, j)
      BY <1>1 DEF AgreeBut
    <2>2. store.entity_records[j].archetype_index \in DOMAIN tables
      BY <2>1 DEF Points
    <2> QED
      BY <2>1, <2>2 DEF Points, RowOf
  <1>2. ASSUME NEW k \in DOMAIN tables2, NEW r \in Nat, r \in DOMAIN tables2[k].rows
        PROVE Owned(store, tables2, k, r) /\ tables2[k].rows[r].entity.index # index
    <2>1. k \in DOMAIN tables
      <3>1. DOMAIN <<>> = {}
        OBVIOUS
      <3> QED
        BY <1>2, <3>1
    <2>2. tables2[k].rows = tables[k].rows
      BY <2>1
    <2>3. Owned(store, tables, k, r) /\ tables[k].rows[r].entity.index # index
      BY <1>2, <2>1, <2>2 DEF AgreeBut
    <2> QED
      BY <2>2, <2>3 DEF Owned
  <1> QED
    BY <1>1, <1>2 DEF AgreeBut, SameRows

-----------------------------------------------------------------------------
(* Counting the live entities.                                             *)

CountExact(store) ==
  /\ IsFiniteSet(LiveEntities(store))
  /\ store.alive_entity_count = Cardinality(LiveEntities(store))

LEMMA LiveFacts ==
    ASSUME NEW store
    PROVE /\ \A j \in DOMAIN store.entity_records :
               store.entity_records[j].alive =>
                 EntityId(j, store.entity_records[j].generation) \in LiveEntities(store)
          /\ \A x \in LiveEntities(store) :
               /\ x.index \in DOMAIN store.entity_records
               /\ store.entity_records[x.index].alive
               /\ store.entity_records[x.index].generation = x.generation
               /\ x = EntityId(x.index, x.generation)
  BY IdFacts DEF LiveEntities

\* An entity more.
LEMMA LiveCreated ==
    ASSUME NEW store, NEW store2, NEW entity,
           entity = EntityId(entity.index, entity.generation),
           DOMAIN store2.entity_records = DOMAIN store.entity_records \cup {entity.index},
           entity.index \in DOMAIN store.entity_records =>
             ~store.entity_records[entity.index].alive,
           store2.entity_records[entity.index].alive,
           store2.entity_records[entity.index].generation = entity.generation,
           \A j \in DOMAIN store.entity_records \ {entity.index} :
             store2.entity_records[j] = store.entity_records[j]
    PROVE /\ entity \notin LiveEntities(store)
          /\ LiveEntities(store2) = LiveEntities(store) \cup {entity}
  <1>1. entity \notin LiveEntities(store)
    BY LiveFacts
  <1>2. ASSUME NEW x \in LiveEntities(store) PROVE x \in LiveEntities(store2)
    <2>1. /\ x.index \in DOMAIN store.entity_records /\ store.entity_records[x.index].alive
          /\ store.entity_records[x.index].generation = x.generation
          /\ x = EntityId(x.index, x.generation)
      BY LiveFacts
    <2>2. x.index \in DOMAIN store2.entity_records
          /\ store2.entity_records[x.index] = store.entity_records[x.index]
      BY <2>1
    <2> QED
      BY <2>1, <2>2, LiveFacts
  <1>3. ASSUME NEW x \in LiveEntities(store2), x # entity PROVE x \in LiveEntities(store)
    <2>1. /\ x.index \in DOMAIN store2.entity_records /\ store2.entity_records[x.index].alive
          /\ store2.entity_records[x.index].generation = x.generation
          /\ x = EntityId(x.index, x.generation)
      BY LiveFacts
    <2>2. x.index # entity.index
      BY <1>3, <2>1
    <2>3. x.index \in DOMAIN store.entity_records
          /\ store2.entity_records[x.index] = store.entity_records[x.index]
      BY <2>1, <2>2
    <2> QED
      BY <2>1, <2>3, LiveFacts
  <1>4. entity \in LiveEntities(store2)
    BY LiveFacts
  <1>5. LiveEntities(store2) = LiveEntities(store) \cup {entity}
    BY <1>2, <1>3, <1>4
  <1> QED
    BY <1>1, <1>5

LEMMA CountCreated ==
    ASSUME NEW store, NEW store2, NEW entity, CountExact(store),
           entity \notin LiveEntities(store),
           LiveEntities(store2) = LiveEntities(store) \cup {entity},
           store2.alive_entity_count = store.alive_entity_count + 1
    PROVE CountExact(store2)
  BY FS_AddElement DEF CountExact

\* An entity less.
LEMMA LiveDestroyed ==
    ASSUME NEW store, NEW store2, NEW entity, Resolves(store, entity),
           entity = EntityId(entity.index, entity.generation),
           DOMAIN store2.entity_records = DOMAIN store.entity_records,
           ~store2.entity_records[entity.index].alive,
           \A j \in DOMAIN store.entity_records \ {entity.index} :
             /\ store2.entity_records[j].alive = store.entity_records[j].alive
             /\ store2.entity_records[j].generation = store.entity_records[j].generation
    PROVE /\ entity \in LiveEntities(store)
          /\ LiveEntities(store2) = LiveEntities(store) \ {entity}
  <1>1. entity \in LiveEntities(store)
    BY LiveFacts DEF Resolves
  <1>2. ASSUME NEW x \in LiveEntities(store), x # entity PROVE x \in LiveEntities(store2)
    <2>1. /\ x.index \in DOMAIN store.entity_records /\ store.entity_records[x.index].alive
          /\ store.entity_records[x.index].generation = x.generation
          /\ x = EntityId(x.index, x.generation)
      BY LiveFacts
    <2>2. x.index # entity.index
      BY <1>2, <2>1 DEF Resolves
    <2> QED
      BY <2>1, <2>2, LiveFacts
  <1>3. ASSUME NEW x \in LiveEntities(store2) PROVE x \in LiveEntities(store) /\ x # entity
    <2>1. /\ x.index \in DOMAIN store2.entity_records /\ store2.entity_records[x.index].alive
          /\ store2.entity_records[x.index].generation = x.generation
          /\ x = EntityId(x.index, x.generation)
      BY LiveFacts
    <2>2. x.index # entity.index
      BY <2>1
    <2> QED
      BY <2>1, <2>2, LiveFacts
  <1>4. LiveEntities(store2) = LiveEntities(store) \ {entity}
    BY <1>2, <1>3
  <1> QED
    BY <1>1, <1>4

LEMMA CountDestroyed ==
    ASSUME NEW store, NEW store2, NEW entity, CountExact(store),
           entity \in LiveEntities(store),
           LiveEntities(store2) = LiveEntities(store) \ {entity},
           store2.alive_entity_count = Decrement(store.alive_entity_count)
    PROVE CountExact(store2)
  <1>1. Cardinality(LiveEntities(store)) \in Nat
    BY FS_CardinalityType DEF CountExact
  <1>2. Cardinality(LiveEntities(store)) # 0
    BY FS_EmptySet DEF CountExact
  <1>3. /\ IsFiniteSet(LiveEntities(store2))
        /\ Cardinality(LiveEntities(store2)) = Cardinality(LiveEntities(store)) - 1
    BY FS_RemoveElement DEF CountExact
  <1> QED
    BY <1>1, <1>2, <1>3 DEF CountExact, Decrement

\* The same entities, in other places.
LEMMA CountKept ==
    ASSUME NEW store, NEW store2, CountExact(store),
           DOMAIN store2.entity_records = DOMAIN store.entity_records,
           \A j \in DOMAIN store.entity_records :
             /\ store2.entity_records[j].alive = store.entity_records[j].alive
             /\ store2.entity_records[j].alive =>
                  store2.entity_records[j].generation = store.entity_records[j].generation,
           store2.alive_entity_count = store.alive_entity_count
    PROVE CountExact(store2) /\ LiveEntities(store2) = LiveEntities(store)
  <1>1. ASSUME NEW x \in LiveEntities(store) PROVE x \in LiveEntities(store2)
    BY LiveFacts
  <1>2. ASSUME NEW x \in LiveEntities(store2) PROVE x \in LiveEntities(store)
    BY LiveFacts
  <1>3. LiveEntities(store2) = LiveEntities(store)
    BY <1>1, <1>2
  <1> QED
    BY <1>3 DEF CountExact

-----------------------------------------------------------------------------
(* The invariant.                                                          *)

StoreOK(store) ==
  /\ store \in Stores
  /\ FreeExact(store)
  /\ CountExact(store)
  /\ \A j \in DOMAIN store.entity_records : j <= MaxEntities

RegistryOK ==
  /\ component_types \in Seq(Types)
  /\ IsInjective(component_types)
  /\ Len(component_types) <= MaxComponentTypes

\* What the limits allow, once they bind.
LimitsOK ==
  /\ runtime_sealed \in BOOLEAN
  /\ runtime_sealed => entity_store.alive_entity_count <= entity_store.entity_capacity_limit
  /\ runtime_sealed =>
       \A i \in DOMAIN archetypes : Len(archetypes[i].rows) <= archetypes[i].entity_limit

MasksRegistered ==
  \A j \in DOMAIN entity_store.entity_records :
    entity_store.entity_records[j].component_mask \subseteq DOMAIN component_types

WorldInv ==
  /\ RegistryOK
  /\ StoreOK(entity_store)
  /\ OneTablePerMask(archetypes)
  /\ Agree(entity_store, archetypes)
  /\ LimitsOK
  /\ MasksRegistered

LEMMA WorldInitially == Init => WorldInv
  <1> SUFFICES ASSUME Init PROVE WorldInv
    OBVIOUS
  <1> DEFINE limit == ArchetypeMax(InitialArchetypeEntityCapacity, InitialEntityCapacity)
  <1>1. limit \in Nat
    BY ArchetypeMaxFacts, WorldAssumption
  <1>2. /\ entity_store.entity_records = <<>> /\ entity_store.free_entity_indices = <<>>
        /\ entity_store.alive_entity_count = 0
        /\ entity_store.entity_capacity_limit = InitialEntityCapacity
    BY DEF Init, EmptyStore
  <1>3. entity_store \in Stores
    BY WorldAssumption DEF Init, EmptyStore, Stores
  <1>4. FreeExact(entity_store)
    BY <1>2 DEF FreeExact, IsInjective, Range
  <1>5. LiveEntities(entity_store) = {}
    BY <1>2 DEF LiveEntities
  <1>6. CountExact(entity_store)
    BY <1>2, <1>5, FS_EmptySet DEF CountExact
  <1>7. StoreOK(entity_store)
    BY <1>2, <1>3, <1>4, <1>6 DEF StoreOK
  <1>8. archetypes = <<Archetype({}, {}, limit)>>
    BY DEF Init
  <1> HIDE DEF limit
  <1>9. Archetype({}, {}, limit) \in Tables
    <2>1. <<>> \in Seq(Rows)
      OBVIOUS
    <2> QED
      BY <1>1, <2>1 DEF Archetype, Tables
  <1>10. /\ archetypes \in Seq(Tables) /\ DOMAIN archetypes = {1}
         /\ archetypes[1].mask = {} /\ archetypes[1].rows = <<>>
    BY <1>8, <1>9 DEF Archetype
  <1>11. OneTablePerMask(archetypes)
    BY <1>10 DEF OneTablePerMask, Root
  <1>12. Agree(entity_store, archetypes)
    BY <1>2, <1>10 DEF Agree, AgreeBut
  <1>13. RegistryOK
    BY WorldAssumption DEF Init, RegistryOK, IsInjective
  <1>14. LimitsOK
    BY DEF Init, LimitsOK
  <1>15. MasksRegistered
    BY <1>2 DEF MasksRegistered
  <1> QED
    BY <1>7, <1>11, <1>12, <1>13, <1>14, <1>15 DEF WorldInv

-----------------------------------------------------------------------------
(* The free indices.                                                       *)

LEMMA FreeTaken ==
    ASSUME NEW free \in Seq(Nat), free # <<>>, IsInjective(free)
    PROVE /\ IsInjective(Front(free))
          /\ Range(Front(free)) = Range(free) \ {Last(free)}
  <1> DEFINE last == Len(free)
             front == Front(free)
  <1>1. /\ front \in Seq(Nat) /\ DOMAIN front = 1 .. last - 1 /\ DOMAIN free = 1 .. last
        /\ \A i \in 1 .. last - 1 : front[i] = free[i]
        /\ last \in DOMAIN free /\ Last(free) = free[last] /\ last \in Nat
    <2>1. DOMAIN free = 1 .. last /\ last \in Nat
      OBVIOUS
    <2> QED
      BY <2>1, FrontFacts
  <1> HIDE DEF last, front
  <1>2. \A i \in 1 .. last - 1 : i \in DOMAIN free /\ i # last
    BY <1>1
  <1>3. \A i \in DOMAIN free : i # last => i \in 1 .. last - 1
    BY <1>1
  <1>4. IsInjective(front)
    BY <1>1, <1>2 DEF IsInjective
  <1>5. ASSUME NEW x \in Range(front) PROVE x \in Range(free) \ {Last(free)}
    <2>1. PICK i \in 1 .. last - 1 : x = free[i]
      BY <1>1, <1>5 DEF Range
    <2> QED
      BY <1>1, <1>2, <2>1 DEF Range, IsInjective
  <1>6. ASSUME NEW x \in Range(free) \ {Last(free)} PROVE x \in Range(front)
    <2>1. PICK i \in DOMAIN free : x = free[i]
      BY <1>6 DEF Range
    <2>2. i \in 1 .. last - 1
      BY <1>1, <1>3, <1>6, <2>1
    <2> QED
      BY <1>1, <2>1, <2>2 DEF Range
  <1> QED
    BY <1>4, <1>5, <1>6 DEF front

LEMMA FreeGiven ==
    ASSUME NEW free \in Seq(Nat), IsInjective(free), NEW index \in Nat, index \notin Range(free)
    PROVE /\ IsInjective(Append(free, index))
          /\ Range(Append(free, index)) = Range(free) \cup {index}
  <1> DEFINE longer == Append(free, index)
             new == Len(free) + 1
  <1>1. /\ DOMAIN longer = DOMAIN free \cup {new} /\ new \notin DOMAIN free
        /\ \A i \in DOMAIN free : longer[i] = free[i]
        /\ longer[new] = index
    OBVIOUS
  <1> HIDE DEF longer, new
  <1>2. \A i \in DOMAIN free : free[i] # index
    BY DEF Range
  <1>3. IsInjective(longer)
    BY <1>1, <1>2 DEF IsInjective
  <1>4. Range(longer) = Range(free) \cup {index}
    BY <1>1 DEF Range
  <1> QED
    BY <1>3, <1>4 DEF longer

LEMMA AgreeButDead ==
    ASSUME NEW store, NEW tables, Agree(store, tables), NEW index,
           index \in DOMAIN store.entity_records => ~store.entity_records[index].alive,
           0 \notin DOMAIN store.entity_records
    PROVE AgreeBut(store, tables, index)
  <1>1. \A j \in DOMAIN store.entity_records :
          store.entity_records[j].alive => Points(store, tables, j)
    BY DEF Agree, AgreeBut
  <1>2. ASSUME NEW i \in DOMAIN tables, NEW row \in Nat, row \in DOMAIN tables[i].rows
        PROVE Owned(store, tables, i, row) /\ tables[i].rows[row].entity.index # index
    <2>1. Owned(store, tables, i, row)
      BY <1>2 DEF Agree, AgreeBut
    <2> QED
      BY <2>1 DEF Owned, Resolves
  <1> QED
    BY <1>1, <1>2 DEF AgreeBut

-----------------------------------------------------------------------------
(* One lemma for each action.                                              *)

\* A new entity has a row of the root archetype, without components.
LEMMA CreateKeeps ==
    ASSUME WorldInv, CreateEntity
    PROVE LET entity == AcquireEntity(entity_store).entity
          IN /\ WorldInv'
             /\ entity \in Ids
             /\ entity.index \in DOMAIN entity_store.entity_records =>
                  /\ ~entity_store.entity_records[entity.index].alive
                  /\ entity_store.entity_records[entity.index].generation = entity.generation
             /\ entity.index \notin DOMAIN entity_store.entity_records => entity.generation = 1
             /\ DOMAIN entity_store'.entity_records
                  = DOMAIN entity_store.entity_records \cup {entity.index}
             /\ \A j \in DOMAIN entity_store.entity_records \ {entity.index} :
                  entity_store'.entity_records[j] = entity_store.entity_records[j]
             /\ entity_store'.entity_records[entity.index].alive
             /\ entity_store'.entity_records[entity.index].generation = entity.generation
             /\ entity_store'.entity_records[entity.index].component_mask = {}
             /\ SameRows(entity_store, archetypes, entity_store', archetypes', entity.index)
             /\ CompleteColumns(archetypes) => CompleteColumns(archetypes')
             /\ UNCHANGED component_types
  <1> DEFINE store == entity_store
             acquired == AcquireEntity(store)
             entity == acquired.entity
             index == entity.index
             records == store.entity_records
             rows == archetypes[Root].rows
             store2 == FinalizeCreate(acquired, Root, Len(rows) + 1)
  <1>1. /\ store \in Stores /\ FreeExact(store) /\ CountExact(store)
        /\ \A j \in DOMAIN records : j <= MaxEntities
        /\ OneTablePerMask(archetypes) /\ Agree(store, archetypes)
    BY DEF WorldInv, StoreOK
  <1>2. /\ CanCreate(store, runtime_sealed) /\ HasRoom(archetypes[Root], runtime_sealed)
        /\ index <= MaxEntities
        /\ entity_store' = store2
        /\ archetypes' = AppendRow(archetypes, Root, entity, <<>>)
        /\ UNCHANGED <<runtime_sealed, component_types>>
    BY DEF CreateEntity, WithinBounds
  <1>3. /\ records \in Seq(Records) /\ store.alive_entity_count \in Nat
        /\ store.free_entity_indices \in Seq(Nat) /\ store.entity_capacity_limit \in Nat
    BY <1>1 DEF Stores
  <1>4. /\ archetypes \in Seq(Tables) /\ Root \in DOMAIN archetypes /\ archetypes[Root].mask = {}
    BY <1>1 DEF OneTablePerMask
  <1>5. archetypes[Root] \in Tables
    BY <1>4
  <1>6. rows \in Seq(Rows) /\ archetypes[Root].entity_limit \in Nat
    BY <1>5 DEF Tables
  <1>7. Len(rows) \in Nat /\ Len(rows) + 1 \in Nat \ {0}
    BY <1>6
  <1>8. /\ entity \in Ids
        /\ acquired.store \in Stores
        /\ DOMAIN acquired.store.entity_records = DOMAIN records \cup {index}
        /\ acquired.store.entity_records[index] = EntityRecord(entity.generation, TRUE)
        /\ \A j \in DOMAIN records \ {index} : acquired.store.entity_records[j] = records[j]
        /\ acquired.store.alive_entity_count = store.alive_entity_count + 1
        /\ acquired.store.entity_capacity_limit = store.entity_capacity_limit
        /\ IF index \in DOMAIN records
             THEN /\ ~records[index].alive /\ records[index].generation = entity.generation
                  /\ store.free_entity_indices # <<>>
                  /\ index = Last(store.free_entity_indices)
                  /\ acquired.store.free_entity_indices = Front(store.free_entity_indices)
             ELSE /\ entity.generation = 1
                  /\ store.free_entity_indices = <<>>
                  /\ acquired.store.free_entity_indices = <<>>
    BY <1>1, <1>2, AcquireFacts
  <1> HIDE DEF acquired, store2, records
  <1>9. /\ store2 \in Stores
        /\ DOMAIN store2.entity_records = DOMAIN records \cup {index}
        /\ store2.entity_records[index]
             = [generation |-> entity.generation, alive |-> TRUE, component_mask |-> {},
                archetype_index |-> Root, row_in_archetype |-> Len(rows) + 1]
        /\ \A j \in DOMAIN records \ {index} : store2.entity_records[j] = records[j]
        /\ store2.free_entity_indices = acquired.store.free_entity_indices
        /\ store2.alive_entity_count = store.alive_entity_count + 1
        /\ store2.entity_capacity_limit = store.entity_capacity_limit
    <2> DEFINE place == Len(rows) + 1
    <2>1. place \in Nat \ {0} /\ Root \in Nat \ {0} /\ index \in DOMAIN acquired.store.entity_records
      BY <1>7, <1>8 DEF Root
    <2>2. store2 = FinalizeCreate(acquired, Root, place)
      BY DEF store2
    <2> HIDE DEF place
    <2>3. /\ store2 \in Stores
          /\ DOMAIN store2.entity_records = DOMAIN acquired.store.entity_records
          /\ store2.entity_records[index]
               = [generation |-> entity.generation, alive |-> TRUE, component_mask |-> {},
                  archetype_index |-> Root, row_in_archetype |-> place]
          /\ \A j \in DOMAIN acquired.store.entity_records \ {index} :
               store2.entity_records[j] = acquired.store.entity_records[j]
          /\ store2.free_entity_indices = acquired.store.free_entity_indices
          /\ store2.alive_entity_count = acquired.store.alive_entity_count
          /\ store2.entity_capacity_limit = acquired.store.entity_capacity_limit
      <3>1. /\ acquired.store \in Stores /\ acquired.entity \in Ids
            /\ acquired.entity.index \in DOMAIN acquired.store.entity_records
            /\ acquired.store.entity_records[acquired.entity.index]
                 = EntityRecord(acquired.entity.generation, TRUE)
            /\ Root \in Nat \ {0} /\ place \in Nat \ {0}
        BY <1>8, <2>1
      <3> DEFINE after == FinalizeCreate(acquired, Root, place)
      <3>2. /\ after \in Stores
            /\ DOMAIN after.entity_records = DOMAIN acquired.store.entity_records
            /\ after.entity_records[acquired.entity.index]
                 = [generation |-> acquired.entity.generation, alive |-> TRUE,
                    component_mask |-> {}, archetype_index |-> Root,
                    row_in_archetype |-> place]
            /\ \A j \in DOMAIN acquired.store.entity_records \ {acquired.entity.index} :
                 after.entity_records[j] = acquired.store.entity_records[j]
            /\ after.free_entity_indices = acquired.store.free_entity_indices
            /\ after.alive_entity_count = acquired.store.alive_entity_count
            /\ after.entity_capacity_limit = acquired.store.entity_capacity_limit
        BY <3>1, FinalizeFacts
      <3> QED
        BY <2>2, <3>2
    <2> QED
      BY <1>8, <2>3 DEF place
  <1>10. /\ store2.entity_records[index].alive
         /\ store2.entity_records[index].generation = entity.generation
         /\ store2.entity_records[index].component_mask = {}
    BY <1>9
  <1>11. AgreeBut(store, archetypes, index)
    <2>1. 0 \notin DOMAIN records
      BY <1>3
    <2> QED
      BY <1>1, <1>8, <2>1, AgreeButDead DEF records
  <1>12. /\ Agree(store2, AppendRow(archetypes, Root, entity, <<>>))
         /\ SameRows(store, archetypes, store2, AppendRow(archetypes, Root, entity, <<>>), index)
    <2>1. DOMAIN <<>> = {}
      OBVIOUS
    <2> QED
      BY <1>1, <1>4, <1>8, <1>9, <1>11, <2>1, PlacementAgrees DEF records
  <1>13. /\ archetypes' \in Seq(Tables) /\ DOMAIN archetypes' = DOMAIN archetypes
         /\ \A k \in DOMAIN archetypes \ {Root} : archetypes'[k] = archetypes[k]
         /\ archetypes'[Root].mask = {}
         /\ archetypes'[Root].entity_limit = archetypes[Root].entity_limit
         /\ Len(archetypes'[Root].rows) = Len(rows) + 1
    <2>1. DOMAIN <<>> = {}
      OBVIOUS
    <2> DEFINE row == [entity |-> entity,
                       values |-> [c \in archetypes[Root].columns |->
                                     IF c \in DOMAIN <<>> THEN <<>>[c] ELSE ZeroValue]]
    <2>2. /\ archetypes' \in Seq(Tables) /\ DOMAIN archetypes' = DOMAIN archetypes
          /\ \A k \in DOMAIN archetypes \ {Root} : archetypes'[k] = archetypes[k]
          /\ archetypes'[Root].mask = archetypes[Root].mask
          /\ archetypes'[Root].entity_limit = archetypes[Root].entity_limit
          /\ archetypes'[Root].rows = Append(rows, row)
      BY <1>2, <1>4, <1>8, <2>1, AppendRowFacts
    <2> HIDE DEF row
    <2> QED
      BY <1>4, <1>6, <2>2
  <1>14. OneTablePerMask(archetypes')
    BY <1>1, <1>4, <1>13 DEF OneTablePerMask
  <1>15. FreeExact(store2)
    <2>1. Range(store.free_entity_indices) = {i \in DOMAIN records : ~records[i].alive}
          /\ IsInjective(store.free_entity_indices)
      BY <1>1 DEF FreeExact, records
    <2>2. CASE index \in DOMAIN records
      <3>1. /\ IsInjective(store2.free_entity_indices)
            /\ Range(store2.free_entity_indices) = Range(store.free_entity_indices) \ {index}
        BY <1>3, <1>8, <1>9, <2>1, <2>2, FreeTaken
      <3> QED
        BY <1>9, <1>10, <2>1, <2>2, <3>1 DEF FreeExact
    <2>3. CASE index \notin DOMAIN records
      <3>1. store2.free_entity_indices = store.free_entity_indices
        BY <1>8, <1>9, <2>3
      <3> QED
        BY <1>9, <1>10, <2>1, <2>3, <3>1 DEF FreeExact
    <2> QED
      BY <2>2, <2>3
  <1>16. CountExact(store2)
    <2>1. entity = EntityId(index, entity.generation)
      BY <1>8, IdFacts
    <2> QED
      BY <1>1, <1>8, <1>9, <1>10, <2>1, LiveCreated, CountCreated DEF records
  <1>17. StoreOK(store2)
    BY <1>1, <1>2, <1>9, <1>15, <1>16 DEF StoreOK
  <1>18. LimitsOK'
    <2>1. runtime_sealed => store2.alive_entity_count <= store2.entity_capacity_limit
      BY <1>2, <1>3, <1>9 DEF CanCreate
    <2>2. ASSUME runtime_sealed, NEW k \in DOMAIN archetypes'
          PROVE Len(archetypes'[k].rows) <= archetypes'[k].entity_limit
      <3>1. CASE k = Root
        BY <1>2, <1>6, <1>7, <1>13, <2>2, <3>1 DEF HasRoom
      <3>2. CASE k # Root
        BY <1>13, <2>2, <3>2 DEF WorldInv, LimitsOK
      <3> QED
        BY <3>1, <3>2
    <2> QED
      BY <1>2, <2>1, <2>2 DEF LimitsOK, WorldInv
  <1>19. MasksRegistered'
    BY <1>2, <1>9, <1>10 DEF MasksRegistered, WorldInv, records
  <1>20. RegistryOK'
    BY <1>2 DEF RegistryOK, WorldInv
  <1>21. WorldInv'
    BY <1>2, <1>12, <1>14, <1>17, <1>18, <1>19, <1>20 DEF WorldInv
  <1>22. CompleteColumns(archetypes) => CompleteColumns(archetypes')
    BY <1>13 DEF CompleteColumns
  <1> QED
    BY <1>2, <1>8, <1>9, <1>10, <1>12, <1>21, <1>22 DEF acquired, records

\* Only the records count.
LEMMA AgreeUnderLimit ==
    ASSUME NEW store, NEW store2, NEW tables, Agree(store, tables),
           store2.entity_records = store.entity_records
    PROVE Agree(store2, tables)
  <1>1. \A j : Points(store2, tables, j) <=> Points(store, tables, j)
    BY DEF Points
  <1>2. \A i, row : Owned(store2, tables, i, row) <=> Owned(store, tables, i, row)
    BY DEF Owned, Resolves, Get
  <1> QED
    BY <1>1, <1>2 DEF Agree, AgreeBut

\* A creation that is taken back changes nothing that anybody sees.
LEMMA RollbackKeeps ==
    ASSUME WorldInv, CreateEntityRollsBack
    PROVE /\ WorldInv'
          /\ LiveEntities(entity_store') = LiveEntities(entity_store)
          /\ DOMAIN entity_store'.entity_records = DOMAIN entity_store.entity_records
          /\ \A j \in DOMAIN entity_store.entity_records :
               /\ entity_store'.entity_records[j].alive = entity_store.entity_records[j].alive
               /\ entity_store'.entity_records[j].generation
                    = entity_store.entity_records[j].generation
               /\ entity_store.entity_records[j].alive =>
                    entity_store'.entity_records[j] = entity_store.entity_records[j]
          /\ UNCHANGED <<archetypes, component_types>>
  <1> DEFINE store == entity_store
             records == store.entity_records
             index == AcquireEntity(store).entity.index
             store2 == RollbackAcquire(AcquireEntity(store))
  <1>1. /\ store \in Stores /\ FreeExact(store) /\ CountExact(store)
        /\ \A j \in DOMAIN records : j <= MaxEntities
        /\ Agree(store, archetypes)
    BY DEF WorldInv, StoreOK
  <1>2. /\ index <= MaxEntities /\ entity_store' = store2
        /\ UNCHANGED <<runtime_sealed, component_types, archetypes>>
    BY DEF CreateEntityRollsBack, WithinBounds
  <1>3. /\ store2 \in Stores
        /\ DOMAIN store2.entity_records = DOMAIN records
        /\ \A j \in DOMAIN records :
             IF j = index
               THEN /\ ~records[j].alive
                    /\ store2.entity_records[j] = EntityRecord(records[j].generation, FALSE)
               ELSE store2.entity_records[j] = records[j]
        /\ store2.free_entity_indices = store.free_entity_indices
        /\ store2.alive_entity_count = store.alive_entity_count
        /\ store2.entity_capacity_limit = store.entity_capacity_limit
    BY <1>1, <1>2, RollbackFacts
  <1> HIDE DEF store2, index, records
  <1>4. \A g : /\ EntityRecord(g, FALSE).alive = FALSE /\ EntityRecord(g, FALSE).generation = g
               /\ EntityRecord(g, FALSE).component_mask = {}
    BY DEF EntityRecord
  <1>5. \A j \in DOMAIN records :
          /\ store2.entity_records[j].alive = records[j].alive
          /\ store2.entity_records[j].generation = records[j].generation
          /\ records[j].alive => store2.entity_records[j] = records[j]
          /\ \/ store2.entity_records[j].component_mask = {}
             \/ store2.entity_records[j].component_mask = records[j].component_mask
    <2>1. records \in Seq(Records)
      BY <1>1 DEF Stores, records
    <2> TAKE j \in DOMAIN records
    <2>2. records[j] \in Records
      BY <2>1
    <2>3. records[j].alive \in BOOLEAN
      BY <2>2 DEF Records
    <2> QED
      BY <1>3, <1>4, <2>3
  <1>6. FreeExact(store2)
    BY <1>1, <1>3, <1>5 DEF FreeExact, records
  <1>7. CountExact(store2) /\ LiveEntities(store2) = LiveEntities(store)
    BY <1>1, <1>3, <1>5, CountKept DEF records
  <1>8. Agree(store2, archetypes)
    <2>1. 0 \notin DOMAIN records
      BY <1>1 DEF Stores, records
    <2>2. CASE index \in DOMAIN records
      <3>1. AgreeBut(store, archetypes, index)
        BY <1>1, <1>3, <2>1, <2>2, AgreeButDead DEF records
      <3>2. ~store2.entity_records[index].alive
        BY <1>3, <1>4, <2>2
      <3>3. /\ index \in DOMAIN store2.entity_records
            /\ DOMAIN store2.entity_records = DOMAIN store.entity_records
            /\ \A j \in DOMAIN store.entity_records \ {index} :
                 store2.entity_records[j] = store.entity_records[j]
        BY <1>3, <2>2 DEF records
      <3> QED
        BY <1>3, <3>1, <3>2, <3>3, BurialAgrees
    <2>3. CASE index \notin DOMAIN records
      <3>1. store2.entity_records = store.entity_records
        <4>1. records \in Seq(Records) /\ store2.entity_records \in Seq(Records)
          BY <1>1, <1>3 DEF Stores, records
        <4>2. \A j \in DOMAIN records : store2.entity_records[j] = records[j]
          BY <1>3, <2>3
        <4> QED
          BY <1>3, <4>1, <4>2 DEF records
      <3> QED
        BY <1>1, <3>1, AgreeUnderLimit
    <2> QED
      BY <2>2, <2>3
  <1>9. StoreOK(store2)
    BY <1>1, <1>3, <1>6, <1>7 DEF StoreOK
  <1>10. LimitsOK'
    BY <1>2, <1>3 DEF LimitsOK, WorldInv
  <1>11. MasksRegistered'
    BY <1>2, <1>3, <1>5 DEF MasksRegistered, WorldInv, records
  <1>12. RegistryOK' /\ OneTablePerMask(archetypes)'
    BY <1>2 DEF RegistryOK, WorldInv, OneTablePerMask
  <1>13. WorldInv'
    BY <1>2, <1>8, <1>9, <1>10, <1>11, <1>12 DEF WorldInv
  <1> QED
    BY <1>2, <1>3, <1>5, <1>7, <1>13 DEF records

\* A destroyed entity gives its row and its index back, and its id is stale.
LEMMA DestroyKeeps ==
    ASSUME WorldInv, NEW entity \in Ids, DestroyEntity(entity)
    PROVE /\ WorldInv'
          /\ Resolves(entity_store, entity)
          /\ DOMAIN entity_store'.entity_records = DOMAIN entity_store.entity_records
          /\ ~entity_store'.entity_records[entity.index].alive
          /\ entity_store'.entity_records[entity.index].generation = entity.generation + 1
          /\ \A j \in DOMAIN entity_store.entity_records \ {entity.index} :
               /\ entity_store'.entity_records[j].alive = entity_store.entity_records[j].alive
               /\ entity_store'.entity_records[j].generation
                    = entity_store.entity_records[j].generation
               /\ entity_store'.entity_records[j].component_mask
                    = entity_store.entity_records[j].component_mask
          /\ SameRows(entity_store, archetypes, entity_store', archetypes', entity.index)
          /\ CompleteColumns(archetypes) => CompleteColumns(archetypes')
          /\ UNCHANGED component_types
  <1> DEFINE store == entity_store
             records == store.entity_records
             index == entity.index
             i == records[index].archetype_index
             row == records[index].row_in_archetype
             after == FollowMovedRow(store, archetypes, i, row)
             left == RemoveSwapBack(archetypes, i, row)
             store2 == DestroyRecord(after, entity)
  <1>1. /\ store \in Stores /\ FreeExact(store) /\ CountExact(store)
        /\ \A j \in DOMAIN records : j <= MaxEntities
        /\ OneTablePerMask(archetypes) /\ Agree(store, archetypes)
    BY DEF WorldInv, StoreOK
  <1>2. /\ Resolves(store, entity) /\ entity.generation < LastGeneration
        /\ archetypes' = left /\ entity_store' = store2
        /\ UNCHANGED <<runtime_sealed, component_types>>
    BY DEF DestroyEntity, Get
  <1>3. index \in DOMAIN records /\ records[index].alive /\ records[index].generation = entity.generation
    BY <1>2 DEF Resolves
  <1>4. /\ records \in Seq(Records) /\ store.free_entity_indices \in Seq(Nat)
        /\ store.alive_entity_count \in Nat /\ archetypes \in Seq(Tables)
    BY <1>1 DEF Stores, OneTablePerMask
  <1>5. index \in Nat /\ index # 0
    BY <1>3, <1>4
  <1>6. /\ i \in DOMAIN archetypes /\ row \in DOMAIN archetypes[i].rows
    BY <1>1, <1>3, <1>5 DEF Agree, AgreeBut, Points
  <1>7. AgreeBut(after, left, index) /\ SameRows(store, archetypes, after, left, index)
    BY <1>1, <1>3, <1>4, RemovalAgrees
  <1>8. /\ after \in Stores
        /\ DOMAIN after.entity_records = DOMAIN records
        /\ \A j \in DOMAIN records :
             /\ after.entity_records[j].generation = records[j].generation
             /\ after.entity_records[j].alive = records[j].alive
             /\ after.entity_records[j].component_mask = records[j].component_mask
        /\ after.free_entity_indices = store.free_entity_indices
        /\ after.alive_entity_count = store.alive_entity_count
        /\ after.entity_capacity_limit = store.entity_capacity_limit
    <2> HIDE DEF i, row
    <2> QED
      BY <1>1, <1>4, <1>6, FollowFacts
  <1>9. /\ left \in Seq(Tables) /\ DOMAIN left = DOMAIN archetypes
        /\ \A k \in DOMAIN archetypes \ {i} : left[k] = archetypes[k]
        /\ left[i].mask = archetypes[i].mask /\ left[i].columns = archetypes[i].columns
        /\ left[i].entity_limit = archetypes[i].entity_limit
        /\ Len(left[i].rows) = Len(archetypes[i].rows) - 1
        /\ Len(archetypes[i].rows) \in Nat
    <2> HIDE DEF i, row
    <2> QED
      BY <1>4, <1>6, RemoveRowFacts
  <1> HIDE DEF after, left
  <1>10. /\ store2 \in Stores
         /\ DOMAIN store2.entity_records = DOMAIN records
         /\ store2.entity_records[index] = EntityRecord(entity.generation + 1, FALSE)
         /\ \A j \in DOMAIN records \ {index} :
              store2.entity_records[j] = after.entity_records[j]
         /\ store2.free_entity_indices = Append(store.free_entity_indices, index)
         /\ store2.alive_entity_count = Decrement(store.alive_entity_count)
         /\ store2.entity_capacity_limit = store.entity_capacity_limit
    <2>1. after \in Stores /\ entity.index \in DOMAIN after.entity_records
      BY <1>3, <1>8
    <2>2. /\ store2 \in Stores
          /\ DOMAIN store2.entity_records = DOMAIN after.entity_records
          /\ store2.entity_records[entity.index] = EntityRecord(entity.generation + 1, FALSE)
          /\ \A j \in DOMAIN after.entity_records \ {entity.index} :
               store2.entity_records[j] = after.entity_records[j]
          /\ store2.free_entity_indices = Append(after.free_entity_indices, entity.index)
          /\ store2.alive_entity_count = Decrement(after.alive_entity_count)
          /\ store2.entity_capacity_limit = after.entity_capacity_limit
      BY <1>2, <2>1, DestroyFacts
    <2> HIDE DEF store2
    <2> QED
      BY <1>8, <2>2
  <1> HIDE DEF store2
  <1>11. /\ store2.entity_records[index].alive = FALSE
         /\ store2.entity_records[index].generation = entity.generation + 1
         /\ store2.entity_records[index].component_mask = {}
    BY <1>10 DEF EntityRecord
  <1>12. Agree(store2, left) /\ SameRows(after, left, store2, left, index)
    BY <1>3, <1>7, <1>8, <1>10, <1>11, BurialAgrees
  <1>13. SameRows(store, archetypes, store2, left, index)
    BY <1>7, <1>8, <1>12 DEF SameRows
  <1>14. FreeExact(store2)
    <2>1. Range(store.free_entity_indices) = {j \in DOMAIN records : ~records[j].alive}
          /\ IsInjective(store.free_entity_indices)
      BY <1>1 DEF FreeExact
    <2>2. index \notin Range(store.free_entity_indices)
      BY <1>3, <2>1
    <2>3. /\ IsInjective(store2.free_entity_indices)
          /\ Range(store2.free_entity_indices) = Range(store.free_entity_indices) \cup {index}
      BY <1>4, <1>5, <1>10, <2>1, <2>2, FreeGiven
    <2> QED
      <3>1. \A j \in DOMAIN records \ {index} :
              store2.entity_records[j].alive = records[j].alive
        BY <1>8, <1>10
      <3>2. {j \in DOMAIN store2.entity_records : ~store2.entity_records[j].alive}
              = {j \in DOMAIN records : ~records[j].alive} \cup {index}
        BY <1>3, <1>10, <1>11, <3>1
      <3> QED
        BY <2>1, <2>3, <3>2 DEF FreeExact
  <1>15. CountExact(store2)
    <2>1. entity = EntityId(index, entity.generation)
      BY IdFacts
    <2>2. \A j \in DOMAIN records \ {index} :
            /\ store2.entity_records[j].alive = records[j].alive
            /\ store2.entity_records[j].generation = records[j].generation
      BY <1>8, <1>10
    <2> QED
      BY <1>1, <1>2, <1>10, <1>11, <2>1, <2>2, LiveDestroyed, CountDestroyed
  <1>16. StoreOK(store2)
    BY <1>1, <1>10, <1>14, <1>15 DEF StoreOK
  <1>17. OneTablePerMask(left)
    BY <1>1, <1>6, <1>9 DEF OneTablePerMask
  <1>18. LimitsOK'
    <2>1. store2.alive_entity_count <= store.alive_entity_count
      BY <1>4, <1>10 DEF Decrement
    <2>2. store2.alive_entity_count \in Nat /\ store2.entity_capacity_limit \in Nat
      BY <1>10 DEF Stores
    <2>3. runtime_sealed => store2.alive_entity_count <= store2.entity_capacity_limit
      BY <1>4, <1>10, <2>1, <2>2 DEF LimitsOK, WorldInv
    <2>4. ASSUME runtime_sealed, NEW k \in DOMAIN left
          PROVE Len(left[k].rows) <= left[k].entity_limit
      <3>1. Len(archetypes[k].rows) <= archetypes[k].entity_limit
        BY <1>9, <2>4 DEF LimitsOK, WorldInv
      <3>2. CASE k = i
        <4>1. archetypes[i] \in Tables
          BY <1>4, <1>6
        <4>2. archetypes[i].entity_limit \in Nat
          BY <4>1 DEF Tables
        <4> HIDE DEF i
        <4> QED
          BY <1>9, <3>1, <3>2, <4>2
      <3>3. CASE k # i
        BY <1>9, <2>4, <3>1, <3>3
      <3> QED
        BY <3>2, <3>3
    <2> QED
      BY <1>2, <2>3, <2>4 DEF LimitsOK, WorldInv
  <1>19. MasksRegistered'
    BY <1>2, <1>8, <1>10, <1>11 DEF MasksRegistered, WorldInv
  <1>20. RegistryOK'
    BY <1>2 DEF RegistryOK, WorldInv
  <1>21. WorldInv'
    BY <1>2, <1>12, <1>16, <1>17, <1>18, <1>19, <1>20 DEF WorldInv
  <1>22. CompleteColumns(archetypes) => CompleteColumns(archetypes')
    BY <1>2, <1>9 DEF CompleteColumns
  <1> QED
    BY <1>2, <1>8, <1>10, <1>11, <1>13, <1>21, <1>22

\* A row appended to one table and one removed from another.
LEMMA MoveCommutes ==
    ASSUME NEW tables \in Seq(Tables), NEW d \in DOMAIN tables, NEW i \in DOMAIN tables, d # i,
           NEW row, NEW entity, NEW written
    PROVE RemoveSwapBack(AppendRow(tables, d, entity, written), i, row)
            = AppendRow(RemoveSwapBack(tables, i, row), d, entity, written)
  <1> DEFINE new == [entity |-> entity,
                     values |-> [c \in tables[d].columns |->
                                   IF c \in DOMAIN written THEN written[c] ELSE ZeroValue]]
             A == [tables[d] EXCEPT !.rows = Append(@, new)]
             rows == tables[i].rows
             B == [tables[i] EXCEPT !.rows = Front([rows EXCEPT ![row] = Last(rows)])]
  <1>1. AppendRow(tables, d, entity, written) = [tables EXCEPT ![d] = A]
    BY DEF AppendRow
  <1>2. RemoveSwapBack(tables, i, row) = [tables EXCEPT ![i] = B]
    BY DEF RemoveSwapBack
  <1> DEFINE appended == [tables EXCEPT ![d] = A]
             removed == [tables EXCEPT ![i] = B]
  <1>3. appended[i] = tables[i] /\ removed[d] = tables[d]
    <2> HIDE DEF A, B
    <2> QED
      OBVIOUS
  <1> HIDE DEF appended, removed
  <1>4. RemoveSwapBack(appended, i, row) = [appended EXCEPT ![i] = B]
    BY <1>3 DEF RemoveSwapBack
  <1>5. AppendRow(removed, d, entity, written) = [removed EXCEPT ![d] = A]
    BY <1>3 DEF AppendRow
  <1> HIDE DEF A, B
  <1>6. [appended EXCEPT ![i] = B] = [removed EXCEPT ![d] = A]
    BY DEF appended, removed
  <1> QED
    BY <1>1, <1>2, <1>4, <1>5, <1>6 DEF appended, removed

\* The new row of an entity that moves.
MovedValues(tables, entity, store, target_mask, written) ==
  LET record == Get(store, entity)
      shared == SharedComponents(tables, record.archetype_index, record.row_in_archetype,
                                 record.component_mask \cap target_mask)
  IN [c \in DOMAIN written \cup DOMAIN shared |->
        IF c \in DOMAIN written THEN written[c] ELSE shared[c]]

\* The archetype that an entity of a mask belongs to.
LEMMA TargetFacts ==
    ASSUME OneTablePerMask(archetypes), NEW mask \in SUBSET Nat
    PROVE LET tables == GetOrCreate(archetypes, mask, Registered,
                                    InitialArchetypeEntityCapacity)
              d == ArchetypeIndex(tables, mask)
          IN /\ OneTablePerMask(tables)
             /\ DOMAIN archetypes \subseteq DOMAIN tables
             /\ \A k \in DOMAIN archetypes : tables[k] = archetypes[k]
             /\ d \in DOMAIN tables /\ tables[d].mask = mask
             /\ \A k \in DOMAIN tables \ DOMAIN archetypes :
                  /\ tables[k].rows = <<>> /\ tables[k].mask = mask
                  /\ tables[k].columns = mask \cap Registered
             /\ mask \in Masks(archetypes) => tables = archetypes
  <1> DEFINE tables == GetOrCreate(archetypes, mask, Registered, InitialArchetypeEntityCapacity)
             d == ArchetypeIndex(tables, mask)
  <1>1. InitialArchetypeEntityCapacity \in Nat /\ OneTablePerMask(archetypes)
    BY WorldAssumption
  <1>2. /\ OneTablePerMask(tables)
        /\ DOMAIN archetypes \subseteq DOMAIN tables
        /\ \A k \in DOMAIN archetypes : tables[k] = archetypes[k]
        /\ d \in DOMAIN tables /\ tables[d].mask = mask
        /\ \A k \in DOMAIN tables \ DOMAIN archetypes :
             /\ tables[k].rows = <<>> /\ tables[k].mask = mask
             /\ tables[k].columns = mask \cap Registered
        /\ mask \in Masks(archetypes) => tables = archetypes
    BY <1>1, GetOrCreateFacts
  <1> QED
    BY <1>2

\* An entity that gets or loses a component moves to the archetype of its new
\* mask, and takes its values along.
LEMMA MoveKeeps ==
    ASSUME WorldInv, NEW entity \in Ids, Resolves(entity_store, entity),
           NEW target_mask \in SUBSET Nat, target_mask \subseteq DOMAIN component_types,
           target_mask # Get(entity_store, entity).component_mask,
           NEW written, \A c \in DOMAIN written : written[c] \in Values,
           MoveEntity(entity, target_mask, written)
    PROVE LET tables == GetOrCreate(archetypes, target_mask, Registered,
                                    InitialArchetypeEntityCapacity)
              d == ArchetypeIndex(tables, target_mask)
              values == MovedValues(tables, entity, entity_store, target_mask, written)
          IN /\ WorldInv'
             /\ DOMAIN entity_store'.entity_records = DOMAIN entity_store.entity_records
             /\ \A j \in DOMAIN entity_store.entity_records :
                  /\ entity_store'.entity_records[j].alive = entity_store.entity_records[j].alive
                  /\ entity_store'.entity_records[j].generation
                       = entity_store.entity_records[j].generation
             /\ \A j \in DOMAIN entity_store.entity_records \ {entity.index} :
                  entity_store'.entity_records[j].component_mask
                    = entity_store.entity_records[j].component_mask
             /\ entity_store'.entity_records[entity.index].component_mask = target_mask
             /\ SameRows(entity_store, archetypes, entity_store', archetypes', entity.index)
             /\ RowOf(entity_store', archetypes', entity.index) =
                  [entity |-> entity,
                   values |-> [c \in tables[d].columns |->
                                 IF c \in DOMAIN values THEN values[c] ELSE ZeroValue]]
             /\ target_mask \subseteq DOMAIN component_types
             /\ CompleteColumns(archetypes) =>
                  CompleteColumns(tables) /\ CompleteColumns(archetypes')
             /\ d \in DOMAIN tables /\ tables[d].mask = target_mask
             /\ \A k \in DOMAIN archetypes : tables[k] = archetypes[k]
             /\ UNCHANGED component_types
  <1> DEFINE store == entity_store
             records == store.entity_records
             index == entity.index
             record == records[index]
             i == record.archetype_index
             row == record.row_in_archetype
             tables == GetOrCreate(archetypes, target_mask, Registered,
                                   InitialArchetypeEntityCapacity)
             d == ArchetypeIndex(tables, target_mask)
             place == Len(tables[d].rows) + 1
             values == MovedValues(tables, entity, store, target_mask, written)
             after == FollowMovedRow(store, tables, i, row)
             left == RemoveSwapBack(tables, i, row)
             moved == [record EXCEPT !.component_mask = target_mask, !.archetype_index = d,
                                     !.row_in_archetype = place]
             store2 == SetRecord(after, entity, moved)
             tables2 == AppendRow(left, d, entity, values)
  <1>1. /\ store \in Stores /\ FreeExact(store) /\ CountExact(store)
        /\ \A j \in DOMAIN records : j <= MaxEntities
        /\ OneTablePerMask(archetypes) /\ Agree(store, archetypes)
    BY DEF WorldInv, StoreOK
  <1>2. /\ index \in DOMAIN records /\ record.alive /\ record.generation = entity.generation
        /\ target_mask # record.component_mask
    BY DEF Resolves, Get
  <1>3. /\ Available(archetypes, target_mask, runtime_sealed)
        /\ HasRoom(tables[d], runtime_sealed)
        /\ archetypes' = RemoveSwapBack(AppendRow(tables, d, entity, values), i, row)
        /\ entity_store' = store2
        /\ UNCHANGED <<runtime_sealed, component_types>>
    BY DEF MoveEntity, MovedValues, Get
  <1>4. /\ records \in Seq(Records) /\ archetypes \in Seq(Tables)
    BY <1>1 DEF Stores, OneTablePerMask
  <1>5. record \in Records
    BY <1>2, <1>4
  <1>6. index \in Nat /\ index # 0
    BY <1>2, <1>4
  <1>7. /\ OneTablePerMask(tables)
        /\ DOMAIN archetypes \subseteq DOMAIN tables
        /\ \A k \in DOMAIN archetypes : tables[k] = archetypes[k]
        /\ d \in DOMAIN tables /\ tables[d].mask = target_mask
        /\ \A k \in DOMAIN tables \ DOMAIN archetypes :
             /\ tables[k].rows = <<>> /\ tables[k].mask = target_mask
             /\ tables[k].columns = target_mask \cap Registered
        /\ target_mask \in Masks(archetypes) => tables = archetypes
    BY <1>1, TargetFacts
  <1> HIDE DEF tables, d
  <1>8. tables \in Seq(Tables)
    BY <1>7 DEF OneTablePerMask
  <1>9. Agree(store, tables) /\ SameRows(store, archetypes, store, tables, 0)
    BY <1>1, <1>7, ExtensionAgrees DEF Agree
  <1>10. /\ i \in DOMAIN archetypes /\ tables[i].mask = record.component_mask
         /\ i \in DOMAIN tables /\ row \in DOMAIN tables[i].rows /\ tables[i] = archetypes[i]
    <2>1. Points(store, archetypes, index) /\ Points(store, tables, index)
      BY <1>1, <1>2, <1>6, <1>9 DEF Agree, AgreeBut
    <2> QED
      BY <1>7, <2>1 DEF Points
  <1>11. i # d
    BY <1>2, <1>7, <1>10
  <1>12. AgreeBut(after, left, index) /\ SameRows(store, tables, after, left, index)
    BY <1>2, <1>1, <1>8, <1>9, RemovalAgrees
  <1>13. /\ after \in Stores
         /\ DOMAIN after.entity_records = DOMAIN records
         /\ \A j \in DOMAIN records :
              /\ after.entity_records[j].generation = records[j].generation
              /\ after.entity_records[j].alive = records[j].alive
              /\ after.entity_records[j].component_mask = records[j].component_mask
         /\ after.free_entity_indices = store.free_entity_indices
         /\ after.alive_entity_count = store.alive_entity_count
         /\ after.entity_capacity_limit = store.entity_capacity_limit
    <2> HIDE DEF i, row
    <2> QED
      BY <1>1, <1>8, <1>9, <1>10, FollowFacts
  <1>14. /\ left \in Seq(Tables) /\ DOMAIN left = DOMAIN tables
         /\ \A k \in DOMAIN tables \ {i} : left[k] = tables[k]
         /\ left[i].mask = tables[i].mask /\ left[i].columns = tables[i].columns
         /\ left[i].entity_limit = tables[i].entity_limit
         /\ Len(left[i].rows) = Len(tables[i].rows) - 1
         /\ Len(tables[i].rows) \in Nat
    <2> HIDE DEF i, row
    <2> QED
      BY <1>8, <1>10, RemoveRowFacts
  <1>15. left[d] = tables[d] /\ d \in DOMAIN left
    BY <1>7, <1>11, <1>14
  <1>16. archetypes' = tables2
    <2> HIDE DEF i, row, values
    <2> QED
      BY <1>3, <1>7, <1>8, <1>10, <1>11, MoveCommutes
  <1>17. \A c \in DOMAIN values : values[c] \in Values
    <2> DEFINE old == tables[i].rows[row].values
               shared == SharedComponents(tables, i, row, record.component_mask \cap target_mask)
    <2>1. tables[i] \in Tables
      BY <1>8, <1>10
    <2>2. tables[i].rows \in Seq(Rows)
      BY <2>1 DEF Tables
    <2>3. tables[i].rows[row] \in Rows
      BY <1>10, <2>2
    <2>4. old \in RowValues
      BY <2>3 DEF Rows
    <2>5. \A c \in DOMAIN old : old[c] \in Values
      BY <2>4 DEF RowValues
    <2>6. /\ DOMAIN shared \subseteq DOMAIN old
          /\ \A c \in DOMAIN shared : shared[c] = old[c]
      BY DEF SharedComponents, Restrict
    <2>7. values = [c \in DOMAIN written \cup DOMAIN shared |->
                      IF c \in DOMAIN written THEN written[c] ELSE shared[c]]
      BY DEF MovedValues, Get
    <2> HIDE DEF shared, old, values
    <2> QED
      BY <2>5, <2>6, <2>7
  <1>18. /\ Len(tables[d].rows) \in Nat /\ place \in Nat \ {0} /\ d \in Nat \ {0}
         /\ tables[d].entity_limit \in Nat
    <2>1. tables[d] \in Tables
      BY <1>7, <1>8
    <2>2. tables[d].rows \in Seq(Rows) /\ tables[d].entity_limit \in Nat
      BY <2>1 DEF Tables
    <2>3. Len(tables[d].rows) \in Nat
      BY <2>2
    <2> QED
      BY <1>7, <1>8, <2>2, <2>3
  <1>19. /\ moved \in Records
         /\ moved = [generation |-> entity.generation, alive |-> TRUE,
                     component_mask |-> target_mask, archetype_index |-> d,
                     row_in_archetype |-> place]
    <2> DEFINE r == [generation |-> entity.generation, alive |-> TRUE,
                     component_mask |-> target_mask, archetype_index |-> d,
                     row_in_archetype |-> place]
    <2> HIDE DEF place, record
    <2>1. r \in Records
      BY <1>18, IdFacts DEF Records
    <2>2. /\ moved \in Records /\ moved.generation = record.generation
          /\ moved.alive = record.alive /\ moved.component_mask = target_mask
          /\ moved.archetype_index = d /\ moved.row_in_archetype = place
      BY <1>5, <1>18 DEF Records
    <2> HIDE DEF moved
    <2>3. moved.generation = entity.generation /\ moved.alive = TRUE
      <3>1. record.alive \in BOOLEAN
        BY <1>5 DEF Records
      <3> QED
        BY <1>2, <2>2, <3>1
    <2>4. moved = r
      BY <2>1, <2>2, <2>3 DEF Records
    <2> QED
      BY <2>1, <2>4
  <1> HIDE DEF moved, after, left, values
  <1>20. /\ store2 \in Stores
         /\ DOMAIN store2.entity_records = DOMAIN records
         /\ store2.entity_records[index] = moved
         /\ \A j \in DOMAIN records \ {index} :
              store2.entity_records[j] = after.entity_records[j]
         /\ store2.free_entity_indices = store.free_entity_indices
         /\ store2.alive_entity_count = store.alive_entity_count
         /\ store2.entity_capacity_limit = store.entity_capacity_limit
    <2>1. after \in Stores /\ entity.index \in DOMAIN after.entity_records /\ moved \in Records
      BY <1>2, <1>13, <1>19
    <2>2. /\ store2 \in Stores
          /\ DOMAIN store2.entity_records = DOMAIN after.entity_records
          /\ store2.entity_records[entity.index] = moved
          /\ \A j \in DOMAIN after.entity_records \ {entity.index} :
               store2.entity_records[j] = after.entity_records[j]
          /\ store2.free_entity_indices = after.free_entity_indices
          /\ store2.alive_entity_count = after.alive_entity_count
          /\ store2.entity_capacity_limit = after.entity_capacity_limit
      BY <2>1, SetRecordFacts
    <2> HIDE DEF store2
    <2> QED
      BY <1>13, <2>2
  <1> HIDE DEF store2
  <1>21. /\ Agree(store2, tables2) /\ SameRows(after, left, store2, tables2, index)
         /\ RowOf(store2, tables2, index) =
              [entity |-> entity,
               values |-> [c \in left[d].columns |->
                             IF c \in DOMAIN values THEN values[c] ELSE ZeroValue]]
    <2>1. /\ after \in Stores /\ left \in Seq(Tables) /\ d \in DOMAIN left
          /\ store2 \in Stores /\ entity \in Ids /\ AgreeBut(after, left, entity.index)
      BY <1>12, <1>13, <1>14, <1>15, <1>20
    <2>2. /\ DOMAIN store2.entity_records = DOMAIN after.entity_records \cup {entity.index}
          /\ \A j \in DOMAIN after.entity_records \ {entity.index} :
               store2.entity_records[j] = after.entity_records[j]
      BY <1>2, <1>13, <1>20
    <2>3. store2.entity_records[entity.index] =
             [generation |-> entity.generation, alive |-> TRUE,
              component_mask |-> left[d].mask, archetype_index |-> d,
              row_in_archetype |-> Len(left[d].rows) + 1]
      BY <1>7, <1>15, <1>19, <1>20
    <2>4. \A c \in DOMAIN values : values[c] \in Values
      BY <1>17
    <2>5. /\ Agree(store2, AppendRow(left, d, entity, values))
          /\ SameRows(after, left, store2, AppendRow(left, d, entity, values), entity.index)
          /\ RowOf(store2, AppendRow(left, d, entity, values), entity.index) =
               [entity |-> entity,
                values |-> [c \in left[d].columns |->
                              IF c \in DOMAIN values THEN values[c] ELSE ZeroValue]]
      <3> HIDE DEF index, records, record, i, row, place
      <3> QED
        BY <2>1, <2>2, <2>3, <2>4, PlacementAgrees, SMTT(60)
    <2> QED
      BY <2>5
  <1>22. SameRows(store, archetypes, store2, tables2, index)
    <2> SUFFICES ASSUME NEW j \in DOMAIN records, records[j].alive, j # index
                 PROVE RowOf(store2, tables2, j) = RowOf(store, archetypes, j)
      BY DEF SameRows
    <2>1. RowOf(store, tables, j) = RowOf(store, archetypes, j)
      <3>1. j # 0
        BY <1>4
      <3> QED
        BY <1>9, <3>1 DEF SameRows
    <2>2. RowOf(after, left, j) = RowOf(store, tables, j)
      BY <1>12 DEF SameRows
    <2>3. RowOf(store2, tables2, j) = RowOf(after, left, j)
      BY <1>13, <1>21 DEF SameRows
    <2> QED
      BY <2>1, <2>2, <2>3
  <1>23. \A j \in DOMAIN records :
           /\ store2.entity_records[j].alive = records[j].alive
           /\ store2.entity_records[j].generation = records[j].generation
           /\ store2.entity_records[j].component_mask =
                IF j = index THEN target_mask ELSE records[j].component_mask
    <2> TAKE j \in DOMAIN records
    <2>1. CASE j = index
      <3>1. record.alive \in BOOLEAN
        BY <1>5 DEF Records
      <3>2. /\ moved.alive = record.alive /\ moved.generation = record.generation
            /\ moved.component_mask = target_mask
        BY <1>2, <1>19, <3>1
      <3> QED
        BY <1>20, <2>1, <3>2
    <2>2. CASE j # index
      BY <1>13, <1>20, <2>2
    <2> QED
      BY <2>1, <2>2
  <1>24. FreeExact(store2)
    BY <1>1, <1>20, <1>23 DEF FreeExact
  <1>25. CountExact(store2)
    BY <1>1, <1>20, <1>23, CountKept
  <1>26. StoreOK(store2)
    BY <1>1, <1>20, <1>24, <1>25 DEF StoreOK
  <1>27. /\ tables2 \in Seq(Tables) /\ DOMAIN tables2 = DOMAIN left
         /\ \A k \in DOMAIN left \ {d} : tables2[k] = left[k]
         /\ tables2[d].mask = left[d].mask /\ tables2[d].columns = left[d].columns
         /\ tables2[d].entity_limit = left[d].entity_limit
         /\ Len(tables2[d].rows) = Len(left[d].rows) + 1
    <2> DEFINE new == [entity |-> entity,
                       values |-> [c \in left[d].columns |->
                                     IF c \in DOMAIN values THEN values[c] ELSE ZeroValue]]
    <2>1. /\ tables2 \in Seq(Tables) /\ DOMAIN tables2 = DOMAIN left
          /\ \A k \in DOMAIN left \ {d} : tables2[k] = left[k]
          /\ tables2[d].mask = left[d].mask /\ tables2[d].columns = left[d].columns
          /\ tables2[d].entity_limit = left[d].entity_limit
          /\ tables2[d].rows = Append(left[d].rows, new)
      <3>1. left \in Seq(Tables) /\ d \in DOMAIN left /\ entity \in Ids
        BY <1>14, <1>15
      <3> HIDE DEF left, d, values
      <3> QED
        BY <1>17, <3>1, AppendRowFacts
    <2>2. left[d] \in Tables
      BY <1>14, <1>15
    <2>3. left[d].rows \in Seq(Rows)
      BY <2>2 DEF Tables
    <2> HIDE DEF new, tables2
    <2> QED
      BY <2>1, <2>3
  <1> HIDE DEF tables2
  <1>28. OneTablePerMask(tables2)
    <2>1. \A k \in DOMAIN tables2 : tables2[k].mask = tables[k].mask
      BY <1>14, <1>15, <1>27
    <2> QED
      BY <1>7, <1>14, <1>27, <2>1 DEF OneTablePerMask
  <1>29. LimitsOK'
    <2>1. ASSUME runtime_sealed, NEW k \in DOMAIN tables2
          PROVE Len(tables2[k].rows) <= tables2[k].entity_limit
      <3>1. tables = archetypes
        BY <1>3, <1>7, <2>1 DEF Available
      <3>2. Len(tables[k].rows) <= tables[k].entity_limit
        BY <1>14, <1>27, <2>1, <3>1 DEF LimitsOK, WorldInv
      <3>3. CASE k = d
        BY <1>3, <1>15, <1>18, <1>27, <2>1, <3>3 DEF HasRoom
      <3>4. CASE k = i
        <4>1. archetypes[i] \in Tables
          BY <1>4, <1>10
        <4>2. tables[i].entity_limit \in Nat
          BY <1>10, <4>1 DEF Tables
        <4> HIDE DEF i
        <4> QED
          BY <1>10, <1>11, <1>14, <1>27, <3>2, <3>4, <4>2
      <3>5. CASE k # d /\ k # i
        BY <1>14, <1>27, <2>1, <3>2, <3>5
      <3> QED
        BY <3>3, <3>4, <3>5
    <2> QED
      BY <1>3, <1>16, <1>20, <2>1 DEF LimitsOK, WorldInv
  <1>30. MasksRegistered'
    BY <1>3, <1>20, <1>23 DEF MasksRegistered, WorldInv
  <1>31. RegistryOK'
    BY <1>3 DEF RegistryOK, WorldInv
  <1>32. WorldInv'
    BY <1>3, <1>16, <1>21, <1>26, <1>28, <1>29, <1>30, <1>31 DEF WorldInv
  <1>33. CompleteColumns(archetypes) =>
           CompleteColumns(tables) /\ CompleteColumns(archetypes')
    <2>1. ASSUME CompleteColumns(archetypes), NEW k \in DOMAIN tables
          PROVE tables[k].mask \subseteq tables[k].columns
      <3>1. CASE k \in DOMAIN archetypes
        BY <1>7, <2>1, <3>1 DEF CompleteColumns
      <3>2. CASE k \notin DOMAIN archetypes
        <4>1. tables[k].mask = target_mask /\ tables[k].columns = target_mask \cap Registered
          BY <1>7, <2>1, <3>2
        <4> QED
          BY <4>1 DEF Registered
      <3> QED
        BY <3>1, <3>2
    <2>2. ASSUME NEW k \in DOMAIN tables2
          PROVE tables2[k].mask = tables[k].mask /\ tables2[k].columns = tables[k].columns
      BY <1>14, <1>15, <1>27
    <2>3. DOMAIN tables2 = DOMAIN tables
      BY <1>14, <1>27
    <2> QED
      BY <1>16, <2>1, <2>2, <2>3 DEF CompleteColumns
  <1> QED
    BY <1>3, <1>2, <1>7, <1>15, <1>16, <1>20, <1>21, <1>22, <1>23, <1>32, <1>33
    DEF tables, d, values

\* A write reaches one value of one row.
LEMMA WriteKeeps ==
    ASSUME WorldInv, NEW entity \in Ids, NEW type \in Types, NEW value \in Values,
           WriteComponent(entity, type, value)
    PROVE LET row == RowOf(entity_store, archetypes, entity.index)
          IN /\ WorldInv'
             /\ UNCHANGED <<entity_store, component_types>>
             /\ SameRows(entity_store, archetypes, entity_store', archetypes', entity.index)
             /\ RowOf(entity_store', archetypes', entity.index) =
                  [row EXCEPT !.values = [row.values EXCEPT ![TypeIndex(type)] = value]]
             /\ DOMAIN archetypes' = DOMAIN archetypes
             /\ \A k \in DOMAIN archetypes :
                  /\ archetypes'[k].mask = archetypes[k].mask
                  /\ archetypes'[k].columns = archetypes[k].columns
  <1> DEFINE store == entity_store
             records == store.entity_records
             index == entity.index
             i == records[index].archetype_index
             r == records[index].row_in_archetype
             c == TypeIndex(type)
             rows == archetypes[i].rows
             new == [rows[r] EXCEPT !.values = [rows[r].values EXCEPT ![c] = value]]
             rows2 == [rows EXCEPT ![r] = new]
             table == [archetypes[i] EXCEPT !.rows = rows2]
             tables2 == [archetypes EXCEPT ![i] = table]
  <1>1. /\ store \in Stores /\ OneTablePerMask(archetypes) /\ Agree(store, archetypes)
    BY DEF WorldInv, StoreOK
  <1>2. /\ Resolves(store, entity)
        /\ archetypes' = [archetypes EXCEPT ![i].rows[r].values[c] = value]
        /\ UNCHANGED <<runtime_sealed, component_types, entity_store>>
    BY DEF WriteComponent, Get
  <1>3. index \in DOMAIN records /\ records[index].alive
    BY <1>2 DEF Resolves
  <1>4. records \in Seq(Records) /\ archetypes \in Seq(Tables)
    BY <1>1 DEF Stores, OneTablePerMask
  <1>5. index \in Nat \ {0}
    BY <1>3, <1>4
  <1>6. /\ i \in DOMAIN archetypes /\ r \in DOMAIN rows
        /\ rows[r].entity = EntityId(index, records[index].generation)
    BY <1>1, <1>3, <1>5 DEF Agree, AgreeBut, Points
  <1>7. archetypes[i] \in Tables
    BY <1>4, <1>6
  <1>8. rows \in Seq(Rows)
    BY <1>7 DEF Tables
  <1>9. rows[r] \in Rows
    BY <1>6, <1>8
  <1> HIDE DEF c
  <1>10. new \in Rows /\ new.entity = rows[r].entity
    <2>1. PICK columns \in SUBSET Nat : rows[r].values \in [columns -> Values]
      BY <1>9 DEF Rows, RowValues
    <2>2. [rows[r].values EXCEPT ![c] = value] \in [columns -> Values]
      BY <2>1
    <2>3. [rows[r].values EXCEPT ![c] = value] \in RowValues
      BY <2>2 DEF RowValues
    <2> HIDE DEF r, rows
    <2> QED
      BY <1>9, <2>3 DEF Rows
  <1>11. archetypes' = tables2
    BY <1>2, <1>4, <1>7, <1>8, <1>9 DEF Rows, Tables
  <1> HIDE DEF new
  <1>12. /\ rows2 \in Seq(Rows) /\ DOMAIN rows2 = DOMAIN rows /\ rows2[r] = new
         /\ Len(rows2) = Len(rows)
         /\ \A k \in DOMAIN rows \ {r} : rows2[k] = rows[k]
    <2> HIDE DEF rows, r
    <2> QED
      BY <1>6, <1>8, <1>10
  <1> HIDE DEF rows2
  <1>13. /\ table \in Tables /\ table.mask = archetypes[i].mask
         /\ table.columns = archetypes[i].columns
         /\ table.entity_limit = archetypes[i].entity_limit /\ table.rows = rows2
    BY <1>7, <1>12 DEF Tables
  <1> HIDE DEF table
  <1>14. /\ tables2 \in Seq(Tables) /\ DOMAIN tables2 = DOMAIN archetypes
         /\ tables2[i] = table
         /\ \A k \in DOMAIN archetypes \ {i} : tables2[k] = archetypes[k]
    <2> HIDE DEF i
    <2> QED
      BY <1>4, <1>6, <1>13
  <1> HIDE DEF tables2
  <1>15. \A k \in DOMAIN archetypes :
           /\ tables2[k].mask = archetypes[k].mask
           /\ tables2[k].columns = archetypes[k].columns
           /\ tables2[k].entity_limit = archetypes[k].entity_limit
           /\ Len(tables2[k].rows) = Len(archetypes[k].rows)
           /\ DOMAIN tables2[k].rows = DOMAIN archetypes[k].rows
           /\ \A q \in DOMAIN archetypes[k].rows :
                /\ tables2[k].rows[q].entity = archetypes[k].rows[q].entity
                /\ (k = i /\ q = r) \/ tables2[k].rows[q] = archetypes[k].rows[q]
    <2> TAKE k \in DOMAIN archetypes
    <2>1. CASE k = i
      <3>1. \A q \in DOMAIN rows : /\ rows2[q].entity = rows[q].entity
                                   /\ q = r \/ rows2[q] = rows[q]
        BY <1>10, <1>12
      <3>2. tables2[i].rows = rows2
        BY <1>13, <1>14
      <3> HIDE DEF i, r
      <3> QED
        BY <1>12, <1>13, <1>14, <2>1, <3>1, <3>2
    <2>2. CASE k # i
      BY <1>14, <2>2
    <2> QED
      BY <2>1, <2>2
  <1>16. \A j \in DOMAIN records :
           records[j].alive => /\ Points(store, tables2, j)
                               /\ j # index => RowOf(store, tables2, j) = RowOf(store, archetypes, j)
    <2> TAKE j \in DOMAIN records
    <2> HAVE records[j].alive
    <2> DEFINE a == records[j].archetype_index
               q == records[j].row_in_archetype
    <2>1. Points(store, archetypes, j)
      <3>1. j # 0
        BY <1>4
      <3> QED
        BY <1>1, <3>1 DEF Agree, AgreeBut
    <2>2. /\ a \in DOMAIN archetypes /\ q \in DOMAIN archetypes[a].rows
          /\ archetypes[a].rows[q].entity = EntityId(j, records[j].generation)
          /\ archetypes[a].mask = records[j].component_mask
      BY <2>1 DEF Points
    <2>3. ASSUME j # index PROVE ~(a = i /\ q = r)
      BY <1>6, <2>2, <2>3, IdFacts
    <2>4. Points(store, tables2, j)
      BY <1>14, <1>15, <2>2 DEF Points
    <2>5. ASSUME j # index PROVE RowOf(store, tables2, j) = RowOf(store, archetypes, j)
      <3>1. tables2[a].rows[q] = archetypes[a].rows[q]
        BY <1>15, <2>2, <2>3, <2>5
      <3> QED
        BY <3>1 DEF RowOf
    <2> QED
      BY <2>4, <2>5
  <1>17. ASSUME NEW k \in DOMAIN tables2, NEW q \in Nat, q \in DOMAIN tables2[k].rows
         PROVE Owned(store, tables2, k, q) /\ tables2[k].rows[q].entity.index # 0
    <2>1. /\ k \in DOMAIN archetypes /\ q \in DOMAIN archetypes[k].rows
          /\ tables2[k].rows[q].entity = archetypes[k].rows[q].entity
      BY <1>14, <1>15, <1>17
    <2>2. Owned(store, archetypes, k, q) /\ archetypes[k].rows[q].entity.index # 0
      BY <1>1, <2>1 DEF Agree, AgreeBut
    <2> QED
      BY <2>1, <2>2 DEF Owned
  <1>18. Agree(store, tables2) /\ SameRows(store, archetypes, store, tables2, index)
    BY <1>16, <1>17 DEF Agree, AgreeBut, SameRows
  <1>19. /\ RowOf(store, tables2, index) = new /\ RowOf(store, archetypes, index) = rows[r]
    BY <1>12, <1>13, <1>14 DEF RowOf
  <1>20. OneTablePerMask(tables2)
    BY <1>1, <1>14, <1>15 DEF OneTablePerMask
  <1>21. LimitsOK'
    BY <1>2, <1>11, <1>14, <1>15 DEF LimitsOK, WorldInv
  <1>22. RegistryOK' /\ StoreOK(entity_store)' /\ MasksRegistered'
    BY <1>2 DEF RegistryOK, MasksRegistered, WorldInv
  <1>23. WorldInv'
    BY <1>2, <1>11, <1>18, <1>20, <1>21, <1>22 DEF WorldInv
  <1> QED
    BY <1>2, <1>11, <1>14, <1>15, <1>18, <1>19, <1>23 DEF new, c

\* A step that only changes tables' limits, or adds empty tables.
TablesExtended ==
  /\ OneTablePerMask(archetypes')
  /\ DOMAIN archetypes \subseteq DOMAIN archetypes'
  /\ \A k \in DOMAIN archetypes : /\ archetypes'[k].mask = archetypes[k].mask
                                  /\ archetypes'[k].columns = archetypes[k].columns
                                  /\ archetypes'[k].rows = archetypes[k].rows
  /\ \A k \in DOMAIN archetypes' \ DOMAIN archetypes : archetypes'[k].rows = <<>>

LEMMA ExtendedAgrees ==
    ASSUME WorldInv, TablesExtended
    PROVE /\ Agree(entity_store, archetypes')
          /\ SameRows(entity_store, archetypes, entity_store, archetypes', 0)
  <1>1. AgreeBut(entity_store, archetypes, 0)
    BY DEF WorldInv, Agree
  <1> QED
    BY <1>1, ExtensionAgrees DEF TablesExtended, Agree

LEMMA RegisterKeeps ==
    ASSUME WorldInv, NEW type \in Types, RegisterComponent(type)
    PROVE /\ WorldInv' /\ UNCHANGED <<entity_store, archetypes>>
          /\ DOMAIN component_types \subseteq DOMAIN component_types'
          /\ \A i \in DOMAIN component_types : component_types'[i] = component_types[i]
  <1>1. /\ component_types' = Append(component_types, type)
        /\ type \notin Range(component_types) /\ Len(component_types) < MaxComponentTypes
        /\ UNCHANGED <<runtime_sealed, entity_store, archetypes>>
    BY DEF RegisterComponent
  <1>2. component_types \in Seq(Types) /\ IsInjective(component_types)
    BY DEF WorldInv, RegistryOK
  <1> DEFINE new == Len(component_types) + 1
  <1>3. /\ component_types' \in Seq(Types) /\ Len(component_types') = new
        /\ DOMAIN component_types' = DOMAIN component_types \cup {new}
        /\ new \notin DOMAIN component_types
        /\ \A i \in DOMAIN component_types : component_types'[i] = component_types[i]
        /\ component_types'[new] = type
    BY <1>1, <1>2, AppendFacts
  <1>4. \A i \in DOMAIN component_types : component_types[i] # type
    BY <1>1 DEF Range
  <1>5. IsInjective(component_types')
    <2> HIDE DEF new
    <2> QED
      BY <1>2, <1>3, <1>4 DEF IsInjective
  <1>6. Len(component_types') <= MaxComponentTypes
    <2>1. Len(component_types) \in Nat
      BY <1>2
    <2> QED
      BY <1>1, <1>3, <2>1, WorldAssumption
  <1>7. RegistryOK'
    BY <1>3, <1>5, <1>6 DEF RegistryOK
  <1>8. MasksRegistered'
    BY <1>1, <1>3 DEF MasksRegistered, WorldInv
  <1>9. LimitsOK'
    BY <1>1 DEF LimitsOK, WorldInv
  <1> QED
    BY <1>1, <1>3, <1>7, <1>8, <1>9 DEF WorldInv

\* The store is the same but for its limit.
LEMMA StoreOKUnderLimit ==
    ASSUME NEW store, StoreOK(store), NEW store2 \in Stores,
           store2.entity_records = store.entity_records,
           store2.free_entity_indices = store.free_entity_indices,
           store2.alive_entity_count = store.alive_entity_count
    PROVE StoreOK(store2) /\ LiveEntities(store2) = LiveEntities(store)
  BY DEF StoreOK, FreeExact, CountExact, LiveEntities

\* What the limits are set to.
LEMMA ReserveEntitiesKeeps ==
    ASSUME WorldInv, NEW capacity \in Nat, ReserveEntities(capacity)
    PROVE /\ WorldInv' /\ TablesExtended /\ UNCHANGED component_types
          /\ entity_store'.entity_records = entity_store.entity_records
  <1> DEFINE store2 == ReserveStore(entity_store, capacity)
  <1>1. /\ ~runtime_sealed /\ entity_store' = store2
        /\ archetypes' = ReserveRows(archetypes, Root, capacity)
        /\ UNCHANGED <<runtime_sealed, component_types>>
    BY DEF ReserveEntities, CanReserve
  <1>2. entity_store \in Stores /\ archetypes \in Seq(Tables) /\ Root \in DOMAIN archetypes
    BY DEF WorldInv, StoreOK, OneTablePerMask
  <1>3. /\ store2 \in Stores /\ store2.entity_records = entity_store.entity_records
        /\ store2.free_entity_indices = entity_store.free_entity_indices
        /\ store2.alive_entity_count = entity_store.alive_entity_count
    BY <1>2 DEF ReserveStore, Stores
  <1> HIDE DEF store2
  <1>4. TablesExtended
    <2>1. /\ archetypes' \in Seq(Tables) /\ DOMAIN archetypes' = DOMAIN archetypes
          /\ \A k \in DOMAIN archetypes :
               /\ archetypes'[k].mask = archetypes[k].mask
               /\ archetypes'[k].columns = archetypes[k].columns
               /\ archetypes'[k].rows = archetypes[k].rows
      BY <1>1, <1>2, ReserveRowsFacts
    <2> QED
      BY <2>1 DEF TablesExtended, WorldInv, OneTablePerMask
  <1>5. Agree(store2, archetypes')
    BY <1>3, <1>4, ExtendedAgrees, AgreeUnderLimit
  <1>6. StoreOK(store2)
    BY <1>3, StoreOKUnderLimit DEF WorldInv
  <1>7. LimitsOK' /\ MasksRegistered' /\ RegistryOK'
    BY <1>1, <1>3 DEF LimitsOK, MasksRegistered, RegistryOK, WorldInv
  <1> QED
    BY <1>1, <1>3, <1>4, <1>5, <1>6, <1>7 DEF WorldInv, TablesExtended

LEMMA ReserveArchetypeKeeps ==
    ASSUME WorldInv, NEW bits \in SUBSET Nat, NEW limit \in Nat,
           ReserveArchetype(bits, limit)
    PROVE /\ WorldInv' /\ TablesExtended /\ UNCHANGED <<component_types, entity_store>>
          /\ RegisteredMasksOnly => bits \subseteq Registered
          /\ \A k \in DOMAIN archetypes' \ DOMAIN archetypes :
               archetypes'[k].mask = bits /\ archetypes'[k].columns = bits \cap Registered
  <1> DEFINE tables == GetOrCreate(archetypes, bits, Registered, InitialArchetypeEntityCapacity)
             d == ArchetypeIndex(tables, bits)
  <1>1. /\ ~runtime_sealed
        /\ RegisteredMasksOnly => bits \subseteq Registered
        /\ archetypes' = ReserveRows(tables, d, limit)
        /\ UNCHANGED <<runtime_sealed, component_types, entity_store>>
    BY DEF ReserveArchetype
  <1>2. OneTablePerMask(archetypes)
    BY DEF WorldInv
  <1>3. /\ OneTablePerMask(tables)
        /\ DOMAIN archetypes \subseteq DOMAIN tables
        /\ \A k \in DOMAIN archetypes : tables[k] = archetypes[k]
        /\ d \in DOMAIN tables
        /\ \A k \in DOMAIN tables \ DOMAIN archetypes :
             /\ tables[k].rows = <<>> /\ tables[k].mask = bits
             /\ tables[k].columns = bits \cap Registered
    BY <1>2, TargetFacts
  <1> HIDE DEF tables, d
  <1>4. tables \in Seq(Tables)
    BY <1>3 DEF OneTablePerMask
  <1>5. /\ archetypes' \in Seq(Tables) /\ DOMAIN archetypes' = DOMAIN tables
        /\ \A k \in DOMAIN tables :
             /\ archetypes'[k].mask = tables[k].mask
             /\ archetypes'[k].columns = tables[k].columns
             /\ archetypes'[k].rows = tables[k].rows
    BY <1>1, <1>3, <1>4, ReserveRowsFacts
  <1>6. OneTablePerMask(archetypes')
    BY <1>3, <1>5 DEF OneTablePerMask
  <1>7. TablesExtended
    BY <1>3, <1>5, <1>6 DEF TablesExtended
  <1>8. Agree(entity_store, archetypes')
    BY <1>7, ExtendedAgrees
  <1>9. LimitsOK' /\ MasksRegistered' /\ RegistryOK' /\ StoreOK(entity_store)'
    BY <1>1 DEF LimitsOK, MasksRegistered, RegistryOK, WorldInv
  <1>10. WorldInv'
    BY <1>1, <1>6, <1>8, <1>9 DEF WorldInv
  <1> QED
    BY <1>1, <1>3, <1>5, <1>7, <1>10

LEMMA SealKeeps ==
    ASSUME WorldInv, SealForRuntime
    PROVE /\ WorldInv' /\ TablesExtended /\ UNCHANGED component_types
          /\ DOMAIN archetypes' = DOMAIN archetypes
          /\ entity_store'.entity_records = entity_store.entity_records
  <1> DEFINE store2 == SealStore(entity_store)
  <1>1. /\ runtime_sealed' = TRUE /\ entity_store' = store2
        /\ archetypes' = SealArchetypes(archetypes) /\ UNCHANGED component_types
    BY DEF SealForRuntime
  <1>2. entity_store \in Stores /\ archetypes \in Seq(Tables)
    BY DEF WorldInv, StoreOK, OneTablePerMask
  <1>3. /\ store2 \in Stores /\ store2.entity_records = entity_store.entity_records
        /\ store2.free_entity_indices = entity_store.free_entity_indices
        /\ store2.alive_entity_count = entity_store.alive_entity_count
        /\ store2.alive_entity_count <= store2.entity_capacity_limit
    <2> DEFINE limit == IF entity_store.entity_capacity_limit < entity_store.alive_entity_count
                          THEN entity_store.alive_entity_count
                          ELSE entity_store.entity_capacity_limit
    <2>1. /\ entity_store.entity_capacity_limit \in Nat /\ entity_store.alive_entity_count \in Nat
      BY <1>2 DEF Stores
    <2>2. limit \in Nat /\ entity_store.alive_entity_count <= limit
      BY <2>1
    <2>3. store2 = [entity_store EXCEPT !.entity_capacity_limit = limit]
      BY <1>2 DEF SealStore, Stores
    <2> HIDE DEF limit, store2
    <2> QED
      BY <1>2, <2>2, <2>3 DEF Stores
  <1> HIDE DEF store2
  <1>4. /\ archetypes' \in Seq(Tables) /\ DOMAIN archetypes' = DOMAIN archetypes
        /\ \A k \in DOMAIN archetypes :
             /\ archetypes'[k].mask = archetypes[k].mask
             /\ archetypes'[k].columns = archetypes[k].columns
             /\ archetypes'[k].rows = archetypes[k].rows
             /\ Len(archetypes'[k].rows) <= archetypes'[k].entity_limit
    BY <1>1, <1>2, SealArchetypesFacts
  <1>5. TablesExtended
    BY <1>4 DEF TablesExtended, WorldInv, OneTablePerMask
  <1>6. Agree(store2, archetypes')
    BY <1>3, <1>5, ExtendedAgrees, AgreeUnderLimit
  <1>7. StoreOK(store2)
    BY <1>3, StoreOKUnderLimit DEF WorldInv
  <1>8. LimitsOK'
    BY <1>1, <1>3, <1>4 DEF LimitsOK
  <1>9. MasksRegistered' /\ RegistryOK'
    BY <1>1, <1>3 DEF MasksRegistered, RegistryOK, WorldInv
  <1> QED
    BY <1>1, <1>3, <1>4, <1>5, <1>6, <1>7, <1>8, <1>9 DEF WorldInv, TablesExtended

LEMMA TypeIndexFacts ==
    ASSUME RegistryOK
    PROVE /\ \A type \in Range(component_types) :
               TypeIndex(type) \in DOMAIN component_types
                 /\ component_types[TypeIndex(type)] = type
          /\ \A c \in DOMAIN component_types : TypeIndex(component_types[c]) = c
          /\ DOMAIN component_types \subseteq Nat
  <1>1. DOMAIN component_types \subseteq Nat
    BY DEF RegistryOK
  <1>2. \A type \in Range(component_types) :
          TypeIndex(type) \in DOMAIN component_types /\ component_types[TypeIndex(type)] = type
    BY DEF Range, TypeIndex, Registered
  <1>3. \A c \in DOMAIN component_types : TypeIndex(component_types[c]) = c
    BY <1>2 DEF RegistryOK, IsInjective, Range
  <1> QED
    BY <1>1, <1>2, <1>3

\* What AddComponent writes at once.
Written(component, value) == [c \in {component} |-> value]

\* An added and a removed component are moves to another mask.
LEMMA AddMoves ==
    ASSUME WorldInv, NEW entity \in Ids, NEW type \in Types, NEW value \in Values,
           AddComponent(entity, type, value)
    PROVE LET component == TypeIndex(type)
              mask == Get(entity_store, entity).component_mask
              target == mask \cup {component}
              written == Written(component, value)
          IN /\ Resolves(entity_store, entity) /\ type \in Range(component_types)
             /\ component \in DOMAIN component_types /\ component \notin mask
             /\ component_types[component] = type
             /\ target \in SUBSET Nat /\ target \subseteq DOMAIN component_types /\ target # mask
             /\ \A c \in DOMAIN written : written[c] \in Values
             /\ MoveEntity(entity, target, written)
  <1> DEFINE component == TypeIndex(type)
             mask == Get(entity_store, entity).component_mask
  <1>1. /\ type \in Range(component_types) /\ Resolves(entity_store, entity)
        /\ component \notin mask
        /\ MoveEntity(entity, mask \cup {component}, Written(component, value))
    BY DEF AddComponent, Written
  <1>2. /\ component \in DOMAIN component_types /\ component_types[component] = type
        /\ DOMAIN component_types \subseteq Nat
    BY <1>1, TypeIndexFacts DEF WorldInv
  <1>3. mask \subseteq DOMAIN component_types
    BY <1>1 DEF WorldInv, MasksRegistered, Resolves, Get
  <1> HIDE DEF mask, component
  <1>4. /\ mask \cup {component} \in SUBSET Nat
        /\ mask \cup {component} \subseteq DOMAIN component_types
        /\ mask \cup {component} # mask
    BY <1>1, <1>2, <1>3
  <1>5. \A c \in DOMAIN Written(component, value) : Written(component, value)[c] \in Values
    BY DEF Written
  <1> QED
    BY <1>1, <1>2, <1>4, <1>5 DEF mask, component

LEMMA RemoveMoves ==
    ASSUME WorldInv, NEW entity \in Ids, NEW type \in Types,
           RemoveComponent(entity, type)
    PROVE LET component == TypeIndex(type)
              mask == Get(entity_store, entity).component_mask
              target == mask \ {component}
          IN /\ Resolves(entity_store, entity) /\ type \in Range(component_types)
             /\ component \in DOMAIN component_types /\ component \in mask
             /\ component_types[component] = type
             /\ target \in SUBSET Nat /\ target \subseteq DOMAIN component_types /\ target # mask
             /\ \A c \in DOMAIN <<>> : <<>>[c] \in Values
             /\ MoveEntity(entity, target, <<>>)
  <1> DEFINE component == TypeIndex(type)
             mask == Get(entity_store, entity).component_mask
  <1>1. /\ type \in Range(component_types) /\ Resolves(entity_store, entity)
        /\ component \in mask
        /\ MoveEntity(entity, mask \ {component}, <<>>)
    BY DEF RemoveComponent
  <1>2. /\ component \in DOMAIN component_types /\ component_types[component] = type
        /\ DOMAIN component_types \subseteq Nat
    BY <1>1, TypeIndexFacts DEF WorldInv
  <1>3. mask \subseteq DOMAIN component_types
    BY <1>1 DEF WorldInv, MasksRegistered, Resolves, Get
  <1> HIDE DEF mask, component
  <1>4. /\ mask \ {component} \in SUBSET Nat
        /\ mask \ {component} \subseteq DOMAIN component_types
        /\ mask \ {component} # mask
    BY <1>1, <1>2, <1>3
  <1>5. DOMAIN <<>> = {}
    OBVIOUS
  <1> QED
    BY <1>1, <1>2, <1>4, <1>5 DEF mask, component

LEMMA WorldPreserved == WorldInv /\ [Next]_vars => WorldInv'
  <1> SUFFICES ASSUME WorldInv, [Next]_vars PROVE WorldInv'
    OBVIOUS
  <1>1. ASSUME NEW type \in Types, RegisterComponent(type) PROVE WorldInv'
    BY <1>1, RegisterKeeps
  <1>2. ASSUME NEW capacity \in Capacities, ReserveEntities(capacity) PROVE WorldInv'
    <2>1. capacity \in Nat
      BY WorldAssumption
    <2> QED
      BY <1>2, <2>1, ReserveEntitiesKeeps
  <1>3. ASSUME NEW capacity \in Capacities, NEW mask \in ReservedMasks,
               ReserveArchetype(mask, capacity)
        PROVE WorldInv'
    <2>1. capacity \in Nat /\ mask \in SUBSET Nat
      BY WorldAssumption
    <2> QED
      BY <1>3, <2>1, ReserveArchetypeKeeps
  <1>4. CASE SealForRuntime
    BY <1>4, SealKeeps
  <1>5. CASE CreateEntity
    BY <1>5, CreateKeeps
  <1>6. CASE CreateEntityRollsBack
    BY <1>6, RollbackKeeps
  <1>7. ASSUME NEW entity \in Ids, DestroyEntity(entity) PROVE WorldInv'
    BY <1>7, DestroyKeeps
  <1>8. ASSUME NEW entity \in Ids, NEW type \in Types, NEW value \in Values,
               AddComponent(entity, type, value)
        PROVE WorldInv'
    BY <1>8, AddMoves, MoveKeeps
  <1>9. ASSUME NEW entity \in Ids, NEW type \in Types, NEW value \in Values,
               WriteComponent(entity, type, value)
        PROVE WorldInv'
    BY <1>9, WriteKeeps
  <1>10. ASSUME NEW entity \in Ids, NEW type \in Types, RemoveComponent(entity, type)
         PROVE WorldInv'
    BY <1>10, RemoveMoves, MoveKeeps
  <1>11. CASE UNCHANGED vars
    BY <1>11 DEF vars, WorldInv, RegistryOK, StoreOK, OneTablePerMask, Agree, LimitsOK,
                 MasksRegistered
  <1> QED
    BY <1>1, <1>2, <1>3, <1>4, <1>5, <1>6, <1>7, <1>8, <1>9, <1>10, <1>11 DEF Next

LEMMA WorldInvariant == Spec => []WorldInv
  BY WorldInitially, WorldPreserved, PTL DEF Spec

LEMMA PointsFromInv ==
    ASSUME WorldInv, NEW entity \in LiveEntities(entity_store)
    PROVE /\ Points(entity_store, archetypes, entity.index)
          /\ entity = EntityId(entity.index, Get(entity_store, entity).generation)
  <1>1. entity_store.entity_records \in Seq(Records)
    BY DEF WorldInv, StoreOK, Stores
  <1>2. /\ entity.index \in DOMAIN entity_store.entity_records
        /\ entity_store.entity_records[entity.index].alive
        /\ entity_store.entity_records[entity.index].generation = entity.generation
        /\ entity = EntityId(entity.index, entity.generation)
    BY LiveFacts
  <1>3. entity.index # 0
    BY <1>1, <1>2
  <1> QED
    BY <1>2, <1>3 DEF WorldInv, Agree, AgreeBut, Get

LEMMA OwnedFromInv ==
    ASSUME WorldInv, NEW i \in DOMAIN archetypes, NEW row \in DOMAIN archetypes[i].rows
    PROVE /\ Owned(entity_store, archetypes, i, row)
          /\ LET entity == archetypes[i].rows[row].entity
             IN entity = EntityId(entity.index, entity.generation)
  <1>1. archetypes[i] \in Tables
    BY DEF WorldInv, OneTablePerMask
  <1>2. archetypes[i].rows \in Seq(Rows)
    BY <1>1 DEF Tables
  <1>3. row \in Nat /\ archetypes[i].rows[row] \in Rows
    BY <1>2
  <1> QED
    BY <1>3, IdFacts DEF WorldInv, Agree, AgreeBut, Rows

LEMMA MatchFromInv == WorldInv => RecordsMatchRows
  <1> SUFFICES ASSUME WorldInv PROVE RecordsMatchRows
    OBVIOUS
  <1>1. ASSUME NEW entity \in LiveEntities(entity_store)
        PROVE /\ Points(entity_store, archetypes, entity.index)
              /\ entity = EntityId(entity.index, Get(entity_store, entity).generation)
    BY PointsFromInv
  <1>2. ASSUME NEW i \in DOMAIN archetypes, NEW row \in DOMAIN archetypes[i].rows
        PROVE Owned(entity_store, archetypes, i, row)
    BY OwnedFromInv
  <1> QED
    BY <1>1, <1>2 DEF RecordsMatchRows, Points, Owned, Get

\* A live entity's record points at its row, in the archetype of its components,
\* and every row is some live entity's: the swap-back of RemoveRowFromArchetype,
\* Add- and RemoveComponent's moves and CreateEntity's roll-back keep both in step.
THEOREM RecordsAlwaysMatchRows == Spec => []RecordsMatchRows
  BY WorldInvariant, MatchFromInv, PTL

\* EntityStore's free list holds each index without a live entity once, and its
\* count is the number of live entities, after any creations, roll-backs and
\* destructions.
THEOREM FreeListStaysExact == Spec => []FreeListExact
  <1>1. WorldInv => FreeListExact
    BY DEF WorldInv, StoreOK, FreeExact, CountExact, FreeListExact
  <1> QED
    BY <1>1, WorldInvariant, PTL

\* Once SealForRuntime was called, neither CreateEntity nor a move to another
\* archetype goes beyond what was reserved.
THEOREM SealedStaysWithinLimits == Spec => []SealedWithinLimits
  <1>1. WorldInv => SealedWithinLimits
    BY DEF WorldInv, LimitsOK, SealedWithinLimits, Range
  <1> QED
    BY <1>1, WorldInvariant, PTL

-----------------------------------------------------------------------------
(* Queries.  The row of a matching entity is a place that ForEach visits,  *)
(* and no two entities have the same.                                      *)

Matching(query) ==
  {entity \in LiveEntities(entity_store) :
     query \subseteq Get(entity_store, entity).component_mask}

LEMMA OneVisitEach ==
    ASSUME WorldInv, NEW query
    PROVE /\ {archetypes[p[1]].rows[p[2]].entity : p \in ForEachVisits(query)} = Matching(query)
          /\ Cardinality(ForEachVisits(query)) = Cardinality(Matching(query))
  <1> DEFINE visits == ForEachVisits(query)
             matching == Matching(query)
             Place(e) == <<Get(entity_store, e).archetype_index,
                           Get(entity_store, e).row_in_archetype>>
             EntityAt(p) == archetypes[p[1]].rows[p[2]].entity
             place == [e \in matching |-> Place(e)]
  <1>1. ASSUME NEW i, NEW row, i \in DOMAIN archetypes, row \in DOMAIN archetypes[i].rows,
               query \subseteq archetypes[i].mask
        PROVE <<i, row>> \in visits
    <2>1. <<i, row>> \in {i} \X DOMAIN archetypes[i].rows
      BY <1>1
    <2> QED
      BY <1>1, <2>1 DEF ForEachVisits, Matches
  <1>2. ASSUME NEW p \in visits
        PROVE /\ p = <<p[1], p[2]>>
              /\ p[1] \in DOMAIN archetypes /\ p[2] \in DOMAIN archetypes[p[1]].rows
              /\ query \subseteq archetypes[p[1]].mask
    <2>1. /\ query \subseteq archetypes[p[1]].mask
          /\ \E i \in DOMAIN archetypes : p \in {i} \X DOMAIN archetypes[i].rows
      BY DEF ForEachVisits, Matches
    <2> QED
      BY <2>1
  <1>3. ASSUME NEW entity \in matching
        PROVE Place(entity) \in visits /\ EntityAt(Place(entity)) = entity
    <2>1. /\ entity \in LiveEntities(entity_store)
          /\ query \subseteq Get(entity_store, entity).component_mask
      BY DEF Matching
    <2>2. LET record == Get(entity_store, entity)
              archetype == archetypes[record.archetype_index]
          IN /\ record.archetype_index \in DOMAIN archetypes
             /\ archetype.mask = record.component_mask
             /\ record.row_in_archetype \in DOMAIN archetype.rows
             /\ archetype.rows[record.row_in_archetype].entity = entity
      BY <2>1, PointsFromInv DEF Points, Get
    <2> QED
      BY <1>1, <2>1, <2>2
  <1>4. ASSUME NEW p \in visits
        PROVE EntityAt(p) \in matching /\ Place(EntityAt(p)) = p
    <2> DEFINE entity == EntityAt(p)
    <2>1. /\ p = <<p[1], p[2]>>
          /\ p[1] \in DOMAIN archetypes /\ p[2] \in DOMAIN archetypes[p[1]].rows
          /\ query \subseteq archetypes[p[1]].mask
      BY <1>2
    <2>2. /\ Resolves(entity_store, entity)
          /\ Get(entity_store, entity).archetype_index = p[1]
          /\ Get(entity_store, entity).row_in_archetype = p[2]
          /\ entity = EntityId(entity.index, entity.generation)
      BY <2>1, OwnedFromInv DEF Owned
    <2> HIDE DEF entity
    <2>3. entity \in LiveEntities(entity_store)
      BY <2>2, LiveFacts DEF Resolves
    <2>4. archetypes[p[1]].mask = Get(entity_store, entity).component_mask
      BY <2>2, <2>3, PointsFromInv DEF Points, Get
    <2>5. entity \in matching
      BY <2>1, <2>3, <2>4 DEF Matching
    <2>6. Place(entity) = p
      BY <2>1, <2>2
    <2> QED
      BY <2>5, <2>6 DEF entity
  <1> HIDE DEF visits, matching, Place, EntityAt
  <1>5. {EntityAt(p) : p \in visits} = matching
    BY <1>3, <1>4
  <1>6. place \in Bijection(matching, visits)
    <2>1. place \in [matching -> visits]
      BY <1>3
    <2>2. \A a, b \in DOMAIN place : place[a] = place[b] => a = b
      BY <1>3
    <2>3. \A p \in visits : \E e \in matching : place[e] = p
      BY <1>4
    <2> QED
      BY <2>1, <2>2, <2>3 DEF Bijection, Injection, Surjection, IsInjective
  <1>7. IsFiniteSet(matching)
    <2>1. IsFiniteSet(LiveEntities(entity_store))
      BY DEF WorldInv, StoreOK, CountExact
    <2>2. matching \in SUBSET LiveEntities(entity_store)
      BY DEF matching, Matching
    <2> QED
      BY <2>1, <2>2, FS_Subset
  <1>8. Cardinality(visits) = Cardinality(matching)
    BY <1>6, <1>7, FS_Bijection DEF ExistsBijection
  <1> QED
    BY <1>5, <1>8 DEF visits, matching, EntityAt

\* ForEach calls back once for each live entity that has the components of its
\* query, and for nothing else, wherever the moves have put the rows.
THEOREM QueriesVisitMatches == Spec => []ForEachVisitsMatches
  <1>1. WorldInv => ForEachVisitsMatches
    <2> SUFFICES ASSUME WorldInv PROVE ForEachVisitsMatches
      OBVIOUS
    <2>1. ASSUME NEW query \in (SUBSET Registered) \ {{}}
          PROVE /\ {archetypes[p[1]].rows[p[2]].entity : p \in ForEachVisits(query)}
                     = Matching(query)
                /\ Cardinality(ForEachVisits(query)) = Cardinality(Matching(query))
      BY OneVisitEach
    <2> QED
      BY <2>1 DEF ForEachVisitsMatches, Matching
  <1> QED
    BY <1>1, WorldInvariant, PTL

-----------------------------------------------------------------------------
(* The refinement.  When no mask with the bit of an unregistered type is   *)
(* reserved, every archetype has its columns, and every entity a value for *)
(* each of its components.                                                 *)

ValuesComplete ==
  \A j \in DOMAIN entity_store.entity_records :
    entity_store.entity_records[j].alive =>
      entity_store.entity_records[j].component_mask
        \subseteq DOMAIN RowOf(entity_store, archetypes, j).values

ValuesInv == CompleteColumns(archetypes) /\ ValuesComplete

IndexIn(types, type) == CHOOSE i \in DOMAIN types : types[i] = type

\* The components and values in a row.
Content(types, mask, row) ==
  [type \in {types[c] : c \in mask} |->
     row.values[IndexIn(types, type)]]

LEMMA ComponentsAreContent ==
    /\ \A e : ComponentsOf(e) =
         Content(component_types, entity_store.entity_records[e.index].component_mask,
                 RowOf(entity_store, archetypes, e.index))
    /\ \A e : ComponentsOf(e)' =
         Content(component_types', entity_store'.entity_records[e.index].component_mask,
                 RowOf(entity_store', archetypes', e.index))
  BY DEF ComponentsOf, Content, IndexIn, RowOf, Get, TypeIndex, Registered

LEMMA IndexOfType ==
    ASSUME NEW types, IsInjective(types), NEW c \in DOMAIN types
    PROVE IndexIn(types, types[c]) = c
  BY DEF IndexIn, IsInjective

\* A type more changes nothing.
LEMMA ContentExtended ==
    ASSUME NEW types, NEW more, IsInjective(types), IsInjective(more),
           DOMAIN types \subseteq DOMAIN more,
           \A c \in DOMAIN types : more[c] = types[c],
           NEW mask, mask \subseteq DOMAIN types, NEW row
    PROVE Content(more, mask, row) = Content(types, mask, row)
  <1>1. {more[c] : c \in mask} = {types[c] : c \in mask}
    OBVIOUS
  <1>2. ASSUME NEW type \in {types[c] : c \in mask}
        PROVE IndexIn(more, type)
                = IndexIn(types, type)
    <2>1. PICK c \in mask : type = types[c]
      OBVIOUS
    <2>2. c \in DOMAIN types /\ c \in DOMAIN more /\ type = more[c]
      BY <2>1
    <2>3. IndexIn(more, more[c]) = c
      BY <2>2, IndexOfType
    <2>4. IndexIn(types, types[c]) = c
      BY <2>2, IndexOfType
    <2> QED
      BY <2>1, <2>2, <2>3, <2>4
  <1> QED
    BY <1>1, <1>2 DEF Content

\* A function with one value changed or added.
Updated(f, x, value) == [y \in DOMAIN f \cup {x} |-> IF y = x THEN value ELSE f[y]]

\* A row with the value of one component changed or added, or the component gone.
RowPut(row, row2, mask, c, value) ==
  /\ row2.values[c] = value
  /\ \A b \in mask \ {c} : row2.values[b] = row.values[b]

RowDrop(row, row2, mask, c) ==
  \A b \in mask \ {c} : row2.values[b] = row.values[b]

LEMMA ContentPut ==
    ASSUME NEW types, IsInjective(types), NEW mask, mask \subseteq DOMAIN types,
           NEW c \in DOMAIN types, NEW value, NEW row, NEW row2,
           RowPut(row, row2, mask, c, value)
    PROVE Content(types, mask \cup {c}, row2)
            = Updated(Content(types, mask, row), types[c], value)
  <1> DEFINE before == Content(types, mask, row)
             after == Content(types, mask \cup {c}, row2)
  <1>1. DOMAIN before = {types[b] : b \in mask}
    BY DEF Content
  <1>2. DOMAIN after = DOMAIN before \cup {types[c]}
    BY <1>1 DEF Content
  <1>3. ASSUME NEW type \in DOMAIN after
        PROVE after[type] = IF type = types[c] THEN value ELSE before[type]
    <2>1. PICK b \in mask \cup {c} : type = types[b]
      BY <1>1, <1>2
    <2>2. b \in DOMAIN types /\ IndexIn(types, type) = b
      BY <2>1, IndexOfType
    <2>3. after[type] = row2.values[b]
      BY <1>1, <1>2, <2>2 DEF Content
    <2>4. CASE b = c
      BY <2>1, <2>3, <2>4 DEF RowPut
    <2>5. CASE b # c
      <3>1. type # types[c] /\ b \in mask
        BY <2>1, <2>2, <2>5 DEF IsInjective
      <3>2. before[type] = row.values[b]
        BY <1>1, <2>1, <2>2, <3>1 DEF Content
      <3> QED
        BY <2>3, <2>5, <3>1, <3>2 DEF RowPut
    <2> QED
      BY <2>4, <2>5
  <1>4. after = [type \in DOMAIN after |-> after[type]]
    BY DEF Content
  <1> HIDE DEF before, after
  <1>5. after = Updated(before, types[c], value)
    BY <1>2, <1>3, <1>4 DEF Updated
  <1> QED
    BY <1>5 DEF before, after

Without(f, x) == Restrict(f, DOMAIN f \ {x})

LEMMA ContentDrop ==
    ASSUME NEW types, IsInjective(types), NEW mask, mask \subseteq DOMAIN types,
           NEW c \in mask, NEW row, NEW row2, RowDrop(row, row2, mask, c)
    PROVE Content(types, mask \ {c}, row2) = Without(Content(types, mask, row), types[c])
  <1> DEFINE before == Content(types, mask, row)
             after == Content(types, mask \ {c}, row2)
  <1>1. DOMAIN before = {types[b] : b \in mask} /\ DOMAIN after = {types[b] : b \in mask \ {c}}
    BY DEF Content
  <1>2. DOMAIN after = DOMAIN before \ {types[c]}
    BY <1>1 DEF IsInjective
  <1>3. ASSUME NEW type \in DOMAIN after PROVE after[type] = before[type]
    <2>1. PICK b \in mask \ {c} : type = types[b]
      BY <1>1
    <2>2. IndexIn(types, type) = b
      BY <2>1, IndexOfType
    <2>3. after[type] = row2.values[b] /\ before[type] = row.values[b]
      BY <1>1, <2>1, <2>2 DEF Content
    <2> QED
      BY <2>1, <2>3 DEF RowDrop
  <1>4. after = [type \in DOMAIN after |-> after[type]]
    BY DEF Content
  <1> HIDE DEF before, after
  <1>5. after = Without(before, types[c])
    BY <1>2, <1>3, <1>4 DEF Restrict, Without
  <1> QED
    BY <1>5 DEF before, after


\* What callers see.
Contents == [entity \in LiveEntities(entity_store) |-> ComponentsOf(entity)]

LEMMA SameEntities ==
    ASSUME DOMAIN entity_store'.entity_records = DOMAIN entity_store.entity_records,
           \A j \in DOMAIN entity_store.entity_records :
             /\ entity_store'.entity_records[j].alive = entity_store.entity_records[j].alive
             /\ entity_store'.entity_records[j].generation
                  = entity_store.entity_records[j].generation
    PROVE Issued' = Issued /\ LiveEntities(entity_store') = LiveEntities(entity_store)
  <1>1. LiveEntities(entity_store') = LiveEntities(entity_store)
    <2>1. ASSUME NEW x \in LiveEntities(entity_store) PROVE x \in LiveEntities(entity_store')
      BY LiveFacts
    <2>2. ASSUME NEW x \in LiveEntities(entity_store') PROVE x \in LiveEntities(entity_store)
      BY LiveFacts
    <2> QED
      BY <2>1, <2>2
  <1>2. Issued' = Issued
    BY DEF Issued
  <1> QED
    BY <1>1, <1>2

\* An entity whose row and mask stay has the same components.
LEMMA EntryKept ==
    ASSUME WorldInv, WorldInv',
           DOMAIN component_types \subseteq DOMAIN component_types',
           \A c \in DOMAIN component_types : component_types'[c] = component_types[c],
           NEW x \in LiveEntities(entity_store),
           entity_store'.entity_records[x.index].component_mask
             = entity_store.entity_records[x.index].component_mask,
           RowOf(entity_store', archetypes', x.index) = RowOf(entity_store, archetypes, x.index)
    PROVE ComponentsOf(x)' = ComponentsOf(x)
  <1> DEFINE mask == entity_store.entity_records[x.index].component_mask
             row == RowOf(entity_store, archetypes, x.index)
  <1>1. mask \subseteq DOMAIN component_types
    BY LiveFacts DEF WorldInv, MasksRegistered
  <1>2. IsInjective(component_types) /\ IsInjective(component_types')
    BY DEF WorldInv, RegistryOK
  <1>3. ComponentsOf(x) = Content(component_types, mask, row)
    BY ComponentsAreContent
  <1>4. ComponentsOf(x)' = Content(component_types', mask, row)
    BY ComponentsAreContent
  <1> HIDE DEF mask, row
  <1> QED
    BY <1>1, <1>2, <1>3, <1>4, ContentExtended

\* A step that only moves rows, or adds tables and types.
LEMMA NothingShows ==
    ASSUME WorldInv, WorldInv',
           DOMAIN component_types \subseteq DOMAIN component_types',
           \A c \in DOMAIN component_types : component_types'[c] = component_types[c],
           DOMAIN entity_store'.entity_records = DOMAIN entity_store.entity_records,
           \A j \in DOMAIN entity_store.entity_records :
             /\ entity_store'.entity_records[j].alive = entity_store.entity_records[j].alive
             /\ entity_store'.entity_records[j].generation
                  = entity_store.entity_records[j].generation
             /\ entity_store.entity_records[j].alive =>
                  entity_store'.entity_records[j].component_mask
                    = entity_store.entity_records[j].component_mask,
           SameRows(entity_store, archetypes, entity_store', archetypes', 0)
    PROVE /\ UNCHANGED <<Issued, Contents>>
          /\ ValuesComplete => ValuesComplete'
  <1>1. Issued' = Issued /\ LiveEntities(entity_store') = LiveEntities(entity_store)
    BY SameEntities
  <1>2. \A j \in DOMAIN entity_store.entity_records : j # 0
    BY DEF WorldInv, StoreOK, Stores
  <1>3. ASSUME NEW j \in DOMAIN entity_store.entity_records, entity_store.entity_records[j].alive
        PROVE RowOf(entity_store', archetypes', j) = RowOf(entity_store, archetypes, j)
    BY <1>2, <1>3 DEF SameRows
  <1>4. ASSUME NEW x \in LiveEntities(entity_store) PROVE ComponentsOf(x)' = ComponentsOf(x)
    <2>1. x.index \in DOMAIN entity_store.entity_records
          /\ entity_store.entity_records[x.index].alive
      BY LiveFacts
    <2>2. RowOf(entity_store', archetypes', x.index) = RowOf(entity_store, archetypes, x.index)
      BY <1>3, <2>1
    <2>3. entity_store'.entity_records[x.index].component_mask
            = entity_store.entity_records[x.index].component_mask
      BY <2>1
    <2> QED
      BY <2>2, <2>3, EntryKept
  <1>5. Contents' = Contents
    BY <1>1, <1>4 DEF Contents
  <1>6. ValuesComplete => ValuesComplete'
    BY <1>3 DEF ValuesComplete
  <1> QED
    BY <1>1, <1>5, <1>6

\* A step that changes the components of one entity, and nothing else.
LEMMA OneShows ==
    ASSUME WorldInv, WorldInv', component_types' = component_types,
           NEW entity, Resolves(entity_store, entity),
           entity = EntityId(entity.index, entity.generation),
           DOMAIN entity_store'.entity_records = DOMAIN entity_store.entity_records,
           \A j \in DOMAIN entity_store.entity_records :
             /\ entity_store'.entity_records[j].alive = entity_store.entity_records[j].alive
             /\ entity_store'.entity_records[j].generation
                  = entity_store.entity_records[j].generation,
           \A j \in DOMAIN entity_store.entity_records \ {entity.index} :
             entity_store'.entity_records[j].component_mask
               = entity_store.entity_records[j].component_mask,
           SameRows(entity_store, archetypes, entity_store', archetypes', entity.index)
    PROVE /\ UNCHANGED Issued
          /\ entity \in DOMAIN Contents
          /\ Contents[entity] = ComponentsOf(entity)
          /\ Contents' = [Contents EXCEPT ![entity] = ComponentsOf(entity)']
          /\ ValuesComplete
             /\ entity_store'.entity_records[entity.index].component_mask
                  \subseteq DOMAIN RowOf(entity_store', archetypes', entity.index).values =>
               ValuesComplete'
  <1>1. Issued' = Issued /\ LiveEntities(entity_store') = LiveEntities(entity_store)
    BY SameEntities
  <1>2. entity \in LiveEntities(entity_store)
    BY LiveFacts DEF Resolves
  <1>3. ASSUME NEW j \in DOMAIN entity_store.entity_records \ {entity.index},
               entity_store.entity_records[j].alive
        PROVE RowOf(entity_store', archetypes', j) = RowOf(entity_store, archetypes, j)
    BY <1>3 DEF SameRows
  <1>4. ASSUME NEW x \in LiveEntities(entity_store), x # entity
        PROVE ComponentsOf(x)' = ComponentsOf(x)
    <2>1. /\ x.index \in DOMAIN entity_store.entity_records
          /\ entity_store.entity_records[x.index].alive
          /\ entity_store.entity_records[x.index].generation = x.generation
          /\ x = EntityId(x.index, x.generation)
      BY LiveFacts
    <2>2. x.index # entity.index
      BY <1>4, <2>1 DEF Resolves
    <2>3. RowOf(entity_store', archetypes', x.index) = RowOf(entity_store, archetypes, x.index)
      BY <1>3, <2>1, <2>2
    <2>4. entity_store'.entity_records[x.index].component_mask
            = entity_store.entity_records[x.index].component_mask
      BY <2>1, <2>2
    <2> QED
      BY <2>3, <2>4, EntryKept
  <1>5. Contents' = [Contents EXCEPT ![entity] = ComponentsOf(entity)']
    BY <1>1, <1>2, <1>4 DEF Contents
  <1>6. ASSUME ValuesComplete,
               entity_store'.entity_records[entity.index].component_mask
                 \subseteq DOMAIN RowOf(entity_store', archetypes', entity.index).values
        PROVE ValuesComplete'
    BY <1>3, <1>6 DEF ValuesComplete
  <1> QED
    BY <1>1, <1>2, <1>5, <1>6 DEF Contents


\* The new row of an entity that moved has a value for each component of its
\* mask: the written one, or the one it had.
LEMMA MovedContent ==
    ASSUME WorldInv, ValuesInv, NEW entity \in Ids, Resolves(entity_store, entity),
           NEW target_mask \in SUBSET Nat, target_mask \subseteq DOMAIN component_types,
           target_mask # Get(entity_store, entity).component_mask,
           NEW written, \A c \in DOMAIN written : written[c] \in Values,
           MoveEntity(entity, target_mask, written)
    PROVE LET mask == Get(entity_store, entity).component_mask
              before == RowOf(entity_store, archetypes, entity.index).values
              after == RowOf(entity_store', archetypes', entity.index).values
          IN /\ target_mask \subseteq DOMAIN after
             /\ \A c \in target_mask \cap DOMAIN written : after[c] = written[c]
             /\ \A c \in (target_mask \cap mask) \ DOMAIN written : after[c] = before[c]
             /\ CompleteColumns(archetypes')
  <1> DEFINE tables == GetOrCreate(archetypes, target_mask, Registered,
                                   InitialArchetypeEntityCapacity)
             d == ArchetypeIndex(tables, target_mask)
             record == entity_store.entity_records[entity.index]
             mask == record.component_mask
             values == MovedValues(tables, entity, entity_store, target_mask, written)
             before == RowOf(entity_store, archetypes, entity.index).values
             after == RowOf(entity_store', archetypes', entity.index).values
  <1>1. /\ CompleteColumns(tables) /\ CompleteColumns(archetypes')
        /\ d \in DOMAIN tables /\ tables[d].mask = target_mask
        /\ \A k \in DOMAIN archetypes : tables[k] = archetypes[k]
        /\ RowOf(entity_store', archetypes', entity.index) =
             [entity |-> entity,
              values |-> [c \in tables[d].columns |->
                            IF c \in DOMAIN values THEN values[c] ELSE ZeroValue]]
    BY MoveKeeps DEF ValuesInv
  <1>2. after = [c \in tables[d].columns |->
                   IF c \in DOMAIN values THEN values[c] ELSE ZeroValue]
    BY <1>1
  <1>3. /\ entity.index \in DOMAIN entity_store.entity_records /\ record.alive
        /\ entity.index # 0
    BY DEF Resolves, WorldInv, StoreOK, Stores
  <1>4. record.archetype_index \in DOMAIN archetypes
    BY <1>3 DEF WorldInv, Agree, AgreeBut, Points
  <1>5. before = tables[record.archetype_index].rows[record.row_in_archetype].values
    BY <1>1, <1>4 DEF RowOf
  <1>6. mask \subseteq DOMAIN before
    BY <1>3 DEF ValuesInv, ValuesComplete
  <1>7. target_mask \subseteq tables[d].columns
    BY <1>1 DEF CompleteColumns
  <1>8. /\ DOMAIN written \subseteq DOMAIN values
        /\ \A c \in DOMAIN written : values[c] = written[c]
        /\ mask \cap target_mask \subseteq DOMAIN values
        /\ \A c \in (mask \cap target_mask) \ DOMAIN written : values[c] = before[c]
    <2> DEFINE shared == SharedComponents(tables, record.archetype_index,
                                          record.row_in_archetype, mask \cap target_mask)
    <2>1. shared = Restrict(before, (mask \cap target_mask) \cap DOMAIN before)
      BY <1>5 DEF SharedComponents
    <2>2. values = [c \in DOMAIN written \cup DOMAIN shared |->
                      IF c \in DOMAIN written THEN written[c] ELSE shared[c]]
      BY DEF MovedValues, Get
    <2> HIDE DEF shared, values, before, mask
    <2>3. /\ DOMAIN shared = mask \cap target_mask
          /\ \A c \in mask \cap target_mask : shared[c] = before[c]
      BY <1>6, <2>1 DEF Restrict
    <2> QED
      BY <2>2, <2>3
  <1> HIDE DEF tables, d, values, before, after
  <1>9. /\ target_mask \subseteq DOMAIN after
        /\ \A c \in target_mask \cap DOMAIN written : after[c] = written[c]
        /\ \A c \in (target_mask \cap mask) \ DOMAIN written : after[c] = before[c]
    BY <1>2, <1>7, <1>8
  <1> QED
    BY <1>1, <1>9 DEF before, after, Get

LEMMA AddPuts ==
    ASSUME WorldInv, ValuesInv, NEW entity \in Ids, NEW type \in Types, NEW value \in Values,
           AddComponent(entity, type, value)
    PROVE ValuesInv' /\ [Map!EntityMapNext]_<<Issued, Contents>>
  <1> DEFINE c == TypeIndex(type)
             mask == Get(entity_store, entity).component_mask
             target == mask \cup {c}
             written == Written(c, value)
             row == RowOf(entity_store, archetypes, entity.index)
             row2 == RowOf(entity_store', archetypes', entity.index)
  <1>1. /\ Resolves(entity_store, entity) /\ type \in Range(component_types)
        /\ c \in DOMAIN component_types /\ c \notin mask /\ component_types[c] = type
        /\ target \in SUBSET Nat /\ target \subseteq DOMAIN component_types /\ target # mask
        /\ \A b \in DOMAIN written : written[b] \in Values
        /\ MoveEntity(entity, target, written)
    BY AddMoves
  <1> HIDE DEF c, mask, target, written
  <1>2. /\ WorldInv'
        /\ DOMAIN entity_store'.entity_records = DOMAIN entity_store.entity_records
        /\ \A j \in DOMAIN entity_store.entity_records :
             /\ entity_store'.entity_records[j].alive = entity_store.entity_records[j].alive
             /\ entity_store'.entity_records[j].generation
                  = entity_store.entity_records[j].generation
        /\ \A j \in DOMAIN entity_store.entity_records \ {entity.index} :
             entity_store'.entity_records[j].component_mask
               = entity_store.entity_records[j].component_mask
        /\ entity_store'.entity_records[entity.index].component_mask = target
        /\ SameRows(entity_store, archetypes, entity_store', archetypes', entity.index)
        /\ UNCHANGED component_types
    BY <1>1, MoveKeeps DEF mask
  <1>3. /\ target \subseteq DOMAIN row2.values
        /\ \A b \in target \cap DOMAIN written : row2.values[b] = written[b]
        /\ \A b \in (target \cap mask) \ DOMAIN written : row2.values[b] = row.values[b]
        /\ CompleteColumns(archetypes')
    BY <1>1, MovedContent DEF mask
  <1>4. entity = EntityId(entity.index, entity.generation)
    BY IdFacts
  <1>5. /\ UNCHANGED Issued
        /\ entity \in DOMAIN Contents /\ Contents[entity] = ComponentsOf(entity)
        /\ Contents' = [Contents EXCEPT ![entity] = ComponentsOf(entity)']
        /\ ValuesComplete'
    BY <1>1, <1>2, <1>3, <1>4, OneShows DEF ValuesInv
  <1>6. ComponentsOf(entity) = Content(component_types, mask, row)
        /\ ComponentsOf(entity)' = Content(component_types, mask \cup {c}, row2)
    BY <1>2, ComponentsAreContent DEF mask, target, Get
  <1>7. /\ IsInjective(component_types) /\ mask \subseteq DOMAIN component_types
        /\ c \in DOMAIN component_types
        /\ RowPut(row, row2, mask, c, value)
    <2>1. IsInjective(component_types)
      BY DEF WorldInv, RegistryOK
    <2> QED
      BY <1>1, <1>3, <2>1 DEF target, written, Written, RowPut
  <1> HIDE DEF row, row2
  <1>8. ComponentsOf(entity)' = Updated(Contents[entity], type, value)
    <2>1. Content(component_types, mask \cup {c}, row2)
            = Updated(Content(component_types, mask, row), component_types[c], value)
      BY <1>7, ContentPut
    <2> QED
      BY <1>1, <1>5, <1>6, <2>1
  <1>9. Map!Put(entity, type, value)
    BY <1>5, <1>8 DEF Map!Put, Contents, Updated
  <1> QED
    BY <1>3, <1>5, <1>9 DEF ValuesInv, Map!EntityMapNext, Contents


LEMMA WritePuts ==
    ASSUME WorldInv, ValuesInv, NEW entity \in Ids, NEW type \in Types, NEW value \in Values,
           WriteComponent(entity, type, value)
    PROVE ValuesInv' /\ [Map!EntityMapNext]_<<Issued, Contents>>
  <1> DEFINE c == TypeIndex(type)
             mask == Get(entity_store, entity).component_mask
             row == RowOf(entity_store, archetypes, entity.index)
             row2 == RowOf(entity_store', archetypes', entity.index)
  <1>1. /\ Resolves(entity_store, entity) /\ type \in Range(component_types) /\ c \in mask
    BY DEF WriteComponent
  <1>2. /\ WorldInv'
        /\ UNCHANGED <<entity_store, component_types>>
        /\ SameRows(entity_store, archetypes, entity_store', archetypes', entity.index)
        /\ row2 = [row EXCEPT !.values = [row.values EXCEPT ![c] = value]]
        /\ DOMAIN archetypes' = DOMAIN archetypes
        /\ \A k \in DOMAIN archetypes :
             /\ archetypes'[k].mask = archetypes[k].mask
             /\ archetypes'[k].columns = archetypes[k].columns
    BY WriteKeeps
  <1>3. c \in DOMAIN component_types /\ component_types[c] = type
    BY <1>1, TypeIndexFacts DEF WorldInv
  <1> HIDE DEF c
  <1>4. CompleteColumns(archetypes')
    BY <1>2 DEF ValuesInv, CompleteColumns
  <1>5. /\ entity.index \in DOMAIN entity_store.entity_records
        /\ entity_store.entity_records[entity.index].alive /\ entity.index # 0
    BY <1>1 DEF Resolves, WorldInv, StoreOK, Stores
  <1>6. mask \subseteq DOMAIN row.values
    BY <1>5 DEF ValuesInv, ValuesComplete, Get
  <1>7. row2.values = [row.values EXCEPT ![c] = value]
    <2>1. row \in Rows
      <3>1. Points(entity_store, archetypes, entity.index)
        BY <1>5 DEF WorldInv, Agree, AgreeBut
      <3> DEFINE i == entity_store.entity_records[entity.index].archetype_index
      <3>2. archetypes[i] \in Tables
        BY <3>1 DEF Points, WorldInv, OneTablePerMask
      <3>3. archetypes[i].rows \in Seq(Rows)
        BY <3>2 DEF Tables
      <3> QED
        BY <3>1, <3>3 DEF Points, RowOf
    <2> HIDE DEF row, row2
    <2> QED
      BY <1>2, <2>1 DEF Rows
  <1>8. entity = EntityId(entity.index, entity.generation)
    BY IdFacts
  <1>9. mask \subseteq DOMAIN row2.values
    BY <1>6, <1>7
  <1>10. /\ UNCHANGED Issued
         /\ entity \in DOMAIN Contents /\ Contents[entity] = ComponentsOf(entity)
         /\ Contents' = [Contents EXCEPT ![entity] = ComponentsOf(entity)']
         /\ ValuesComplete'
    BY <1>1, <1>2, <1>8, <1>9, OneShows DEF ValuesInv, Get
  <1>11. /\ ComponentsOf(entity) = Content(component_types, mask, row)
         /\ ComponentsOf(entity)' = Content(component_types, mask, row2)
         /\ mask \cup {c} = mask
    BY <1>1, <1>2, ComponentsAreContent DEF Get
  <1>12. /\ IsInjective(component_types) /\ mask \subseteq DOMAIN component_types
         /\ c \in DOMAIN component_types
         /\ RowPut(row, row2, mask, c, value)
    <2>1. IsInjective(component_types) /\ mask \subseteq DOMAIN component_types
      BY <1>5 DEF WorldInv, RegistryOK, MasksRegistered, Get
    <2> QED
      BY <1>1, <1>3, <1>6, <1>7, <2>1 DEF RowPut
  <1> HIDE DEF row, row2, mask
  <1>13. ComponentsOf(entity)' = Updated(Contents[entity], type, value)
    <2>1. Content(component_types, mask \cup {c}, row2)
            = Updated(Content(component_types, mask, row), component_types[c], value)
      BY <1>12, ContentPut
    <2> QED
      BY <1>3, <1>10, <1>11, <2>1
  <1>14. Map!Put(entity, type, value)
    BY <1>10, <1>13 DEF Map!Put, Contents, Updated
  <1> QED
    BY <1>4, <1>10, <1>14 DEF ValuesInv, Map!EntityMapNext, Contents

LEMMA RemoveDrops ==
    ASSUME WorldInv, ValuesInv, NEW entity \in Ids, NEW type \in Types,
           RemoveComponent(entity, type)
    PROVE ValuesInv' /\ [Map!EntityMapNext]_<<Issued, Contents>>
  <1> DEFINE c == TypeIndex(type)
             mask == Get(entity_store, entity).component_mask
             target == mask \ {c}
             row == RowOf(entity_store, archetypes, entity.index)
             row2 == RowOf(entity_store', archetypes', entity.index)
  <1>1. /\ Resolves(entity_store, entity) /\ type \in Range(component_types)
        /\ c \in DOMAIN component_types /\ c \in mask /\ component_types[c] = type
        /\ target \in SUBSET Nat /\ target \subseteq DOMAIN component_types /\ target # mask
        /\ \A b \in DOMAIN <<>> : <<>>[b] \in Values
        /\ MoveEntity(entity, target, <<>>)
    BY RemoveMoves
  <1> HIDE DEF c, mask, target
  <1>2. /\ WorldInv'
        /\ DOMAIN entity_store'.entity_records = DOMAIN entity_store.entity_records
        /\ \A j \in DOMAIN entity_store.entity_records :
             /\ entity_store'.entity_records[j].alive = entity_store.entity_records[j].alive
             /\ entity_store'.entity_records[j].generation
                  = entity_store.entity_records[j].generation
        /\ \A j \in DOMAIN entity_store.entity_records \ {entity.index} :
             entity_store'.entity_records[j].component_mask
               = entity_store.entity_records[j].component_mask
        /\ entity_store'.entity_records[entity.index].component_mask = target
        /\ SameRows(entity_store, archetypes, entity_store', archetypes', entity.index)
        /\ UNCHANGED component_types
    BY <1>1, MoveKeeps DEF mask
  <1>3. /\ target \subseteq DOMAIN row2.values
        /\ \A b \in (target \cap mask) \ DOMAIN <<>> : row2.values[b] = row.values[b]
        /\ CompleteColumns(archetypes')
    BY <1>1, MovedContent DEF mask
  <1>4. entity = EntityId(entity.index, entity.generation)
    BY IdFacts
  <1>5. /\ UNCHANGED Issued
        /\ entity \in DOMAIN Contents /\ Contents[entity] = ComponentsOf(entity)
        /\ Contents' = [Contents EXCEPT ![entity] = ComponentsOf(entity)']
        /\ ValuesComplete'
    BY <1>1, <1>2, <1>3, <1>4, OneShows DEF ValuesInv
  <1>6. ComponentsOf(entity) = Content(component_types, mask, row)
        /\ ComponentsOf(entity)' = Content(component_types, mask \ {c}, row2)
    BY <1>2, ComponentsAreContent DEF mask, target, Get
  <1>7. /\ IsInjective(component_types) /\ mask \subseteq DOMAIN component_types
        /\ c \in mask
        /\ RowDrop(row, row2, mask, c)
    <2>1. IsInjective(component_types)
      BY DEF WorldInv, RegistryOK
    <2>2. DOMAIN <<>> = {}
      OBVIOUS
    <2>3. mask \subseteq DOMAIN component_types
      BY <1>1 DEF target
    <2>4. RowDrop(row, row2, mask, c)
      BY <1>3, <2>2 DEF target, RowDrop
    <2> QED
      BY <1>1, <2>1, <2>3, <2>4
  <1> HIDE DEF row, row2
  <1>8. ComponentsOf(entity)' = Without(Contents[entity], type)
    <2>1. Content(component_types, mask \ {c}, row2)
            = Without(Content(component_types, mask, row), component_types[c])
      BY <1>7, ContentDrop
    <2> QED
      BY <1>1, <1>5, <1>6, <2>1
  <1>9. Map!Drop(entity, type)
    BY <1>5, <1>8 DEF Map!Drop, Contents, Without, Restrict, Map!Restrict
  <1> QED
    BY <1>3, <1>5, <1>9 DEF ValuesInv, Map!EntityMapNext, Contents


LEMMA CreateCreates ==
    ASSUME WorldInv, ValuesInv, CreateEntity,
           NEW entity, entity = AcquireEntity(entity_store).entity
    PROVE ValuesInv' /\ [Map!EntityMapNext]_<<Issued, Contents>>
  <1> DEFINE records == entity_store.entity_records
             records2 == entity_store'.entity_records
  <1>1. /\ WorldInv' /\ entity \in Ids
        /\ entity.index \in DOMAIN records =>
             ~records[entity.index].alive /\ records[entity.index].generation = entity.generation
        /\ entity.index \notin DOMAIN records => entity.generation = 1
        /\ DOMAIN records2 = DOMAIN records \cup {entity.index}
        /\ \A j \in DOMAIN records \ {entity.index} : records2[j] = records[j]
        /\ records2[entity.index].alive
        /\ records2[entity.index].generation = entity.generation
        /\ records2[entity.index].component_mask = {}
        /\ SameRows(entity_store, archetypes, entity_store', archetypes', entity.index)
        /\ CompleteColumns(archetypes')
        /\ UNCHANGED component_types
    BY CreateKeeps DEF ValuesInv
  <1>2. /\ entity = EntityId(entity.index, entity.generation)
        /\ entity.generation \in 1 .. LastGeneration
    BY <1>1, IdFacts
  <1>3. /\ entity \notin LiveEntities(entity_store)
        /\ LiveEntities(entity_store') = LiveEntities(entity_store) \cup {entity}
    BY <1>1, <1>2, LiveCreated
  <1>4. entity \notin Issued
    BY <1>1, <1>2 DEF Issued
  <1>5. Issued' = Issued \cup {entity}
    <2>1. ASSUME NEW id \in Ids
          PROVE (id \in Issued') <=> (id \in Issued \/ id = entity)
      <3>1. id = EntityId(id.index, id.generation) /\ id.generation \in 1 .. LastGeneration
        BY IdFacts
      <3>3. CASE id.index # entity.index
        <4>1. id # entity
          BY <3>3
        <4> QED
          BY <1>1, <3>3, <4>1 DEF Issued
      <3>4. CASE id.index = entity.index
        <4>1. (id = entity) <=> (id.generation = entity.generation)
          BY <1>2, <3>1, <3>4
        <4>2. (id \in Issued') <=>
                (id.generation < entity.generation \/ id.generation = entity.generation)
          BY <1>1, <3>4 DEF Issued
        <4>3. (id \in Issued) <=> (id.generation < entity.generation)
          BY <1>1, <3>1, <3>4 DEF Issued
        <4> QED
          BY <4>1, <4>2, <4>3
      <3> QED
        BY <3>3, <3>4
    <2>2. Issued \subseteq Ids /\ Issued' \subseteq Ids
      BY DEF Issued
    <2> QED
      BY <1>1, <2>1, <2>2
  <1>6. ASSUME NEW j \in DOMAIN records \ {entity.index}, records[j].alive
        PROVE RowOf(entity_store', archetypes', j) = RowOf(entity_store, archetypes, j)
    BY <1>1, <1>6 DEF SameRows
  <1>7. ASSUME NEW x \in LiveEntities(entity_store) PROVE ComponentsOf(x)' = ComponentsOf(x)
    <2>1. /\ x.index \in DOMAIN records /\ records[x.index].alive
          /\ x.index # entity.index
      BY <1>1, LiveFacts
    <2>2. RowOf(entity_store', archetypes', x.index) = RowOf(entity_store, archetypes, x.index)
      BY <1>6, <2>1
    <2>3. records2[x.index].component_mask = records[x.index].component_mask
      BY <1>1, <2>1
    <2> QED
      BY <1>1, <2>2, <2>3, EntryKept
  <1>8. ComponentsOf(entity)' = <<>>
    <2>1. ComponentsOf(entity)'
            = Content(component_types', records2[entity.index].component_mask,
                      RowOf(entity_store', archetypes', entity.index))
      BY ComponentsAreContent
    <2>2. \A types, row : Content(types, {}, row) = <<>>
      BY DEF Content
    <2> QED
      BY <1>1, <2>1, <2>2
  <1>9. Contents' = [e \in DOMAIN Contents \cup {entity} |->
                       IF e = entity THEN <<>> ELSE Contents[e]]
    <2>1. /\ DOMAIN Contents = LiveEntities(entity_store)
          /\ \A x \in LiveEntities(entity_store) : Contents[x] = ComponentsOf(x)
          /\ Contents' = [x \in LiveEntities(entity_store') |-> ComponentsOf(x)']
      BY DEF Contents
    <2> HIDE DEF Contents
    <2> QED
      BY <1>3, <1>7, <1>8, <2>1
  <1>10. ValuesComplete'
    BY <1>1, <1>6 DEF ValuesInv, ValuesComplete
  <1>11. Map!Create(entity)
    BY <1>4, <1>5, <1>9 DEF Map!Create, Contents
  <1> QED
    BY <1>1, <1>10, <1>11 DEF ValuesInv, Map!EntityMapNext, Contents

LEMMA DestroyDestroys ==
    ASSUME WorldInv, ValuesInv, NEW entity \in Ids, DestroyEntity(entity)
    PROVE ValuesInv' /\ [Map!EntityMapNext]_<<Issued, Contents>>
  <1> DEFINE records == entity_store.entity_records
             records2 == entity_store'.entity_records
  <1>1. /\ WorldInv' /\ Resolves(entity_store, entity)
        /\ DOMAIN records2 = DOMAIN records
        /\ ~records2[entity.index].alive
        /\ records2[entity.index].generation = entity.generation + 1
        /\ \A j \in DOMAIN records \ {entity.index} :
             /\ records2[j].alive = records[j].alive
             /\ records2[j].generation = records[j].generation
             /\ records2[j].component_mask = records[j].component_mask
        /\ SameRows(entity_store, archetypes, entity_store', archetypes', entity.index)
        /\ CompleteColumns(archetypes')
        /\ UNCHANGED component_types
    BY DestroyKeeps DEF ValuesInv
  <1>2. /\ entity = EntityId(entity.index, entity.generation)
        /\ entity.generation \in 1 .. LastGeneration
    BY IdFacts
  <1>3. /\ entity \in LiveEntities(entity_store)
        /\ LiveEntities(entity_store') = LiveEntities(entity_store) \ {entity}
    BY <1>1, <1>2, LiveDestroyed
  <1>4. /\ entity.index \in DOMAIN records /\ records[entity.index].alive
        /\ records[entity.index].generation = entity.generation
    BY <1>1 DEF Resolves
  <1>5. Issued' = Issued
    <2>1. ASSUME NEW id \in Ids PROVE (id \in Issued') <=> (id \in Issued)
      <3>1. id.generation \in 1 .. LastGeneration /\ LastGeneration \in Nat
        BY IdFacts, GenerationAssumption
      <3>2. CASE id.index # entity.index
        BY <1>1, <3>2 DEF Issued
      <3>3. CASE id.index = entity.index
        BY <1>1, <1>2, <1>4, <3>1, <3>3 DEF Issued
      <3> QED
        BY <3>2, <3>3
    <2> QED
      BY <2>1 DEF Issued
  <1>6. ASSUME NEW j \in DOMAIN records \ {entity.index}, records[j].alive
        PROVE RowOf(entity_store', archetypes', j) = RowOf(entity_store, archetypes, j)
    BY <1>1, <1>6 DEF SameRows
  <1>7. ASSUME NEW x \in LiveEntities(entity_store), x # entity
        PROVE ComponentsOf(x)' = ComponentsOf(x)
    <2>1. /\ x.index \in DOMAIN records /\ records[x.index].alive
          /\ records[x.index].generation = x.generation
          /\ x = EntityId(x.index, x.generation)
      BY LiveFacts
    <2>2. x.index # entity.index
      BY <1>2, <1>4, <1>7, <2>1
    <2>3. RowOf(entity_store', archetypes', x.index) = RowOf(entity_store, archetypes, x.index)
      BY <1>6, <2>1, <2>2
    <2>4. records2[x.index].component_mask = records[x.index].component_mask
      BY <1>1, <2>1, <2>2
    <2> QED
      BY <1>1, <2>3, <2>4, EntryKept
  <1>8. Contents' = Restrict(Contents, DOMAIN Contents \ {entity})
    BY <1>3, <1>7 DEF Contents, Restrict
  <1>9. ValuesComplete'
    BY <1>1, <1>6 DEF ValuesInv, ValuesComplete
  <1>10. Map!Destroy(entity)
    BY <1>5, <1>8 DEF Map!Destroy, Contents, Restrict, Map!Restrict
  <1>11. entity \in DOMAIN Contents
    BY <1>3 DEF Contents
  <1> QED
    BY <1>1, <1>9, <1>10, <1>11 DEF ValuesInv, Map!EntityMapNext, Contents


LEMMA ExtensionShowsNothing ==
    ASSUME WorldInv, ValuesInv, WorldInv', TablesExtended, UNCHANGED component_types,
           entity_store'.entity_records = entity_store.entity_records,
           CompleteColumns(archetypes')
    PROVE ValuesInv' /\ [Map!EntityMapNext]_<<Issued, Contents>>
  <1>1. SameRows(entity_store, archetypes, entity_store, archetypes', 0)
    BY ExtendedAgrees
  <1>2. SameRows(entity_store, archetypes, entity_store', archetypes', 0)
    BY <1>1 DEF SameRows, RowOf
  <1>3. UNCHANGED <<Issued, Contents>> /\ ValuesComplete'
    BY <1>2, NothingShows DEF ValuesInv
  <1> QED
    BY <1>3 DEF ValuesInv

LEMMA MapStep ==
    ASSUME RegisteredMasksOnly, WorldInv, ValuesInv, [Next]_vars
    PROVE ValuesInv' /\ [Map!EntityMapNext]_<<Issued, Contents>>
  <1>1. ASSUME NEW type \in Types, RegisterComponent(type)
        PROVE ValuesInv' /\ [Map!EntityMapNext]_<<Issued, Contents>>
    <2>1. /\ WorldInv' /\ UNCHANGED <<entity_store, archetypes>>
          /\ DOMAIN component_types \subseteq DOMAIN component_types'
          /\ \A i \in DOMAIN component_types : component_types'[i] = component_types[i]
      BY <1>1, RegisterKeeps
    <2>2. SameRows(entity_store, archetypes, entity_store', archetypes', 0)
      BY <2>1 DEF SameRows
    <2>3. UNCHANGED <<Issued, Contents>> /\ ValuesComplete'
      BY <2>1, <2>2, NothingShows DEF ValuesInv
    <2> QED
      BY <2>1, <2>3 DEF ValuesInv
  <1>2. ASSUME NEW capacity \in Capacities, ReserveEntities(capacity)
        PROVE ValuesInv' /\ [Map!EntityMapNext]_<<Issued, Contents>>
    <2>1. capacity \in Nat
      BY WorldAssumption
    <2>2. /\ WorldInv' /\ TablesExtended /\ UNCHANGED component_types
          /\ entity_store'.entity_records = entity_store.entity_records
      BY <1>2, <2>1, ReserveEntitiesKeeps
    <2>3. DOMAIN archetypes' = DOMAIN archetypes
      BY <1>2 DEF ReserveEntities, ReserveRows
    <2>4. CompleteColumns(archetypes')
      BY <2>2, <2>3 DEF ValuesInv, CompleteColumns, TablesExtended
    <2> QED
      BY <2>2, <2>4, ExtensionShowsNothing
  <1>3. ASSUME NEW capacity \in Capacities, NEW mask \in ReservedMasks,
               ReserveArchetype(mask, capacity)
        PROVE ValuesInv' /\ [Map!EntityMapNext]_<<Issued, Contents>>
    <2>1. capacity \in Nat /\ mask \in SUBSET Nat
      BY WorldAssumption
    <2>2. /\ WorldInv' /\ TablesExtended /\ UNCHANGED <<component_types, entity_store>>
          /\ mask \subseteq Registered
          /\ \A k \in DOMAIN archetypes' \ DOMAIN archetypes :
               archetypes'[k].mask = mask /\ archetypes'[k].columns = mask \cap Registered
      BY <1>3, <2>1, ReserveArchetypeKeeps
    <2>3. CompleteColumns(archetypes')
      <3>1. ASSUME NEW k \in DOMAIN archetypes'
            PROVE archetypes'[k].mask \subseteq archetypes'[k].columns
        <4>1. CASE k \in DOMAIN archetypes
          BY <2>2, <4>1 DEF ValuesInv, CompleteColumns, TablesExtended
        <4>2. CASE k \notin DOMAIN archetypes
          BY <2>2, <4>2
        <4> QED
          BY <4>1, <4>2
      <3> QED
        BY <3>1 DEF CompleteColumns
    <2> QED
      BY <2>2, <2>3, ExtensionShowsNothing
  <1>4. CASE SealForRuntime
    <2>1. /\ WorldInv' /\ TablesExtended /\ UNCHANGED component_types
          /\ DOMAIN archetypes' = DOMAIN archetypes
          /\ entity_store'.entity_records = entity_store.entity_records
      BY <1>4, SealKeeps
    <2>2. CompleteColumns(archetypes')
      BY <2>1 DEF ValuesInv, CompleteColumns, TablesExtended
    <2> QED
      BY <2>1, <2>2, ExtensionShowsNothing
  <1>5. CASE CreateEntity
    BY <1>5, CreateCreates
  <1>6. CASE CreateEntityRollsBack
    <2>1. /\ WorldInv'
          /\ DOMAIN entity_store'.entity_records = DOMAIN entity_store.entity_records
          /\ \A j \in DOMAIN entity_store.entity_records :
               /\ entity_store'.entity_records[j].alive = entity_store.entity_records[j].alive
               /\ entity_store'.entity_records[j].generation
                    = entity_store.entity_records[j].generation
               /\ entity_store.entity_records[j].alive =>
                    entity_store'.entity_records[j] = entity_store.entity_records[j]
          /\ UNCHANGED <<archetypes, component_types>>
      BY <1>6, RollbackKeeps
    <2>2. SameRows(entity_store, archetypes, entity_store', archetypes', 0)
      BY <2>1 DEF SameRows, RowOf
    <2>3. UNCHANGED <<Issued, Contents>> /\ ValuesComplete'
      BY <2>1, <2>2, NothingShows DEF ValuesInv
    <2> QED
      BY <2>1, <2>3 DEF ValuesInv
  <1>7. ASSUME NEW entity \in Ids, DestroyEntity(entity)
        PROVE ValuesInv' /\ [Map!EntityMapNext]_<<Issued, Contents>>
    BY <1>7, DestroyDestroys
  <1>8. ASSUME NEW entity \in Ids, NEW type \in Types, NEW value \in Values,
               AddComponent(entity, type, value)
        PROVE ValuesInv' /\ [Map!EntityMapNext]_<<Issued, Contents>>
    BY <1>8, AddPuts
  <1>9. ASSUME NEW entity \in Ids, NEW type \in Types, NEW value \in Values,
               WriteComponent(entity, type, value)
        PROVE ValuesInv' /\ [Map!EntityMapNext]_<<Issued, Contents>>
    BY <1>9, WritePuts
  <1>10. ASSUME NEW entity \in Ids, NEW type \in Types, RemoveComponent(entity, type)
         PROVE ValuesInv' /\ [Map!EntityMapNext]_<<Issued, Contents>>
    BY <1>10, RemoveDrops
  <1>11. CASE UNCHANGED vars
    <2>1. WorldInv'
      BY WorldPreserved
    <2>2. SameRows(entity_store, archetypes, entity_store', archetypes', 0)
      BY <1>11 DEF vars, SameRows
    <2>3. UNCHANGED <<Issued, Contents>> /\ ValuesComplete'
      BY <1>11, <2>1, <2>2, NothingShows DEF ValuesInv, vars
    <2> QED
      BY <1>11, <2>3 DEF ValuesInv, vars
  <1> QED
    BY <1>1, <1>2, <1>3, <1>4, <1>5, <1>6, <1>7, <1>8, <1>9, <1>10, <1>11 DEF Next

LEMMA MapInitially == Init => ValuesInv /\ Map!EntityMapInit
  <1> SUFFICES ASSUME Init PROVE ValuesInv /\ Map!EntityMapInit
    OBVIOUS
  <1>1. entity_store.entity_records = <<>>
    BY DEF Init, EmptyStore
  <1>2. ValuesComplete
    BY <1>1 DEF ValuesComplete
  <1>3. CompleteColumns(archetypes)
    BY DEF Init, CompleteColumns, Archetype
  <1>4. Issued = {}
    BY <1>1 DEF Issued
  <1>5. LiveEntities(entity_store) = {}
    BY <1>1 DEF LiveEntities
  <1>6. [entity \in LiveEntities(entity_store) |-> ComponentsOf(entity)] = <<>>
    BY <1>5
  <1> QED
    BY <1>2, <1>3, <1>4, <1>6 DEF ValuesInv, Map!EntityMapInit

\* To its callers, a world is a map from ids to components and their values: an
\* id is given out once, and no swap-back, move or reuse of an index loses a value
\* or gives it to another entity.  Callers reserve only masks of types they
\* registered, as the template form of ReserveArchetype does; without it the
\* claim is false.
THEOREM ImplementsMapOfEntities ==
    ASSUME RegisteredMasksOnly
    PROVE Spec => ImplementsEntityMap
  <1>1. Init => ValuesInv /\ Map!EntityMapInit
    BY MapInitially
  <1>2. WorldInv /\ ValuesInv /\ [Next]_vars =>
          ValuesInv' /\ [Map!EntityMapNext]_<<Issued, Contents>>
    BY MapStep
  <1> QED
    BY <1>1, <1>2, WorldInvariant, PTL
    DEF Spec, ImplementsEntityMap, Map!EntityMapSpec, Contents

\* Under the same condition every archetype has a column for each component of
\* its mask, so GetComponent finds the bytes of every component an entity has.
THEOREM ColumnsStayComplete ==
    ASSUME RegisteredMasksOnly
    PROVE Spec => []ColumnsMatchMask
  <1>1. Init => ValuesInv
    BY MapInitially
  <1>2. WorldInv /\ ValuesInv /\ [Next]_vars => ValuesInv'
    BY MapStep
  <1>3. ValuesInv => ColumnsMatchMask
    BY DEF ValuesInv, CompleteColumns, ColumnsMatchMask, Range
  <1> QED
    BY <1>1, <1>2, <1>3, WorldInvariant, PTL DEF Spec
=============================================================================

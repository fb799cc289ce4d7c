----------------------------- MODULE EntityMap -----------------------------
(***************************************************************************)
(* What World (engine/core/ecs/world.h) promises its callers: entities are *)
(* ids, an id is given out once, and each live entity owns a set of        *)
(* components with a value each.  Archetypes, rows, columns and free       *)
(* indices do not show.  A call that is refused changes nothing.           *)
(***************************************************************************)
EXTENDS Functions

CONSTANTS
  Ids,         \* the ids entities may have
  Components,  \* dense indices of component types
  Values       \* values of a component

VARIABLES
  issued,      \* the ids given out so far
  components   \* the components and their values, by live entity

EntityMapInit == issued = {} /\ components = <<>>

\* CreateEntity: a new id, with no components.
Create(entity) ==
  /\ entity \notin issued
  /\ issued' = issued \cup {entity}
  /\ components' = [e \in DOMAIN components \cup {entity} |->
                      IF e = entity THEN <<>> ELSE components[e]]

\* DestroyEntity
Destroy(entity) ==
  /\ components' = Restrict(components, DOMAIN components \ {entity})
  /\ UNCHANGED issued

\* AddComponent, and writing through a component pointer.
Put(entity, component, value) ==
  /\ components' =
       [components EXCEPT ![entity] =
          [c \in DOMAIN @ \cup {component} |->
             IF c = component THEN value ELSE @[c]]]
  /\ UNCHANGED issued

\* RemoveComponent
Drop(entity, component) ==
  /\ components' =
       [components EXCEPT ![entity] = Restrict(@, DOMAIN @ \ {component})]
  /\ UNCHANGED issued

EntityMapNext ==
  \/ \E entity \in Ids : Create(entity)
  \/ \E entity \in DOMAIN components :
       \/ Destroy(entity)
       \/ \E component \in Components :
            \/ \E value \in Values : Put(entity, component, value)
            \/ Drop(entity, component)

EntityMapSpec == EntityMapInit /\ [][EntityMapNext]_<<issued, components>>
=============================================================================

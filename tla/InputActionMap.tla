--------------------------- MODULE InputActionMap ---------------------------
(***************************************************************************)
(* InputActionMap (engine/core/input/input_action_map.cc): named actions   *)
(* bound to keys, and which are active, from the key events of the window. *)
(* Two maps hold the bindings, one for each direction.                     *)
(*                                                                         *)
(* A key event is handled in a loop over the actions of its key, and the   *)
(* sink is called from inside that loop whenever an action starts or ends. *)
(* Bindings may change there.  The model leaves out what the language      *)
(* leaves undefined: a sink that changes the bindings of the very key      *)
(* whose actions the loop goes through.                                    *)
(***************************************************************************)
EXTENDS Naturals, FiniteSets

CONSTANTS Actions, Keys

VARIABLES
  keys_of,        \* action_to_keys_
  actions_of,     \* key_to_actions_
  pressed_keys,
  pressed_count,  \* pressed_count_by_action_, 0 for an action without entry
  delivering,     \* the key HandleWindowEvent goes through the actions of, in a set, or none
  remaining,      \* the actions of it that the loop has yet to count
  disturbed       \* history: counts were last rebuilt from inside a loop that went on counting

inputVars == <<keys_of, actions_of, pressed_keys, pressed_count, delivering, remaining, disturbed>>

InputInit ==
  /\ keys_of = [a \in Actions |-> {}]
  /\ actions_of = [k \in Keys |-> {}]
  /\ pressed_keys = {}
  /\ pressed_count = [a \in Actions |-> 0]
  /\ delivering = {} /\ remaining = {} /\ disturbed = FALSE

IsPressed(a) == pressed_count[a] > 0

\* What Bind calls the sink for comes last in it, so it is one of the calls that follow.
Bind(a, k) ==
  /\ k \notin keys_of[a] /\ k \notin delivering
  /\ keys_of' = [keys_of EXCEPT ![a] = @ \cup {k}]
  /\ actions_of' = [actions_of EXCEPT ![k] = @ \cup {a}]
  /\ pressed_count' = [pressed_count EXCEPT ![a] = IF k \in pressed_keys THEN @ + 1 ELSE @]
  /\ UNCHANGED <<pressed_keys, delivering, remaining, disturbed>>

\* RebuildPressedState
CountsFrom(bindings) ==
  [a \in Actions |-> Cardinality({k \in pressed_keys : a \in bindings[k]})]

\* Unbind for one key, UnbindAll for every key of the action.
UnbindKeys(a, keys) ==
  /\ keys # {} /\ keys \subseteq keys_of[a] /\ keys \cap delivering = {}
  /\ keys_of' = [keys_of EXCEPT ![a] = @ \ keys]
  /\ actions_of' = [k \in Keys |-> actions_of[k] \ (IF k \in keys THEN {a} ELSE {})]
  /\ pressed_count' = CountsFrom(actions_of')
  /\ disturbed' = (remaining # {})
  /\ UNCHANGED <<pressed_keys, delivering, remaining>>

Unbind(a, k) == UnbindKeys(a, {k})
UnbindAll(a) == UnbindKeys(a, keys_of[a])

-----------------------------------------------------------------------------
(* HandleWindowEvent: up to its loop, a turn of it, and its end.           *)

\* The loop is entered, to count the actions given.
Deliver(k, counted) ==
  /\ delivering' = {k} /\ remaining' = counted
  /\ UNCHANGED <<keys_of, actions_of, pressed_count, disturbed>>

\* Mutant: a key known to be pressed is counted again.
HandleKeyDownAgain(k, repeat) ==
  IF actions_of[k] = {} THEN UNCHANGED inputVars
  ELSE /\ pressed_keys' = pressed_keys \cup {k}
       /\ Deliver(k, IF repeat THEN {} ELSE actions_of[k])

\* A key nothing is bound to and a key known to be pressed change nothing; a repetition is
\* passed on to every action and not counted.
HandleKeyDown(k, repeat) ==
  IF actions_of[k] = {} \/ (~repeat /\ k \in pressed_keys) THEN UNCHANGED inputVars
  ELSE /\ pressed_keys' = IF repeat THEN pressed_keys ELSE pressed_keys \cup {k}
       /\ Deliver(k, IF repeat THEN {} ELSE actions_of[k])

HandleKeyUp(k) ==
  IF actions_of[k] = {} \/ k \notin pressed_keys THEN UNCHANGED inputVars
  ELSE /\ pressed_keys' = pressed_keys \ {k}
       /\ Deliver(k, actions_of[k])

\* A turn of the loop, up or down as the key was already recorded.  The actions of a key are in
\* the order they were bound in; any order is allowed here.
CountAction(a) ==
  /\ a \in remaining /\ remaining' = remaining \ {a}
  /\ pressed_count' = [pressed_count EXCEPT ![a] = IF delivering \subseteq pressed_keys THEN @ + 1
                                                  ELSE IF @ > 0 THEN @ - 1 ELSE @]
  /\ UNCHANGED <<keys_of, actions_of, pressed_keys, delivering, disturbed>>

\* The sink is called when the turn starts or ends the action.
Notifies(a) == IsPressed(a) # IsPressed(a)'

EndDelivery ==
  /\ remaining = {} /\ delivering' = {}
  /\ UNCHANGED <<keys_of, actions_of, pressed_keys, pressed_count, remaining, disturbed>>

-----------------------------------------------------------------------------
(* Properties.                                                             *)

\* The keys that a count is of.  Those of an action the loop has still to come to are as they
\* were before the event.
CountedKeys(a) ==
  IF a \notin remaining THEN pressed_keys
  ELSE IF delivering \subseteq pressed_keys THEN pressed_keys \ delivering
       ELSE pressed_keys \cup delivering

CountsExact ==
  \A a \in Actions : pressed_count[a] = Cardinality({k \in CountedKeys(a) : a \in actions_of[k]})

\* The two maps are each other's inverse, and in and between the loops every count is that of
\* the pressed keys bound to the action, whatever order keys are pressed, bound, unbound and
\* released in, by callbacks of the loop too.  Only an Unbind from inside a loop that has not
\* counted all its actions puts counts off, and the next Unbind that is not puts them right.
CountsMatchBindings ==
  /\ \A a \in Actions, k \in Keys : k \in keys_of[a] <=> a \in actions_of[k]
  /\ disturbed \/ CountsExact
=============================================================================

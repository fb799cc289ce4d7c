---------------------------- MODULE WindowSystem ----------------------------
(***************************************************************************)
(* WindowSystem, its event queue and the window backend                    *)
(* (engine/core/window/window_system.cc, event_queue.h,                    *)
(* glfw_window_backend.cc).  Callbacks of the platform push events while   *)
(* PollEvents runs; a full queue refuses them and nobody is told.          *)
(***************************************************************************)
EXTENDS Naturals, Sequences

CONSTANTS
  AllKeys,        \* the keys of the keyboard
  QueueCapacity   \* the cells of the ring, one of which stays free

VARIABLES
  window,         \* window_system_ and its backend: "none", "created" or "open"
  events,         \* event_queue_
  should_close,   \* the backend's should_close_
  down            \* history: the keys whose last event in the queue was no release

windowVars == <<window, events, should_close, down>>

KeyEvents == [type : {"down", "repeat", "up"}, key : AllKeys]
CloseEvent == [type |-> "close"]
OtherEvent == [type |-> "other"]    \* resize, focus, mouse

WindowInit ==
  /\ window = "none" /\ events = <<>> /\ should_close = FALSE
  /\ down = {}

\* A new WindowSystem, before its backend is initialised.
CreateWindow ==
  /\ window' = "created" /\ events' = <<>> /\ should_close' = FALSE
  /\ UNCHANGED down

OpenWindow == window' = "open" /\ UNCHANGED <<events, should_close, down>>

\* The event sink: Push, its answer ignored.
Emit(event) ==
  events' = IF Len(events) < QueueCapacity - 1 THEN Append(events, event) ELSE events

\* The callbacks the platform may make.  A key goes down, repeats and goes up in turn, but as any
\* of its events may be refused, whatever sequence of them arrives.
KeyCallback(event) ==
  /\ Emit(event)
  /\ down' = IF events' = events THEN down
             ELSE IF event.type = "up" THEN down \ {event.key} ELSE down \cup {event.key}
  /\ UNCHANGED <<window, should_close>>

CloseCallback ==
  /\ should_close' = TRUE
  /\ Emit(CloseEvent)
  /\ UNCHANGED <<window, down>>

OtherCallback == Emit(OtherEvent) /\ UNCHANGED <<window, should_close, down>>

PopEvent ==
  /\ events # <<>>
  /\ events' = Tail(events)
  /\ UNCHANGED <<window, should_close, down>>

\* Backend and WindowSystem go together.
DestroyWindow ==
  /\ window' = "none" /\ events' = <<>> /\ should_close' = FALSE
  /\ UNCHANGED down
=============================================================================

------------------------------ MODULE Promises ------------------------------
(***************************************************************************)
(* What futures promise (engine/core/async/future.h), without threads,     *)
(* executors, callbacks or mutexes: each gets one result, and which it may *)
(* be follows from the results of the futures it was made from.            *)
(***************************************************************************)
EXTENDS Naturals

CONSTANT MaxFutures

VARIABLES kind, accepts, sources, wait_all, result

vars == <<kind, accepts, sources, wait_all, result>>

Futures == 1 .. MaxFutures
Ready(f) == result[f] # "none"
Failures(S) == {result[i] : i \in {j \in S : result[j] \notin {"none", "ok"}}}

\* The results f may get now, unless it is cancelled.
Verdicts(f) ==
  LET from == sources[f]
      all_ready == \A i \in from : Ready(i)
      ok == {v \in {"ok"} : \A i \in from : result[i] = "ok"}
  IN  CASE kind[f] = "schedule" -> {"ok", "error", "unavailable"}
        [] kind[f] = "then" ->
             IF ~all_ready THEN {}
             ELSE IF accepts[f] THEN {"ok", "error", "unavailable"}
             ELSE {"unavailable"} \cup Failures(from) \cup ok
                  \cup {v \in {"error"} : ok # {}}
        [] kind[f] \in {"status", "merge"} -> ok \cup Failures(from)
        [] kind[f] = "combine" -> ok \cup {v \in Failures(from) : wait_all[f] => all_ready}
        [] OTHER -> {}

Init ==
  /\ kind = [f \in Futures |-> "none"]
  /\ accepts = [f \in Futures |-> FALSE]
  /\ sources = [f \in Futures |-> {}]
  /\ wait_all = [f \in Futures |-> FALSE]
  /\ result = [f \in Futures |-> "none"]

Create(f) ==
  /\ kind[f] = "none"
  /\ kind'[f] # "none"
  /\ sources'[f] \subseteq {g \in Futures : kind[g] # "none"}
  /\ \A g \in Futures \ {f} : /\ kind'[g] = kind[g] /\ accepts'[g] = accepts[g]
                              /\ sources'[g] = sources[g] /\ wait_all'[g] = wait_all[g]
  /\ UNCHANGED result

Complete(f) ==
  /\ kind[f] # "none" /\ ~Ready(f)
  /\ \E v \in {"cancelled"} \cup Verdicts(f) : result' = [result EXCEPT ![f] = v]
  /\ UNCHANGED <<kind, accepts, sources, wait_all>>

Next == \E f \in Futures : Create(f) \/ Complete(f)

Spec == Init /\ [][Next]_vars
=============================================================================

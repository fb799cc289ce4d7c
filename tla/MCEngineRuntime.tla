-------------------------- MODULE MCEngineRuntime --------------------------
(***************************************************************************)
(* Instances of EngineRuntime for TLC.                                     *)
(***************************************************************************)
EXTENDS EngineRuntime, TLC

CONSTANTS jump, fire, left, right

OneAction == {jump}
TwoActions == {jump, fire}
TwoKeys == {left, right}
KeySymmetry == Permutations(TwoKeys)
=============================================================================

------------------------------ MODULE MCWorld ------------------------------
(***************************************************************************)
(* Instances of World for TLC.                                             *)
(***************************************************************************)
EXTENDS World, TLC

CONSTANTS position, velocity

TypePair == {position, velocity}
\* Types differ in name only.
TypeSymmetry == Permutations(TypePair)

TwoValues == {0, 1}

\* Reserved for one type, and for both.
TwoMasks == {{1}, {1, 2}}
\* Reserved before the second type is registered, or even the first.
EveryMask == SUBSET {1, 2}
=============================================================================

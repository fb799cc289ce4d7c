--------------------------- MODULE MCRenderGraph ---------------------------
(***************************************************************************)
(* Instances of RenderGraph for TLC.                                       *)
(***************************************************************************)
EXTENDS RenderGraph, TLC

CONSTANTS graphics, compute

TwoQueues == {graphics, compute}
QueueSymmetry == Permutations(TwoQueues)
=============================================================================

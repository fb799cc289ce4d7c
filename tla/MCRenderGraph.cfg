\* Three passes over three resources, the fewest that let three passes be live, with five
\* uses: enough for a writer, its reader and an overwriting pass, or for a queue used again.
SPECIFICATION GraphSpec
CONSTANTS
  graphics = graphics
  compute = compute
  Queues <- TwoQueues
  MaxResources = 3
  MaxPasses = 3
  MaxUses = 5
INVARIANTS
  OrderFollowsDeclarations
  CullsExactly
  AccessesSynchronised
  ExecuteLeavesNothing
SYMMETRY QueueSymmetry
CHECK_DEADLOCK FALSE

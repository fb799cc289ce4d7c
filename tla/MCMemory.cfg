\* Ten bytes at an address that is no multiple of four, so that padding is needed at both
\* ends; four slots with three calls nested, so that a destructor gives back another slot.
SPECIFICATION Spec
CONSTANTS
  Capacity = 10
  Base = 6
  Sizes <- TheSizes
  Alignments <- TheAlignments
  WordSize = 32
  Slots = 4
  MaxDepth = 3
INVARIANTS
  BlocksDisjoint
  PoolExact
CHECK_DEADLOCK FALSE

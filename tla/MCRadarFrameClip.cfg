\* A list with the mark for clipping.
CONSTANTS
  MaxTargets = 3
  MaxLists = 2
  Sizes = {2, 3}
  Cycles = {0}
  MaxSets = 0
  Zero = Zero
SPECIFICATION Spec
INVARIANT NothingInvented
CHECK_DEADLOCK FALSE

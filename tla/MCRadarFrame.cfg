\* Three lists of up to two targets or clipped, and room for three targets.
CONSTANTS
  MaxTargets = 3
  MaxLists = 3
  Sizes = {0, 2, 3}
  Cycles = {0, 1}
  MaxSets = 1
  Zero = Zero
SPECIFICATION FairSpec
INVARIANTS
  TypeOK
  DecodesLastWhole
  CollectsFaithfully
PROPERTY BatchPublished
\* The thread may return before its loop.
CHECK_DEADLOCK FALSE

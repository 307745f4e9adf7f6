\* Two radars, three frames each, a queue of two: they overrun it together and
\* each drains it under the other's pushes.
CONSTANTS
  r1 = r1
  r2 = r2
  Radars <- MCRadars
  MaxQSize = 2
  InitMax = 1
  MaxFrames = 3
  Free = Free
  Junk = Junk
SPECIFICATION FairSpec
INVARIANTS
  TypeOK
  QueueBound
  BlocksAccounted
  HighWater
  OverflowForgets
PROPERTY FramesSettle

\* Lists of up to two targets, two fields changed while frames are
\* filtered.
CONSTANTS
  StartConf <- MCConf
  Options <- MCOptions
  MaxSets = 2
  Targets <- MCTargets
  MaxTargets = 2
  MaxCount = 3
  IdleRounds = 1
SPECIFICATION FairSpec
INVARIANTS
  TypeOK
  InBounds
PROPERTIES
  OnlyStillWithheld
  StickyCells
  CellsFade

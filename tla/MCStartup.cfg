\* Two radars, two faults, a restart.
CONSTANTS
  NumRadars = 2
  Disc = 20
  NearMargin = 10
  MainMargin = 15
  FileMargin = 12
  MaxFaults = 2
  MaxCrashes = 1
  Junk = Junk
  Throws = Throws
  NotInFile = NotInFile
  None = None
SPECIFICATION Spec
INVARIANTS
  TypeOK
  OwnInterface
  NotGivenAway
  MarginKept
\* main goes on with starting threads, or has ended.
CHECK_DEADLOCK FALSE

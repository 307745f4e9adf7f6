\* A queue of two (half of it is one), three messages.
CONSTANTS
  MaxQSize = 2
  NotifyCycle = 1
  BeatAfter = 0
  MaxMsgs = 3
  Junk = Junk
SPECIFICATION FairSpec
INVARIANTS
  TypeOK
  QueueBound
  NoLeak
  FiguresSound
PROPERTIES
  MessagesSettle
  BeatsGoOn

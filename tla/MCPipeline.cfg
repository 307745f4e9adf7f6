\* Two radars of two frames each; a first queue of one, a second of two.
CONSTANTS
  r1 = r1
  r2 = r2
  Radars <- MCRadars
  MaxQSize = 1
  InitMax = 1
  MaxFrames = 2
  PubMaxQSize = 2
  NotifyCycle = 0
  BeatAfter = 0
  Free = Free
  Junk = Junk
SPECIFICATION PipeSpec
PROPERTY ImplementsFifo
SYMMETRY MCSymmetry
VIEW MCView

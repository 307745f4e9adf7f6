\* Three radars and the filter on the mutex of their queue, the web server and
\* the main loop on webgo.
CONSTANTS
  r1 = r1
  r2 = r2
  r3 = r3
  filter = filter
  occ = occ
  Qlocks = {occ}
  Users = {r1, r2, r3, filter}
  Uses <- MCUses
  webgo = webgo
  Server = Server
  Main = Main
  NoOwner = NoOwner
SPECIFICATION FairSpec
INVARIANTS
  TypeOK
  NoLostWakeup
PROPERTIES
  ImplementsLock
  NeverStuck
  ServerGoesOn

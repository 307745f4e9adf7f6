\* One radar, two requests that may overlap, two stops or failures.
CONSTANTS
  Radars = {r1}
  Handlers = {h1, h2}
  Texts = {"0", "5", "", "50%", "xFF"}
  Numbers = {"0", "5"}
  Percent = {"50%"}
  Unencoded = {"xFF"}
  Forms <- MCForms
  DefaultServer <- MCServer
  DefaultNotify = "5"
  DefaultPlace = "0"
  NoText = ""
  Main = Main
  MaxForms = 2
  MaxFaults = 2
  Missing = Missing
  Hole = Hole
  Broken = Broken
  Unknown = Unknown
SPECIFICATION FairSpec
INVARIANTS
  TypeOK
  QuietSaved
  RestartRestores
 
\* The program may be idle with every request made.
CHECK_DEADLOCK FALSE

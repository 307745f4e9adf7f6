\* One request, one stop, and the start after it.
CONSTANTS
  Radars = {r1}
  Handlers = {h1}
  Texts = {"0", "5", "", "50%", "xFF"}
  Numbers = {"0", "5"}
  Percent = {"50%"}
  Unencoded = {"xFF"}
  Forms <- MCForms
  DefaultServer <- MCServer
  DefaultNotify = "5"
  DefaultPlace = "0"
  NoText = ""
  Main = Main
  MaxForms = 1
  MaxFaults = 1
  Missing = Missing
  Hole = Hole
  Broken = Broken
  Unknown = Unknown
SPECIFICATION Spec
INVARIANT SetStaysSet
CHECK_DEADLOCK FALSE

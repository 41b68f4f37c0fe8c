SPECIFICATION SettingsSpec
CONSTANTS
  Others = {o1, o2}
  Devices = {d1}
  Packs = {p1}
  Searches = {named, drawn}
  ByName <- MCByName
  BySticker <- MCBySticker
  p1 = p1
  named = named
  drawn = drawn
  MaxSteps = 3
SYMMETRY UserSymmetry
INVARIANTS ShownAsPermitted SwitchesAsKept ListsAsKept
CHECK_DEADLOCK FALSE

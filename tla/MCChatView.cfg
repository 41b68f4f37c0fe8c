SPECIFICATION Spec
CONSTANTS
  Convs = {c1, c2}
  MaxMsgs = 2
  MaxSteps = 4
SYMMETRY ConvSymmetry
INVARIANTS ScreenIsSelected CaughtUp ReadIsSeen
PROPERTIES ReadOnlyAdvances
CHECK_DEADLOCK FALSE

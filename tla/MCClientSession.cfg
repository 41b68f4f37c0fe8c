SPECIFICATION Spec
CONSTANTS
  Accounts = {a1, a2}
  VerifyEmails = TRUE
  MaxSteps = 3
SYMMETRY AccountSymmetry
CONSTRAINT Telling
INVARIANTS SignedInAsShown FileIsCurrent SecretIsStored VoiceOnlyInSession
PROPERTIES OnlyDeadSessionsEnd
CHECK_DEADLOCK FALSE

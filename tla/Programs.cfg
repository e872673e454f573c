SPECIFICATION Spec
CONSTANTS
  Names = {1, 2, 3}
  AppNames = {3}
  System <- Firmware
  UserTexts = {2}
  CardTexts = {3}
  Bad = {}
  QDOS_LINE_WORDS = 1
  MaxTouched = 1
INVARIANTS
  WordsAsAtBoot
  RowsAreTrue
PROPERTIES
  GivenUpAsAsked
CHECK_DEADLOCK FALSE

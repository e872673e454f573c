SPECIFICATION Spec
CONSTANTS
  AppNames = {"fin", "quad"}
  Numbers = {"n1", "n2"}
  UI_ANSWERS = 2
  MaxNest = 2
  MaxStack = 2
INVARIANTS
  
  StoredIsInForce
  AnswersAreTheirs

  
CONSTRAINT Apart
CHECK_DEADLOCK FALSE

SPECIFICATION GraphSpec
VIEW MCView
CONSTANTS
  SlotWords <- MCSlots
  Programs <- MCPrograms
  Bodies <- MCBodies
  Typed <- MCTyped
  ShapeOf <- MCShapeOf
  Broken = {"bad"}
  Trig = {"sin"}
  Empty = "none"
  Windows = {0, 1}
  Standard = 0
  Ranges = {0, 1}
  StatPlots = {TRUE}
  MaxEdits = 1
INVARIANTS
  
  CalcIsOfItsCurves
  

SPECIFICATION Spec
VIEW View
INVARIANT
  
  ResultHasRows

SPECIFICATION Spec
CONSTANTS
  Order <- MCOrder
  DefaultKeys <- MCDefaultKeys
  MinKeys = 2
  MaxRepeats = 2
  Args <- MCArgs
  NoJson = {"Redis"}
  BaseMemory = 5
  MaxExpiries = 1
INVARIANTS
  RowsMeasureWhatTheyWrote
  SweepShowsGrowth
  
  CountsAreAsAsked
  FlushesStayWithinTheBatch
CHECK_DEADLOCK FALSE

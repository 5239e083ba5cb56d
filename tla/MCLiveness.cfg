CONSTANTS
  r1 = r1
  r2 = r2
  n1 = n1
  o1 = o1
  d1 = d1
  MaxStarts = 3
  Settings <- MCSettings
SPECIFICATION MCSpec
INVARIANTS OneServer RunningFits
PROPERTIES Settles  EditArrives
\* A stopped or disposed client may stay so for ever.
CHECK_DEADLOCK FALSE

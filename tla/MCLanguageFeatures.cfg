SPECIFICATION Spec
CONSTANTS
  None = None
  Features <- AllFeatures
  DynamicIds = {"d1", "d2"}
  MaxStarts = 2
  MaxData = 1
  MaxWire = 2
INVARIANTS RegisteredAsDeclared FreshAtRest
CONSTRAINT Explored
CHECK_DEADLOCK FALSE

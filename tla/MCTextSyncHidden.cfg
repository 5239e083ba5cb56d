CONSTANTS
  d1 = d1
  d2 = d2
  Docs = {d1}
  Configs <- HiddenConfigs
  MaxEvents = 3
  LastText = 2
SPECIFICATION Spec
INVARIANTS NeverGarbled

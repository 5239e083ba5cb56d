CONSTANTS
  d1 = d1
  d2 = d2
  Docs = {d1, d2}
  Configs <- PlainConfigs
  MaxEvents = 3
  LastText = 2
SPECIFICATION Spec
INVARIANTS  RequestSeesLatest MirrorsAtRest

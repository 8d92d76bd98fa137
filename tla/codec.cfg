CONSTANTS
  Width = 3
  Poly = 3
  Shapes <- MCShapes
  Payloads <- MCPayloads
  None = None
SPECIFICATION Spec
INVARIANTS
  AnyShardsSuffice
  CacheExact
CHECK_DEADLOCK FALSE

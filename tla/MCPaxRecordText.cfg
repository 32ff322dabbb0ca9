CONSTANTS
  USIZE_MAX = 9999
  MAX_DECIMAL_U64_BYTES = 4
  Keywords <- MCKeywords
  Values <- MCValues
  Foreign <- MCForeign
  Noise <- MCNoise
  MaxRecords = 2
  MaxDamage = 2
  Damageable = 10
SPECIFICATION TextSpec
INVARIANTS
  LengthsAreExact
  ParsesExactlyRecords
  SlicesStayInside
\* A payload is parsed once.
CHECK_DEADLOCK FALSE

CONSTANTS
  Callers = {a, b}
  CodeCount = 2
  MaxConnects = 3
SPECIFICATION Spec
INVARIANTS CallersTracked
PROPERTIES WaitersAnswered ConnectsAnswered NobodyWaitsForDead
CHECK_DEADLOCK FALSE

CONSTANTS
  None = None
  Names = {n1, n2}
  Breaks = 1
  Moves = 2
  Refusals = 1
SPECIFICATION Spec
INVARIANT HealthyMeansInstalled

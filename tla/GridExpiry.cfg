CONSTANTS
  None = None
  System = system
  mA = mA
  inv = inv
  Meters = {mA}
  Natives = {inv}
  Inputs = {0}
  Identities <- MeterOrNothing
  Layouts <- OneOrTwoPhases
  Declarations <- TwoPhaseMeter
  Readers = {"poll"}
  ExpectedService = mA
  ExpectedPhases = 0
  MaxAge = 3
  Reconcile = 2
  Disturbances = 2
SPECIFICATION Spec
PROPERTIES TimeAloneKeepsValid

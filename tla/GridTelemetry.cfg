CONSTANTS
  None = None
  System = system
  mA = mA
  inv = inv
  Meters = {mA}
  Natives = {inv}
  Inputs = {0}
  Identities <- MeterOrInverter
  Layouts <- OneOrTwoPhases
  Declarations <- MayDeclare
  Readers = {"poll", "seed"}
  ExpectedService = mA
  ExpectedPhases = 0
  MaxAge = 1
  Reconcile = 1
  Disturbances = 2
SPECIFICATION FairSpec
INVARIANTS FreshAfterRestart ContractKept
PROPERTIES NoRevival Converges

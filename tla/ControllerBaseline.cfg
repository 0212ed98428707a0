CONSTANTS
  None = None
  CalcValues <- Discharge
  ChargeValue = 3
  ManualValues <- Discharge
  OverrideValues = {7}
  LimitChoices <- WideAndNarrow
  Sources = {"primary"}
  Policies = {"dry"}
SPECIFICATION Spec
INVARIANTS BaselineIsOutput
PROPERTIES WithinCurrentLimits ImplementsArbiter

CONSTANTS
  None = None
  CalcValues <- Discharge
  ChargeValue = 3
  ManualValues = {}
  OverrideValues = {}
  LimitChoices <- WideOnly
  Sources = {"primary"}
  Policies = {"dry"}
SPECIFICATION Spec
PROPERTIES RestoreWasAcknowledged
